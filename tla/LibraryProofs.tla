---------------------------- MODULE LibraryProofs ----------------------------
(***************************************************************************)
(* Proofs about the parts that are one call at a time.  Users and          *)
(* Registry, for any names, any number of members and whatever memory      *)
(* holds behind the tables and paths: what was found by name goes on being *)
(* found.  The routines both are built from, Library, for any strings,     *)
(* memory, widths of words and formats.  And Elf and Deck, for any file.   *)
(***************************************************************************)
EXTENDS Registry, Users, Elf, Deck, SequenceFacts, FiniteSetTheorems

\* The tables are arrays of fixed size.
LEMMA SizesAreNumbers == MaxUsers \in Nat /\ MaxGroups \in Nat /\ MaxGroups <= MaxUsers
  BY UsersAssumption

----------------------------------------------------------------------------
(* Lookups in a table *)

Hits(names, name) == {i \in DOMAIN names : names[i] # NoName /\ KeCompareString(names[i], name) = 0}

\* A lookup answers with the first hit, counted from 0.
LEMMA LookupFindsFirst ==
  ASSUME NEW names, DOMAIN names \subseteq Nat \ {0}, NEW name
  PROVE  /\ (Lookup(names, name) = NotFound) <=> (Hits(names, name) = {})
         /\ \A i \in Hits(names, name) :
              (\A j \in Hits(names, name) : i <= j) => Lookup(names, name) = i - 1
         /\ Hits(names, name) # {} =>
              \E i \in Hits(names, name) :
                Lookup(names, name) = i - 1 /\ \A j \in Hits(names, name) : i <= j
<1> DEFINE hits == Hits(names, name)
<1>1. Lookup(names, name) = IF hits = {} THEN NotFound ELSE Min(hits) - 1
  BY DEF Lookup, Hits
<1>2. hits \in SUBSET Nat /\ \A i \in hits : i \in Nat /\ i # 0
  BY DEF Hits
<1> HIDE DEF hits
<1>3. hits # {} => Min(hits) \in hits /\ \A j \in hits : Min(hits) <= j
  BY <1>2, MinIsLeast
<1>4. (Lookup(names, name) = NotFound) <=> (hits = {})
  BY <1>1, <1>2, <1>3 DEF NotFound
<1>5. \A i \in hits : (\A j \in hits : i <= j) => Lookup(names, name) = i - 1
  <2> SUFFICES ASSUME NEW i \in hits, \A j \in hits : i <= j PROVE Lookup(names, name) = i - 1
    OBVIOUS
  <2>1. Min(hits) <= i /\ i <= Min(hits) /\ Min(hits) \in Nat /\ i \in Nat
    BY <1>2, <1>3
  <2>2. Min(hits) = i
    BY <2>1
  <2>3. QED
    BY <1>1, <2>2
<1>6. hits # {} => \E i \in hits : Lookup(names, name) = i - 1 /\ \A j \in hits : i <= j
  BY <1>1, <1>3
<1>7. QED
  BY <1>4, <1>5, <1>6 DEF hits

----------------------------------------------------------------------------
(* Users *)

\* Both tables hold names and are not longer than the arrays they are in.
TablesFit ==
  /\ accounts \in Seq(UserNames) /\ Len(accounts) <= MaxUsers
  /\ userGroups \in Seq(UserNames) /\ Len(userGroups) <= MaxGroups

\* Each call of user.c checks for room before it adds a name (user.c:17, 33).
LEMMA TablesStayFit ==
  ASSUME TablesFit, [UsersNext]_usersVars
  PROVE  TablesFit'
<1> USE SizesAreNumbers
<1>1. ASSUME NEW name \in UserNames, KeCreateAccount(name) PROVE TablesFit'
  <2>1. accounts' \in {accounts, Append(accounts, name)} /\ UNCHANGED userGroups
    BY <1>1 DEF KeCreateAccount
  <2>2. accounts' = Append(accounts, name) => Len(accounts) < MaxUsers \/ accounts' = accounts
    BY <1>1 DEF KeCreateAccount
  <2>3. /\ Append(accounts, name) \in Seq(UserNames)
        /\ Len(Append(accounts, name)) = Len(accounts) + 1 /\ Len(accounts) \in Nat
    BY DEF TablesFit
  <2>4. QED
    BY <2>1, <2>2, <2>3 DEF TablesFit
<1>2. ASSUME NEW name \in UserNames, KeCreateUserGroup(name) PROVE TablesFit'
  <2>1. userGroups' \in {userGroups, Append(userGroups, name)} /\ UNCHANGED accounts
    BY <1>2 DEF KeCreateUserGroup
  <2>2. userGroups' = Append(userGroups, name) =>
          Len(userGroups) < MaxGroups \/ userGroups' = userGroups
    BY <1>2 DEF KeCreateUserGroup
  <2>3. /\ Append(userGroups, name) \in Seq(UserNames)
        /\ Len(Append(userGroups, name)) = Len(userGroups) + 1 /\ Len(userGroups) \in Nat
    BY DEF TablesFit
  <2>4. QED
    BY <2>1, <2>2, <2>3 DEF TablesFit
<1>3. ASSUME NEW uid \in 0 .. MaxUsers - 1, KeSetCurrentAccount(uid) PROVE TablesFit'
  BY <1>3 DEF TablesFit, KeSetCurrentAccount
<1>4. ASSUME UsersOutOfMemory PROVE TablesFit'
  BY <1>4 DEF TablesFit, UsersOutOfMemory
<1>5. ASSUME UNCHANGED usersVars PROVE TablesFit'
  BY <1>5 DEF TablesFit, usersVars
<1>6. QED
  BY <1>1, <1>2, <1>3, <1>4, <1>5 DEF UsersNext

\* The tables of every behaviour of user.c fit.
LEMMA TablesAlwaysFit == UsersSpec => []TablesFit
<1>1. UsersInit => TablesFit
  BY UsersAssumption DEF UsersInit, TablesFit
<1>2. QED
  BY <1>1, TablesStayFit, PTL DEF UsersSpec

\* NoName stands for NULL and is the name of nobody.
LEMMA NamesAreNames == NoName \notin UserNames
<1>1. NoName[1] = NUL /\ 1 \in DOMAIN NoName
  BY DEF NoName
<1>2. \A name \in UserNames : \A i \in DOMAIN name : name[i] # NUL
  BY UsersAssumption
<1>3. QED
  BY <1>1, <1>2

\* A new account is behind all others.
LEMMA AccountKeepsNumber ==
  ASSUME NEW names \in Seq(UserNames), NEW new \in UserNames, NEW name,
         Lookup(names, name) # NotFound
  PROVE  Lookup(Append(names, new), name) = Lookup(names, name)
<1> DEFINE more == Append(names, new)
<1>1. /\ DOMAIN names = 1 .. Len(names) /\ DOMAIN more = 1 .. Len(names) + 1
      /\ Len(names) \in Nat /\ \A i \in 1 .. Len(names) : more[i] = names[i]
  OBVIOUS
<1> HIDE DEF more
<1>2. PICK i \in Hits(names, name) :
        Lookup(names, name) = i - 1 /\ \A j \in Hits(names, name) : i <= j
  BY <1>1, LookupFindsFirst
<1>3. i \in Hits(more, name)
  BY <1>1 DEF Hits
<1>4. \A j \in Hits(more, name) : i <= j
  <2> SUFFICES ASSUME NEW j \in Hits(more, name) PROVE i <= j
    OBVIOUS
  <2>1. j \in 1 .. Len(names) + 1 /\ i \in 1 .. Len(names)
    BY <1>1 DEF Hits
  <2>2. j \in 1 .. Len(names) => j \in Hits(names, name)
    BY <1>1 DEF Hits
  <2>3. QED
    BY <1>1, <1>2, <2>1, <2>2
<1>5. Lookup(more, name) = i - 1
  BY <1>1, <1>3, <1>4, LookupFindsFirst
<1>6. QED
  BY <1>2, <1>5 DEF more

\* What a lookup of a group reads: the table, unused entries, and what is behind them.
LEMMA ReadAsOne ==
  ASSUME NEW names \in Seq(UserNames), Len(names) <= MaxGroups, NEW behind \in Behind
  PROVE  LET read == Padded(names, MaxGroups) \o behind IN
         /\ DOMAIN read = 1 .. MaxUsers
         /\ \A i \in 1 .. Len(names) : read[i] = names[i]
         /\ \A i \in Len(names) + 1 .. MaxGroups : read[i] = NoName
         /\ \A i \in MaxGroups + 1 .. MaxUsers : read[i] = behind[i - MaxGroups]
<1> USE SizesAreNumbers
<1> DEFINE S == UserNames \cup {NoName}
           table == Padded(names, MaxGroups)
<1>1. Len(names) \in Nat /\ DOMAIN names = 1 .. Len(names) /\ \A i \in 1 .. Len(names) : names[i] \in S
  OBVIOUS
<1>2. \A i \in 1 .. MaxGroups : table[i] = IF i \in 1 .. Len(names) THEN names[i] ELSE NoName
  BY <1>1 DEF Padded
<1>3. table \in [1 .. MaxGroups -> S]
  BY <1>1 DEF Padded
<1>4. table \in Seq(S) /\ Len(table) = MaxGroups
  BY <1>3
<1>5. behind \in Seq(S) /\ Len(behind) = MaxUsers - MaxGroups
  <2>1. behind \in [1 .. MaxUsers - MaxGroups -> S] /\ MaxUsers - MaxGroups \in Nat
    BY DEF Behind
  <2>2. QED
    BY <2>1
<1> HIDE DEF table, S
<1>6. /\ table \o behind \in Seq(S) /\ Len(table \o behind) = MaxUsers
      /\ \A i \in 1 .. MaxUsers :
           (table \o behind)[i] = IF i <= MaxGroups THEN table[i] ELSE behind[i - MaxGroups]
  <2>1. /\ table \o behind \in Seq(S) /\ Len(table \o behind) = Len(table) + Len(behind)
        /\ \A i \in 1 .. Len(table) + Len(behind) :
             (table \o behind)[i] = IF i <= Len(table) THEN table[i] ELSE behind[i - Len(table)]
    BY <1>4, <1>5, ConcatProperties
  <2>2. Len(table) + Len(behind) = MaxUsers /\ Len(table) = MaxGroups
    BY <1>4, <1>5
  <2>3. QED
    BY <2>1, <2>2
<1>7. DOMAIN (table \o behind) = 1 .. MaxUsers
  BY <1>6
<1> DEFINE read == table \o behind
<1> HIDE DEF read
<1>8. \A i \in 1 .. MaxGroups : i \in 1 .. MaxUsers /\ read[i] = table[i]
  BY <1>6 DEF read
<1>9. \A i \in 1 .. Len(names) : read[i] = names[i]
  <2>1. \A i \in 1 .. Len(names) : i \in 1 .. MaxGroups
    BY <1>1
  <2>2. QED
    BY <1>2, <1>8, <2>1, Zenon
<1>10. \A i \in Len(names) + 1 .. MaxGroups : read[i] = NoName
  <2>1. \A i \in Len(names) + 1 .. MaxGroups : i \in 1 .. MaxGroups /\ i \notin 1 .. Len(names)
    BY <1>1
  <2>2. QED
    BY <1>2, <1>8, <2>1, Zenon
<1>11. \A i \in MaxGroups + 1 .. MaxUsers : read[i] = behind[i - MaxGroups]
  <2>1. \A i \in MaxGroups + 1 .. MaxUsers : i \in 1 .. MaxUsers /\ ~(i <= MaxGroups)
    OBVIOUS
  <2>2. QED
    BY <1>6, <2>1, Zenon DEF read
<1>12. QED
  BY <1>7, <1>9, <1>10, <1>11, Zenon DEF table, read

\* A group that is in the table is found there, not behind it.
LEMMA FoundInTable ==
  ASSUME NEW names \in Seq(UserNames), Len(names) <= MaxGroups, NEW behind \in Behind, NEW name,
         Lookup(names, name) # NotFound
  PROVE  KeGetUserGroupByName(names, behind, name) < MaxGroups
<1> USE SizesAreNumbers
<1> DEFINE read == Padded(names, MaxGroups) \o behind
<1>1. /\ DOMAIN read = 1 .. MaxUsers /\ DOMAIN read \subseteq Nat \ {0}
      /\ \A i \in 1 .. Len(names) : read[i] = names[i]
  BY ReadAsOne
<1>2. DOMAIN names = 1 .. Len(names) /\ DOMAIN names \subseteq Nat \ {0} /\ Len(names) \in Nat
  OBVIOUS
<1> HIDE DEF read
<1>3. PICK i : i \in Hits(names, name)
  BY <1>2, LookupFindsFirst
<1>4. i \in 1 .. Len(names) /\ i \in 1 .. MaxUsers /\ i <= MaxGroups /\ i \in Hits(read, name)
  BY <1>1, <1>2, <1>3 DEF Hits
<1>5. PICK k \in Hits(read, name) :
        Lookup(read, name) = k - 1 /\ \A j \in Hits(read, name) : k <= j
  BY <1>1, <1>4, LookupFindsFirst
<1>6. k <= i /\ k \in 1 .. MaxUsers
  BY <1>1, <1>4, <1>5 DEF Hits
<1>7. QED
  BY <1>4, <1>5, <1>6 DEF KeGetUserGroupByName, read

\* A new group takes the place of no other, only of what was read behind the table.
LEMMA GroupKeepsNumber ==
  ASSUME NEW names \in Seq(UserNames), NEW new \in UserNames, Len(names) < MaxGroups,
         NEW behind \in Behind, NEW name
  PROVE  LET more   == Append(names, new)
             group  == KeGetUserGroupByName(names, behind, name)
             group2 == KeGetUserGroupByName(more, behind, name)
         IN /\ group # NotFound =>
                 group2 = group \/ (group >= MaxGroups /\ group2 = Len(names))
            /\ Lookup(more, name) # NotFound => group2 < MaxGroups
<1> USE SizesAreNumbers
<1> DEFINE more  == Append(names, new)
           read  == Padded(names, MaxGroups) \o behind
           read2 == Padded(more, MaxGroups) \o behind
<1>1. /\ more \in Seq(UserNames) /\ Len(more) = Len(names) + 1 /\ Len(names) \in Nat
      /\ DOMAIN more = 1 .. Len(names) + 1
      /\ \A i \in 1 .. Len(names) : more[i] = names[i]
      /\ \A i \in 1 .. Len(names) + 1 : more[i] \in UserNames
  OBVIOUS
<1> HIDE DEF more
<1>2. /\ DOMAIN read = 1 .. MaxUsers
      /\ \A i \in 1 .. Len(names) : read[i] = names[i]
      /\ \A i \in Len(names) + 1 .. MaxGroups : read[i] = NoName
      /\ \A i \in MaxGroups + 1 .. MaxUsers : read[i] = behind[i - MaxGroups]
  <2>1. Len(names) <= MaxGroups
    BY <1>1
  <2>2. QED
    BY <2>1, ReadAsOne
<1>3. /\ DOMAIN read2 = 1 .. MaxUsers
      /\ \A i \in 1 .. Len(names) + 1 : read2[i] = more[i]
      /\ \A i \in Len(names) + 2 .. MaxGroups : read2[i] = NoName
      /\ \A i \in MaxGroups + 1 .. MaxUsers : read2[i] = behind[i - MaxGroups]
  <2>1. Len(more) <= MaxGroups
    BY <1>1
  <2>2. /\ DOMAIN read2 = 1 .. MaxUsers
        /\ \A i \in 1 .. Len(more) : read2[i] = more[i]
        /\ \A i \in Len(more) + 1 .. MaxGroups : read2[i] = NoName
        /\ \A i \in MaxGroups + 1 .. MaxUsers : read2[i] = behind[i - MaxGroups]
    BY <1>1, <2>1, ReadAsOne
  <2>3. QED
    BY <1>1, <2>2
<1> HIDE DEF read, read2
<1>4. \A i \in 1 .. MaxUsers : i # Len(names) + 1 => read2[i] = read[i]
  <2> SUFFICES ASSUME NEW i \in 1 .. MaxUsers, i # Len(names) + 1 PROVE read2[i] = read[i]
    OBVIOUS
  <2>1. \/ i \in 1 .. Len(names) \/ i \in Len(names) + 2 .. MaxGroups
        \/ i \in MaxGroups + 1 .. MaxUsers
    BY <1>1
  <2>2. CASE i \in 1 .. Len(names)
    BY <1>1, <1>2, <1>3, <2>2
  <2>3. CASE i \in Len(names) + 2 .. MaxGroups
    BY <1>1, <1>2, <1>3, <2>3
  <2>4. CASE i \in MaxGroups + 1 .. MaxUsers
    BY <1>2, <1>3, <2>4
  <2>5. QED
    BY <2>1, <2>2, <2>3, <2>4
<1>5. \A i \in 1 .. MaxUsers : i # Len(names) + 1 =>
        (i \in Hits(read, name) <=> i \in Hits(read2, name))
  BY <1>2, <1>3, <1>4 DEF Hits
<1>6. Len(names) + 1 \notin Hits(read, name)
  <2>1. Len(names) + 1 \in Len(names) + 1 .. MaxGroups
    BY <1>1
  <2>2. read[Len(names) + 1] = NoName
    BY <1>2, <2>1
  <2>3. QED
    BY <2>2 DEF Hits
<1>7. Hits(read, name) \subseteq 1 .. MaxUsers /\ Hits(read2, name) \subseteq 1 .. MaxUsers
  BY <1>2, <1>3 DEF Hits
<1> DOMAIN read \subseteq Nat \ {0} /\ DOMAIN read2 \subseteq Nat \ {0}
  BY <1>2, <1>3
<1>8. ASSUME Lookup(read, name) # NotFound
      PROVE  \/ Lookup(read2, name) = Lookup(read, name)
             \/ Lookup(read, name) >= MaxGroups /\ Lookup(read2, name) = Len(names)
  <2>1. PICK i \in Hits(read, name) :
          Lookup(read, name) = i - 1 /\ \A j \in Hits(read, name) : i <= j
    BY <1>2, <1>8, LookupFindsFirst
  <2>2. i \in 1 .. MaxUsers /\ i # Len(names) + 1 /\ i \in Hits(read2, name)
    BY <1>5, <1>6, <1>7
  <2>3. CASE \A j \in Hits(read2, name) : i <= j
    <3>1. Lookup(read2, name) = i - 1
      BY <1>3, <2>2, <2>3, LookupFindsFirst
    <3>2. QED
      BY <2>1, <3>1
  <2>4. CASE \E j \in Hits(read2, name) : ~(i <= j)
    <3>1. \A j \in Hits(read2, name) : j = Len(names) + 1 \/ i <= j
      BY <1>5, <1>7, <2>1
    <3>2. Len(names) + 1 \in Hits(read2, name) /\ Len(names) + 1 < i
      BY <1>1, <1>7, <2>2, <2>4, <3>1
    <3>3. \A j \in Hits(read2, name) : Len(names) + 1 <= j
      BY <1>1, <1>7, <2>2, <3>1, <3>2
    <3>4. Lookup(read2, name) = Len(names) + 1 - 1
      BY <1>3, <3>2, <3>3, LookupFindsFirst
    <3>5. i > MaxGroups
      BY <1>1, <1>2, <2>2, <3>2 DEF Hits
    <3>6. QED
      BY <1>1, <2>1, <2>2, <3>4, <3>5
  <2>5. QED
    BY <2>3, <2>4
<1>9. Lookup(more, name) # NotFound => Lookup(read2, name) < MaxGroups
  <2>1. Len(more) <= MaxGroups
    BY <1>1
  <2>2. QED
    BY <1>1, <2>1, FoundInTable DEF KeGetUserGroupByName, read2
<1>10. QED
  BY <1>8, <1>9 DEF KeGetUserGroupByName, read, read2, more

\* Accounts and groups keep the numbers they were found with, whatever is created later;
\* a group found behind the table gives way to a real one (user.c:48).
THEOREM NumbersStay == UsersSpec => NumbersKeepTheirNames
<1> DEFINE Keeps ==
      \A name \in UserNames, behind \in Behind :
        LET account == KeGetAccountByName(accounts, name)
            group   == KeGetUserGroupByName(userGroups, behind, name)
            group2  == KeGetUserGroupByName(userGroups', behind, name)
        IN /\ account # NotFound => KeGetAccountByName(accounts', name) = account
           /\ group # NotFound =>
                group2 = group \/ (group >= MaxGroups /\ group2 = Len(userGroups))
           /\ Lookup(userGroups', name) # NotFound => group2 < MaxGroups
<1>1. ASSUME TablesFit, UsersNext, <<accounts, userGroups>>' # <<accounts, userGroups>>
      PROVE  Keeps
  <2> SUFFICES ASSUME NEW name \in UserNames, NEW behind \in Behind
               PROVE  LET account == KeGetAccountByName(accounts, name)
                          group   == KeGetUserGroupByName(userGroups, behind, name)
                          group2  == KeGetUserGroupByName(userGroups', behind, name)
                      IN /\ account # NotFound => KeGetAccountByName(accounts', name) = account
                         /\ group # NotFound =>
                              group2 = group \/ (group >= MaxGroups /\ group2 = Len(userGroups))
                         /\ Lookup(userGroups', name) # NotFound => group2 < MaxGroups
    OBVIOUS
  <2>1. CASE \E new \in UserNames : KeCreateAccount(new)
    <3>1. PICK new \in UserNames : accounts' = Append(accounts, new) /\ UNCHANGED userGroups
      BY <1>1, <2>1 DEF KeCreateAccount
    <3>2. Lookup(accounts, name) # NotFound => Lookup(accounts', name) = Lookup(accounts, name)
      BY <1>1, <3>1, AccountKeepsNumber DEF TablesFit
    <3>3. Lookup(userGroups, name) # NotFound =>
            KeGetUserGroupByName(userGroups, behind, name) < MaxGroups
      BY <1>1, FoundInTable DEF TablesFit
    <3>4. QED
      BY <3>1, <3>2, <3>3 DEF KeGetAccountByName
  <2>2. CASE \E new \in UserNames : KeCreateUserGroup(new)
    <3>1. PICK new \in UserNames : /\ userGroups' = Append(userGroups, new) /\ UNCHANGED accounts
                                   /\ Len(userGroups) < MaxGroups
      BY <1>1, <2>2 DEF KeCreateUserGroup
    <3>2. /\ KeGetUserGroupByName(userGroups, behind, name) # NotFound =>
               \/ KeGetUserGroupByName(userGroups', behind, name)
                    = KeGetUserGroupByName(userGroups, behind, name)
               \/ /\ KeGetUserGroupByName(userGroups, behind, name) >= MaxGroups
                  /\ KeGetUserGroupByName(userGroups', behind, name) = Len(userGroups)
          /\ Lookup(userGroups', name) # NotFound =>
               KeGetUserGroupByName(userGroups', behind, name) < MaxGroups
      BY <1>1, <3>1, GroupKeepsNumber DEF TablesFit
    <3>3. QED
      BY <3>1, <3>2
  <2>3. CASE \E uid \in 0 .. MaxUsers - 1 : KeSetCurrentAccount(uid)
    BY <1>1, <2>3 DEF KeSetCurrentAccount
  <2>4. CASE UsersOutOfMemory
    BY <1>1, <2>4 DEF UsersOutOfMemory
  <2>5. QED
    BY <1>1, <2>1, <2>2, <2>3, <2>4 DEF UsersNext
<1>2. QED
  BY <1>1, TablesAlwaysFit, PTL DEF UsersSpec, NumbersKeepTheirNames

----------------------------------------------------------------------------
(* Comparing names *)

Diffs(s, t, n, u) == u = [i \in 0 .. n |-> IF i = 0 THEN 0 ELSE u[i - 1] + s[i] - t[i]]
DiffsOf(s, t, n) == CHOOSE u : Diffs(s, t, n, u)

SumsUp(s, t, n, u) ==
  /\ SumOfDifferences(s, t, n) = u[n]
  /\ u[0] = 0 /\ \A i \in 0 .. n : u[i] \in Int
  /\ \A i \in 1 .. n : u[i] = u[i - 1] + s[i] - t[i]

\* The sum that KeCompareString returns is made one character at a time (memory.c:86).
LEMMA SumSteps ==
  ASSUME NEW s \in Seq(Nat), NEW t \in Seq(Nat), NEW n \in Nat, n <= Len(s), n <= Len(t)
  PROVE  SumsUp(s, t, n, DiffsOf(s, t, n))
<1> DEFINE Step == [i \in 1 .. n |-> [d \in Int |-> d + s[i] - t[i]]]
           u == DiffsOf(s, t, n)
<1>1. \A i \in 1 .. n : s[i] \in Nat /\ t[i] \in Nat
  <2>1. \A i \in 1 .. n : i \in 1 .. Len(s) /\ i \in 1 .. Len(t)
    OBVIOUS
  <2>2. (\A i \in 1 .. Len(s) : s[i] \in Nat) /\ \A i \in 1 .. Len(t) : t[i] \in Nat
    BY ElementOfSeq, Zenon
  <2>3. QED
    BY <2>1, <2>2, Zenon
<1>2. Step \in [1 .. n -> [Int -> Int]] /\ \A i \in 1 .. n : \A d \in Int : Step[i][d] = d + s[i] - t[i]
  <2>1. ASSUME NEW i \in 1 .. n, NEW d \in Int PROVE d + s[i] - t[i] \in Int
    <3>1. s[i] \in Nat /\ t[i] \in Nat
      BY <1>1, Zenon
    <3>2. \A a \in Int : \A b, c \in Nat : a + b - c \in Int
      OBVIOUS
    <3>3. QED
      BY <3>1, <3>2, Zenon
  <2>2. \A i \in 1 .. n : [d \in Int |-> d + s[i] - t[i]] \in [Int -> Int]
    BY <2>1, Zenon
  <2>3. Step \in [1 .. n -> [Int -> Int]]
    BY <2>2, Zenon
  <2>4. QED
    BY <2>3
<1> HIDE DEF Step
<1>3. PICK z \in Int : z = 0
  OBVIOUS
<1>4. PICK v : v \in [0 .. n -> Int] /\ v[0] = 0 /\ \A i \in 1 .. n : v[i] = Step[i][v[i - 1]]
  <2>1. \E v : IsLoop(v, Int, z, n, Step)
    BY <1>2, LoopExists
  <2>2. QED
    BY <1>3, <2>1 DEF IsLoop
<1>5. Diffs(s, t, n, v)
  <2>1. \A i \in 1 .. n : v[i - 1] \in Int
    <3>1. TAKE i \in 1 .. n
    <3>2. i - 1 \in 0 .. n
      OBVIOUS
    <3>3. QED
      BY <1>4, <3>2
  <2>2. \A i \in 1 .. n : v[i] = v[i - 1] + s[i] - t[i]
    BY <1>2, <1>4, <2>1
  <2>3. \A i \in 0 .. n : v[i] = IF i = 0 THEN 0 ELSE v[i - 1] + s[i] - t[i]
    BY <1>4, <2>2
  <2>4. v = [i \in 0 .. n |-> v[i]]
    BY <1>4
  <2>5. [i \in 0 .. n |-> v[i]] = [i \in 0 .. n |-> IF i = 0 THEN 0 ELSE v[i - 1] + s[i] - t[i]]
    BY <2>3
  <2>6. QED
    BY <2>4, <2>5, Zenon DEF Diffs
<1>6. Diffs(s, t, n, u)
  BY <1>5 DEF DiffsOf
<1>7. SumOfDifferences(s, t, n) = u[n]
  BY DEF SumOfDifferences, DiffsOf, Diffs
<1> HIDE DEF u
<1>8. \A i \in 0 .. n : u[i] = IF i = 0 THEN 0 ELSE u[i - 1] + s[i] - t[i]
  BY <1>6 DEF Diffs
<1>9. u[0] = 0 /\ \A i \in 1 .. n : u[i] = u[i - 1] + s[i] - t[i]
  <2>1. 0 \in 0 .. n /\ \A i \in 1 .. n : i \in 0 .. n /\ i # 0
    OBVIOUS
  <2>2. QED
    BY <1>8, <2>1
<1>10. \A i \in 0 .. n : u[i] \in Int
  <2> DEFINE P == {i \in 0 .. n : u[i] \in Int}
  <2>1. 0 \in P
    BY <1>9
  <2>2. ASSUME NEW i \in 1 .. n, i - 1 \in P PROVE i \in P
    <3>1. u[i - 1] \in Int /\ s[i] \in Nat /\ t[i] \in Nat /\ i \in 0 .. n
      BY <1>1, <2>2
    <3>2. u[i] = u[i - 1] + s[i] - t[i]
      BY <1>9
    <3>3. u[i] \in Int
      <4>1. \A a \in Int : \A b, c \in Nat : a + b - c \in Int
        OBVIOUS
      <4>2. QED
        BY <3>1, <3>2, <4>1, Zenon
    <3>4. QED
      BY <3>1, <3>3
  <2> HIDE DEF P
  <2>3. \A i \in 0 .. n : i \in P
    BY <2>1, <2>2, UpTo
  <2>4. QED
    BY <2>3 DEF P
<1>11. QED
  BY <1>7, <1>9, <1>10 DEF u, SumsUp

\* Strings of names: no character is the NUL.
Strings == Seq(Nat \ {NUL})

\* Two strings compare equal when they have one length and the sum of their differences is 0.
LEMMA EqualMeans ==
  ASSUME NEW s \in Strings, NEW t \in Strings, KeCompareString(s, t) = 0
  PROVE  Len(s) = Len(t) /\ SumOfDifferences(s, t, Len(s)) = 0
<1>1. /\ Len(s) \in Nat /\ DOMAIN s = 1 .. Len(s) /\ \A i \in 1 .. Len(s) : s[i] # NUL
      /\ Len(t) \in Nat /\ DOMAIN t = 1 .. Len(t) /\ \A i \in 1 .. Len(t) : t[i] # NUL
  BY DEF Strings
<1>2. \A i \in Nat \ {0} : /\ At(s, i) = NUL <=> i > Len(s)
                           /\ At(t, i) = NUL <=> i > Len(t)
  BY <1>1 DEF At
<1> DEFINE k == Least(Len(s), Least(Len(s), Len(t)))
<1>3. k \in Nat /\ k <= Len(s) /\ k <= Len(t) /\ (k = Len(s) \/ k = Len(t))
  <2>1. PICK m \in Nat, j \in Nat : m = Len(s) /\ j = Len(t)
    BY <1>1
  <2>2. /\ Least(m, Least(m, j)) \in Nat
        /\ Least(m, Least(m, j)) = m \/ Least(m, Least(m, j)) = j
        /\ Least(m, Least(m, j)) <= m /\ Least(m, Least(m, j)) <= j
    BY DEF Least
  <2>3. QED
    BY <2>1, <2>2
<1>4. k < Len(s) + 1
  BY <1>1, <1>3
<1>5. KeCompareString(s, t) = IF At(s, k + 1) # At(t, k + 1) THEN -1 ELSE SumOfDifferences(s, t, k)
  BY <1>4 DEF KeCompareString, Compared
<1> HIDE DEF k
<1>6. At(s, k + 1) = At(t, k + 1) /\ SumOfDifferences(s, t, k) = 0
  BY <1>5
<1>7. k + 1 \in Nat \ {0} /\ (k + 1 > Len(s) <=> k + 1 > Len(t))
  <2>1. k + 1 \in Nat \ {0}
    BY <1>3
  <2>2. (At(s, k + 1) = NUL <=> k + 1 > Len(s)) /\ (At(t, k + 1) = NUL <=> k + 1 > Len(t))
    BY <1>2, <2>1
  <2>3. QED
    BY <1>6, <2>1, <2>2
<1>8. k = Len(s) /\ k = Len(t)
  <2>1. Len(s) \in Nat /\ Len(t) \in Nat
    BY <1>1
  <2>2. k + 1 > Len(s) /\ k + 1 > Len(t)
    BY <1>3, <1>7, <2>1
  <2>3. QED
    BY <1>3, <2>1, <2>2
<1>9. QED
  BY <1>6, <1>8

\* And the other way.
LEMMA MeansEqual ==
  ASSUME NEW s \in Strings, NEW t \in Strings,
         Len(s) = Len(t), SumOfDifferences(s, t, Len(s)) = 0
  PROVE  KeCompareString(s, t) = 0
<1>1. Len(s) \in Nat /\ DOMAIN s = 1 .. Len(s) /\ DOMAIN t = 1 .. Len(s)
  BY DEF Strings
<1>2. At(s, Len(s) + 1) = NUL /\ At(t, Len(s) + 1) = NUL
  BY <1>1 DEF At
<1>3. Least(Len(s), Least(Len(s), Len(t))) = Len(s)
  BY DEF Least
<1>4. QED
  BY <1>2, <1>3 DEF KeCompareString, Compared

\* Names that compare equal to a third compare equal, although anagrams do, too
\* (memory.c:81-95).
LEMMA EqualToTheSame ==
  ASSUME NEW s \in Strings, NEW t \in Strings, NEW w \in Strings,
         KeCompareString(s, w) = 0, KeCompareString(t, w) = 0
  PROVE  KeCompareString(s, t) = 0
<1>1. s \in Seq(Nat) /\ t \in Seq(Nat) /\ w \in Seq(Nat) /\ Len(s) \in Nat
  BY DEF Strings
<1>2. /\ Len(s) = Len(w) /\ SumOfDifferences(s, w, Len(s)) = 0
      /\ Len(t) = Len(s) /\ SumOfDifferences(t, w, Len(s)) = 0
  BY EqualMeans
<1> DEFINE n == Len(s)
           a == DiffsOf(s, w, n)
           b == DiffsOf(t, w, n)
           c == DiffsOf(s, t, n)
           P == {i \in 0 .. n : c[i] = a[i] - b[i]}
<1>0. n \in Nat /\ n <= Len(s) /\ n <= Len(t) /\ n <= Len(w)
  BY <1>1, <1>2
<1>3. /\ SumOfDifferences(s, w, n) = a[n] /\ a[0] = 0 /\ \A i \in 0 .. n : a[i] \in Int
      /\ \A i \in 1 .. n : a[i] = a[i - 1] + s[i] - w[i]
  <2>1. SumsUp(s, w, n, a)
    BY <1>0, <1>1, SumSteps
  <2>2. QED
    BY <2>1 DEF SumsUp
<1>4. /\ SumOfDifferences(t, w, n) = b[n] /\ b[0] = 0 /\ \A i \in 0 .. n : b[i] \in Int
      /\ \A i \in 1 .. n : b[i] = b[i - 1] + t[i] - w[i]
  <2>1. SumsUp(t, w, n, b)
    BY <1>0, <1>1, SumSteps
  <2>2. QED
    BY <2>1 DEF SumsUp
<1>5. /\ SumOfDifferences(s, t, n) = c[n] /\ c[0] = 0 /\ \A i \in 0 .. n : c[i] \in Int
      /\ \A i \in 1 .. n : c[i] = c[i - 1] + s[i] - t[i]
  <2>1. SumsUp(s, t, n, c)
    BY <1>0, <1>1, SumSteps
  <2>2. QED
    BY <2>1 DEF SumsUp
<1>6. n \in Nat /\ \A i \in 1 .. n : s[i] \in Nat /\ t[i] \in Nat /\ w[i] \in Nat
  BY <1>1, <1>2, ElementOfSeq
<1> HIDE DEF a, b, c, n
<1>7. 0 \in P
  BY <1>3, <1>4, <1>5, <1>6
<1>8. \A i \in 1 .. n : i - 1 \in P => i \in P
  <2> SUFFICES ASSUME NEW i \in 1 .. n, i - 1 \in P PROVE i \in P
    OBVIOUS
  <2>1. i - 1 \in 0 .. n /\ i \in 0 .. n
    BY <1>6
  <2>2. a[i - 1] \in Int /\ b[i - 1] \in Int /\ c[i - 1] = a[i - 1] - b[i - 1]
    BY <1>3, <1>4, <2>1
  <2>3. /\ a[i] = a[i - 1] + s[i] - w[i] /\ b[i] = b[i - 1] + t[i] - w[i]
        /\ c[i] = c[i - 1] + s[i] - t[i]
    BY <1>3, <1>4, <1>5
  <2>4. c[i] = a[i] - b[i]
    BY <1>6, <2>2, <2>3
  <2>5. QED
    BY <2>1, <2>4
<1>9. \A i \in 0 .. n : i \in P
  <2> HIDE DEF P
  <2>1. QED
    BY <1>6, <1>7, <1>8, UpTo
<1>10. n \in P
  BY <1>6, <1>9
<1>11. SumOfDifferences(s, t, n) = 0
  BY <1>2, <1>3, <1>4, <1>5, <1>10 DEF n
<1>12. QED
  BY <1>2, <1>11, MeansEqual DEF n

----------------------------------------------------------------------------
(* Members of a registry *)

\* What groups and keys are made of.
Made == [parent : Nat, name : Names]
Registries == [groups : Seq(Made), keys : Seq(Made)]

\* The members of a group that a lookup of name stops at.
Same(members, g, name) ==
  {i \in MembersOf(members, g) : KeCompareString(members[i].name, name) = 0}

\* A lookup finds the first member that compares equal, or none.
LEMMA FindsFirst ==
  ASSUME NEW members \in Seq(Made), NEW g, NEW name
  PROVE  /\ FindMember(members, g, name) \in Nat
         /\ (FindMember(members, g, name) = 0) <=> (Same(members, g, name) = {})
         /\ Same(members, g, name) # {} =>
              /\ FindMember(members, g, name) \in Same(members, g, name)
              /\ \A j \in Same(members, g, name) : FindMember(members, g, name) <= j
<1> DEFINE hits == Same(members, g, name)
<1>1. FindMember(members, g, name) = IF hits = {} THEN 0 ELSE Min(hits)
  BY DEF FindMember, Same
<1>2. DOMAIN members \subseteq Nat \ {0}
  OBVIOUS
<1>3. hits \in SUBSET Nat /\ \A i \in hits : i # 0
  BY <1>2 DEF Same, MembersOf
<1> HIDE DEF hits
<1>4. hits # {} => Min(hits) \in hits /\ Min(hits) \in Nat /\ \A j \in hits : Min(hits) <= j
  BY <1>3, MinIsLeast
<1>5. QED
  BY <1>1, <1>3, <1>4 DEF hits

\* A new member is behind all others: it is found only where nothing was found before.
LEMMA FindsTheSame ==
  ASSUME NEW members \in Seq(Made), NEW new \in Made, NEW g, NEW name
  PROVE  LET more == Append(members, new) IN
         \/ FindMember(more, g, name) = FindMember(members, g, name)
         \/ /\ FindMember(members, g, name) = 0 /\ FindMember(more, g, name) # 0
            /\ new.parent = g /\ KeCompareString(new.name, name) = 0
<1> DEFINE more == Append(members, new)
           n == Len(members)
<1>1. /\ n \in Nat /\ DOMAIN members = 1 .. n /\ DOMAIN more = 1 .. n + 1
      /\ more[n + 1] = new /\ \A i \in 1 .. n : more[i] = members[i]
      /\ more \in Seq(Made)
  OBVIOUS
<1> HIDE DEF more, n
<1>2. \A i \in 1 .. n : i \in Same(members, g, name) <=> i \in Same(more, g, name)
  BY <1>1 DEF Same, MembersOf
<1>3. Same(members, g, name) \subseteq 1 .. n /\ Same(more, g, name) \subseteq 1 .. n + 1
  BY <1>1 DEF Same, MembersOf
<1>4. CASE Same(members, g, name) = {}
  <2>1. FindMember(members, g, name) = 0
    BY <1>4, FindsFirst
  <2>2. CASE Same(more, g, name) = {}
    BY <1>1, <2>1, <2>2, FindsFirst DEF more
  <2>3. CASE Same(more, g, name) # {}
    <3>1. n + 1 \in Same(more, g, name)
      BY <1>1, <1>2, <1>3, <1>4, <2>3
    <3>2. new.parent = g /\ KeCompareString(new.name, name) = 0
      BY <1>1, <3>1 DEF Same, MembersOf
    <3>3. FindMember(more, g, name) # 0
      BY <1>1, <2>3, FindsFirst
    <3>4. QED
      BY <2>1, <3>2, <3>3 DEF more
  <2>4. QED
    BY <2>2, <2>3
<1>5. CASE Same(members, g, name) # {}
  <2>1. PICK k \in Nat : k = FindMember(members, g, name)
    BY FindsFirst
  <2>2. k \in Same(members, g, name) /\ \A j \in Same(members, g, name) : k <= j
    BY <1>5, <2>1, FindsFirst
  <2>3. k \in 1 .. n /\ k \in Same(more, g, name)
    BY <1>2, <1>3, <2>2
  <2>4. \A j \in Same(more, g, name) : k <= j
    BY <1>1, <1>2, <1>3, <2>2, <2>3
  <2>5. PICK j \in Nat : j = FindMember(more, g, name)
    BY <1>1, FindsFirst
  <2>6. j \in Same(more, g, name) /\ j <= k
    BY <1>1, <2>3, <2>5, FindsFirst
  <2>7. j = k
    BY <2>4, <2>6
  <2>8. QED
    BY <2>1, <2>5, <2>7 DEF more
<1>6. QED
  BY <1>4, <1>5

----------------------------------------------------------------------------
(* One component of a path *)

\* Where the search for the end of a component stops (memory.c:160).
LEMMA BreakStops ==
  ASSUME NEW m \in Seq(Nat), NEW i \in Nat \ {0}, i <= Len(m) + 1, NEW accept
  PROVE  LET next == KeBreakCharPtrString(m, i, accept) IN
         /\ next \in Nat /\ i <= next /\ next <= Len(m) + 1
         /\ \A j \in i .. next - 1 : At(m, j) # NUL
<1> DEFINE stops == {j \in i .. Len(m) + 1 : At(m, j) \in accept \cup {NUL}}
<1>1. Len(m) \in Nat /\ DOMAIN m = 1 .. Len(m)
  OBVIOUS
<1>2. Len(m) + 1 \in i .. Len(m) + 1 /\ At(m, Len(m) + 1) = NUL
  BY <1>1 DEF At
<1>3. Len(m) + 1 \in stops
  BY <1>2
<1>4. stops \in SUBSET Nat /\ \A j \in stops : i <= j /\ j <= Len(m) + 1
  BY <1>1
<1>5. \A j \in i .. Len(m) + 1 : At(m, j) = NUL => j \in stops
  OBVIOUS
<1>6. KeBreakCharPtrString(m, i, accept) = Min(stops)
  BY DEF KeBreakCharPtrString
<1> HIDE DEF stops
<1>7. Min(stops) \in stops /\ Min(stops) \in Nat /\ \A j \in stops : Min(stops) <= j
  BY <1>3, <1>4, MinIsLeast
<1>8. Min(stops) <= Len(m) + 1
  BY <1>3, <1>7
<1>9. ASSUME NEW j \in i .. Min(stops) - 1, At(m, j) = NUL PROVE FALSE
  <2>1. j \in i .. Len(m) + 1
    BY <1>1, <1>7, <1>8
  <2>2. Min(stops) <= j /\ j <= Min(stops) - 1 /\ j \in Nat
    BY <1>5, <1>7, <1>9, <2>1
  <2>3. QED
    BY <1>7, <2>2
<1>10. QED
  BY <1>4, <1>6, <1>7, <1>8, <1>9

\* What is compared is a string, whatever memory holds.
LEMMA UpToNULIsString ==
  ASSUME NEW m \in Seq(Nat)
  PROVE  UpToNUL(m) \in Strings
<1>0. PICK one \in Nat \ {0} : one = 1
  OBVIOUS
<1> DEFINE next == KeBreakCharPtrString(m, one, {})
<1>1. Len(m) \in Nat /\ DOMAIN m = 1 .. Len(m) /\ \A j \in 1 .. Len(m) : m[j] \in Nat
  BY ElementOfSeq
<1>2. one <= Len(m) + 1
  BY <1>0, <1>1
<1>3. /\ next \in Nat /\ one <= next /\ next <= Len(m) + 1
      /\ \A j \in one .. next - 1 : At(m, j) # NUL
  BY <1>2, BreakStops
<1>4. UpToNUL(m) = SubSeq(m, 1, next - 1)
  BY <1>0 DEF UpToNUL
<1> HIDE DEF next
<1>5. \A j \in 1 .. next - 1 : m[j] \in Nat \ {NUL}
  <2> SUFFICES ASSUME NEW j \in 1 .. next - 1 PROVE m[j] \in Nat \ {NUL}
    OBVIOUS
  <2>1. j \in one .. next - 1 /\ j \in 1 .. Len(m)
    BY <1>0, <1>1, <1>3
  <2>2. At(m, j) = m[j] /\ At(m, j) # NUL /\ m[j] \in Nat
    BY <1>1, <1>3, <2>1 DEF At
  <2>3. QED
    BY <2>2
<1>6. SubSeq(m, 1, next - 1) \in Seq(Nat \ {NUL})
  <2>1. next - 1 \in Int
    BY <1>3
  <2>2. PICK i \in Int : i = 1
    OBVIOUS
  <2>3. \A j \in i .. next - 1 : m[j] \in Nat \ {NUL}
    BY <1>5, <2>2
  <2>4. SubSeq(m, i, next - 1) \in Seq(Nat \ {NUL})
    BY <2>1, <2>3, SubSeqProperties
  <2>5. QED
    BY <2>2, <2>4
<1>7. QED
  BY <1>4, <1>6 DEF Strings

\* How far a path has been followed.
Walks == [group : Nat, key : Nat, pos : Nat \ {0}, end : {"none", "NULL", "panic", "key"}]

NextAt(m, x) == KeBreakCharPtrString(m, x.pos, Separators)
NameAt(m, tail, x) == UpToNUL(SubSeq(m, x.pos, NextAt(m, x) - 1) \o tail)
GroupAt(reg, m, tail, x) == FindMember(reg.groups, x.group, NameAt(m, tail, x))
KeyAt(reg, m, tail, x) == FindMember(reg.keys, x.group, NameAt(m, tail, x))

\* The branches of the walk (registry.c:85-127).
Branches(reg, m, tail, x, c) ==
  LET ended == At(m, x.pos) = NUL
      wrong == NextAt(m, x) = x.pos \/ Len(NameAt(m, tail, x)) >= MaxName
      group == GroupAt(reg, m, tail, x)
      key   == KeyAt(reg, m, tail, x)
  IN /\ ended => c = [x EXCEPT !.end = "NULL"]
     /\ ~ended /\ wrong => c = [x EXCEPT !.end = "panic"]
     /\ ~ended /\ ~wrong /\ group # 0 => c = [x EXCEPT !.group = group, !.pos = NextAt(m, x) + 1]
     /\ ~ended /\ ~wrong /\ group = 0 /\ key # 0 => c = [x EXCEPT !.key = key, !.end = "key"]
     /\ ~ended /\ ~wrong /\ group = 0 /\ key = 0 => c = [x EXCEPT !.end = "panic"]

\* A component takes one of them.
LEMMA ComponentBranches ==
  ASSUME NEW reg, NEW m, NEW tail, NEW x
  PROVE  Branches(reg, m, tail, x, Component(reg, m, tail, x))
  BY Zenon DEF Branches, Component, NextAt, NameAt, GroupAt, KeyAt

\* The search for the end of a component stays in the path, unless the path is at its end.
LEMMA PartIsBytes ==
  ASSUME NEW m \in Seq(Nat), NEW x \in Walks, At(m, x.pos) # NUL
  PROVE  NextAt(m, x) \in Nat /\ SubSeq(m, x.pos, NextAt(m, x) - 1) \in Seq(Nat)
<1>1. PICK pos \in Nat \ {0} : pos = x.pos
  BY DEF Walks
<1>2. Len(m) \in Nat /\ DOMAIN m = 1 .. Len(m) /\ \A j \in 1 .. Len(m) : m[j] \in Nat
  BY ElementOfSeq
<1>3. pos \in 1 .. Len(m) /\ pos <= Len(m) + 1
  BY <1>1, <1>2 DEF At
<1>4. PICK next : next = KeBreakCharPtrString(m, pos, Separators)
  OBVIOUS
<1>5. next \in Nat /\ next <= Len(m) + 1
  BY <1>3, <1>4, BreakStops
<1>6. SubSeq(m, pos, next - 1) \in Seq(Nat)
  <2>1. \A j \in pos .. next - 1 : m[j] \in Nat
    BY <1>2, <1>3, <1>5
  <2>2. pos \in Int /\ next - 1 \in Int
    BY <1>3, <1>5
  <2>3. QED
    BY <2>1, <2>2, SubSeqProperties
<1>7. QED
  BY <1>1, <1>4, <1>5, <1>6 DEF NextAt

\* What is compared for a component is a string.
LEMMA NextIsThere ==
  ASSUME NEW m \in Seq(Nat), NEW x \in Walks, At(m, x.pos) # NUL, NEW tail \in Seq(Nat)
  PROVE  NextAt(m, x) \in Nat /\ NameAt(m, tail, x) \in Strings
<1> DEFINE part == SubSeq(m, x.pos, NextAt(m, x) - 1)
<1>1. NextAt(m, x) \in Nat /\ part \in Seq(Nat)
  BY PartIsBytes
<1> HIDE DEF part
<1>2. part \o tail \in Seq(Nat)
  BY <1>1
<1>3. UpToNUL(part \o tail) \in Strings
  BY <1>2, UpToNULIsString
<1>4. QED
  BY <1>1, <1>3, Zenon DEF NameAt, part

\* A component leads from a state of the walk to one.
LEMMA ComponentLeads ==
  ASSUME NEW reg \in Registries, NEW m \in Seq(Nat), NEW tail \in Seq(Nat), NEW x \in Walks
  PROVE  Component(reg, m, tail, x) \in Walks
<1> DEFINE group == GroupAt(reg, m, tail, x)
           key   == KeyAt(reg, m, tail, x)
           next  == NextAt(m, x)
<1>1. group \in Nat /\ key \in Nat
  <2>1. reg.groups \in Seq(Made) /\ reg.keys \in Seq(Made)
    BY DEF Registries
  <2>2. QED
    BY <2>1, FindsFirst DEF GroupAt, KeyAt
<1>2. At(m, x.pos) # NUL => next + 1 \in Nat \ {0}
  BY NextIsThere
<1> HIDE DEF group, key, next
<1>3. \A end \in {"none", "NULL", "panic", "key"} : [x EXCEPT !.end = end] \in Walks
  BY DEF Walks
<1>4. [x EXCEPT !.key = key, !.end = "key"] \in Walks
  BY <1>1 DEF Walks
<1>5. At(m, x.pos) # NUL => [x EXCEPT !.group = group, !.pos = next + 1] \in Walks
  BY <1>1, <1>2 DEF Walks
<1> DEFINE c     == Component(reg, m, tail, x)
           wrong == next = x.pos \/ Len(NameAt(m, tail, x)) >= MaxName
<1>6. /\ At(m, x.pos) = NUL => c = [x EXCEPT !.end = "NULL"]
      /\ At(m, x.pos) # NUL /\ wrong => c = [x EXCEPT !.end = "panic"]
      /\ At(m, x.pos) # NUL /\ ~wrong /\ group # 0 => c = [x EXCEPT !.group = group, !.pos = next + 1]
      /\ At(m, x.pos) # NUL /\ ~wrong /\ group = 0 /\ key # 0 =>
           c = [x EXCEPT !.key = key, !.end = "key"]
      /\ At(m, x.pos) # NUL /\ ~wrong /\ group = 0 /\ key = 0 => c = [x EXCEPT !.end = "panic"]
  <2>1. Branches(reg, m, tail, x, c)
    BY ComponentBranches
  <2>2. QED
    BY <2>1, Zenon DEF Branches, group, key, next
<1> HIDE DEF c, wrong
<1>7. c \in Walks
  BY <1>3, <1>4, <1>5, <1>6
<1>8. QED
  BY <1>7 DEF c

\* A registry that has grown by up to one group and one key.
Grown(reg, reg2) ==
  /\ reg2.groups = reg.groups \/ \E new \in Made : reg2.groups = Append(reg.groups, new)
  /\ reg2.keys = reg.keys \/ \E new \in Made : reg2.keys = Append(reg.keys, new)

\* The new group is beside the key that the walk x found, and compares equal to it.
Hides(reg, reg2, x) ==
  /\ Len(reg2.groups) > Len(reg.groups)
  /\ LET group == Last(reg2.groups) IN
       /\ group.parent = x.group
       /\ KeCompareString(group.name, reg.keys[x.key].name) = 0

\* A component that led somewhere leads there still, unless a new group hides it.
LEMMA ComponentStays ==
  ASSUME NEW reg \in Registries, NEW reg2 \in Registries, Grown(reg, reg2),
         NEW m \in Seq(Nat), NEW tail \in Seq(Nat), NEW x \in Walks
  PROVE  LET c == Component(reg, m, tail, x) IN
         \/ Component(reg2, m, tail, x) = c
         \/ c.end = "panic"
         \/ c.end = "key" /\ Hides(reg, reg2, c)
<1> DEFINE c     == Component(reg, m, tail, x)
           d     == Component(reg2, m, tail, x)
           name  == NameAt(m, tail, x)
           ended == At(m, x.pos) = NUL
           wrong == NextAt(m, x) = x.pos \/ Len(name) >= MaxName
           good  == ~ended /\ ~wrong
           group == GroupAt(reg, m, tail, x)
           key   == KeyAt(reg, m, tail, x)
           group2 == GroupAt(reg2, m, tail, x)
           key2   == KeyAt(reg2, m, tail, x)
           to    == [x EXCEPT !.group = group, !.pos = NextAt(m, x) + 1]
           to2   == [x EXCEPT !.group = group2, !.pos = NextAt(m, x) + 1]
           found == [x EXCEPT !.key = key, !.end = "key"]
           found2 == [x EXCEPT !.key = key2, !.end = "key"]
<1>1. /\ reg.groups \in Seq(Made) /\ reg.keys \in Seq(Made)
      /\ reg2.groups \in Seq(Made) /\ reg2.keys \in Seq(Made)
  BY DEF Registries
<1>2. /\ ended => c = [x EXCEPT !.end = "NULL"]
      /\ ~ended /\ wrong => c = [x EXCEPT !.end = "panic"]
      /\ good /\ group # 0 => c = to
      /\ good /\ group = 0 /\ key # 0 => c = found
      /\ good /\ group = 0 /\ key = 0 => c = [x EXCEPT !.end = "panic"]
  <2>1. Branches(reg, m, tail, x, c)
    BY ComponentBranches
  <2>2. QED
    BY <2>1, Zenon DEF Branches
<1>3. /\ ended => d = [x EXCEPT !.end = "NULL"]
      /\ ~ended /\ wrong => d = [x EXCEPT !.end = "panic"]
      /\ good /\ group2 # 0 => d = to2
      /\ good /\ group2 = 0 /\ key2 # 0 => d = found2
      /\ good /\ group2 = 0 /\ key2 = 0 => d = [x EXCEPT !.end = "panic"]
  <2>1. Branches(reg2, m, tail, x, d)
    BY ComponentBranches
  <2>2. QED
    BY <2>1, Zenon DEF Branches
<1>4. \/ group2 = group
      \/ /\ group = 0 /\ group2 # 0
         /\ \E new \in Made : /\ reg2.groups = Append(reg.groups, new)
                              /\ new.parent = x.group /\ KeCompareString(new.name, name) = 0
  <2>1. CASE reg2.groups = reg.groups
    BY <2>1 DEF GroupAt
  <2>2. CASE \E new \in Made : reg2.groups = Append(reg.groups, new)
    <3>1. PICK new \in Made : reg2.groups = Append(reg.groups, new)
      BY <2>2
    <3>2. \/ FindMember(reg2.groups, x.group, name) = FindMember(reg.groups, x.group, name)
          \/ /\ FindMember(reg.groups, x.group, name) = 0 /\ FindMember(reg2.groups, x.group, name) # 0
             /\ new.parent = x.group /\ KeCompareString(new.name, name) = 0
      BY <1>1, <3>1, FindsTheSame
    <3>3. QED
      BY <3>1, <3>2 DEF GroupAt
  <2>3. QED
    BY <2>1, <2>2 DEF Grown
<1>5. key # 0 => key2 = key
  <2>1. CASE reg2.keys = reg.keys
    BY <2>1 DEF KeyAt
  <2>2. CASE \E new \in Made : reg2.keys = Append(reg.keys, new)
    BY <1>1, <2>2, FindsTheSame DEF KeyAt
  <2>3. QED
    BY <2>1, <2>2 DEF Grown
<1>6. key # 0 => key \in DOMAIN reg.keys /\ KeCompareString(reg.keys[key].name, name) = 0
  BY <1>1, FindsFirst DEF KeyAt, Same, MembersOf
<1>7. ~ended => name \in Strings
  BY NextIsThere
<1>8. [x EXCEPT !.end = "panic"].end = "panic"
  BY DEF Walks
<1>9. found.end = "key" /\ found.key = key /\ found.group = x.group
  BY DEF Walks
<1> HIDE DEF c, d, name, wrong, ended, group, group2, key, key2, to, to2, found, found2
<1>10. group2 = group => to2 = to
  BY DEF to, to2
<1>11. key2 = key => found2 = found
  BY DEF found, found2
<1>12. CASE ended
  BY <1>2, <1>3, <1>12 DEF c, d
<1>13. CASE ~ended /\ wrong
  BY <1>2, <1>8, <1>13 DEF c
<1>14. CASE good /\ group # 0
  BY <1>2, <1>3, <1>4, <1>10, <1>14 DEF c, d
<1>15. CASE good /\ group = 0 /\ key = 0
  BY <1>2, <1>8, <1>15 DEF c
<1>16. CASE good /\ group = 0 /\ key # 0
  <2>1. c = found /\ c.end = "key" /\ c.key = key /\ c.group = x.group
    BY <1>2, <1>9, <1>16
  <2>2. CASE group2 = group
    BY <1>3, <1>5, <1>11, <1>16, <2>1, <2>2 DEF c, d
  <2>3. CASE group2 # group
    <3>1. PICK new \in Made : /\ reg2.groups = Append(reg.groups, new)
                              /\ new.parent = x.group /\ KeCompareString(new.name, name) = 0
      BY <1>4, <2>3
    <3>2. /\ Len(reg2.groups) = Len(reg.groups) + 1 /\ Len(reg.groups) \in Nat
          /\ reg2.groups[Len(reg2.groups)] = new
      BY <1>1, <3>1
    <3>3. reg.keys[key] \in Made /\ KeCompareString(reg.keys[key].name, name) = 0
      BY <1>1, <1>6, <1>16
    <3>4. new.name \in Strings /\ reg.keys[key].name \in Strings
      BY <3>1, <3>3, RegistryAssumption DEF Made, Strings
    <3>5. KeCompareString(new.name, reg.keys[key].name) = 0
      BY <1>7, <1>16, <3>1, <3>3, <3>4, EqualToTheSame
    <3>6. Hides(reg, reg2, c)
      BY <2>1, <3>1, <3>2, <3>5 DEF Hides, Last
    <3>7. QED
      BY <2>1, <3>6 DEF c
  <2>4. QED
    BY <2>2, <2>3
<1>17. QED
  BY <1>12, <1>13, <1>14, <1>15, <1>16

----------------------------------------------------------------------------
(* Components that read the same *)

\* What the search for the end of a component stops at.
Stops(m, i, accept, z) ==
  /\ z \in i .. Len(m) + 1 /\ At(m, z) \in accept \cup {NUL}
  /\ \A j \in i .. z - 1 : At(m, j) \notin accept \cup {NUL}

\* The search stops at the first such place (memory.c:160).
LEMMA StopsOnce ==
  ASSUME NEW m \in Seq(Nat), NEW i \in Nat \ {0}, i <= Len(m) + 1, NEW accept
  PROVE  /\ Stops(m, i, accept, KeBreakCharPtrString(m, i, accept))
         /\ \A z \in Nat : Stops(m, i, accept, z) => KeBreakCharPtrString(m, i, accept) = z
<1> DEFINE stops == {j \in i .. Len(m) + 1 : At(m, j) \in accept \cup {NUL}}
           least == Min(stops)
<1>1. Len(m) \in Nat /\ DOMAIN m = 1 .. Len(m)
  OBVIOUS
<1>2. Len(m) + 1 \in stops
  BY <1>1 DEF At
<1>3. stops \in SUBSET Nat
  BY <1>1
<1>4. KeBreakCharPtrString(m, i, accept) = least
  BY DEF KeBreakCharPtrString
<1>5. \A j : j \in stops <=> j \in i .. Len(m) + 1 /\ At(m, j) \in accept \cup {NUL}
  OBVIOUS
<1> HIDE DEF stops
<1>6. least \in stops /\ least \in Nat /\ \A j \in stops : least <= j
  BY <1>2, <1>3, MinIsLeast
<1> HIDE DEF least
<1>7. least \in i .. Len(m) + 1 /\ At(m, least) \in accept \cup {NUL}
  BY <1>5, <1>6, Zenon
<1>8. ASSUME NEW j \in i .. least - 1, At(m, j) \in accept \cup {NUL} PROVE FALSE
  <2>1. j \in i .. Len(m) + 1 /\ ~(least <= j)
    BY <1>1, <1>7
  <2>2. QED
    BY <1>5, <1>6, <1>8, <2>1, Zenon
<1>9. ASSUME NEW z \in Nat, Stops(m, i, accept, z) PROVE least = z
  <2>1. z \in stops /\ \A j \in i .. z - 1 : At(m, j) \notin accept \cup {NUL}
    BY <1>5, <1>9, Zenon DEF Stops
  <2>2. least <= z
    BY <1>6, <2>1, Zenon
  <2>3. ~(least \in i .. z - 1)
    BY <1>7, <2>1, Zenon
  <2>4. least \in i .. Len(m) + 1 /\ least \in Nat /\ Len(m) \in Nat
    BY <1>1, <1>6, <1>7, Zenon
  <2>5. QED
    BY <2>2, <2>3, <2>4
<1>10. QED
  BY <1>4, <1>7, <1>8, <1>9, Zenon DEF Stops

\* Two memories agree up to place n, which is in or right behind both.
Agree(m, m2, n) ==
  /\ n <= Len(m) + 1 /\ n <= Len(m2) + 1
  /\ \A j \in 1 .. n : At(m, j) = At(m2, j)

\* A search from i on stops at the same place in both, and what is before it is the same.
BreakAlike(m, m2, i, accept) ==
  LET next == KeBreakCharPtrString(m, i, accept) IN
  /\ KeBreakCharPtrString(m2, i, accept) = next
  /\ SubSeq(m2, i, next - 1) = SubSeq(m, i, next - 1)

\* So it does if two memories agree up to the end of a string.
LEMMA AgreeOnBreak ==
  ASSUME NEW m \in Seq(Nat), NEW m2 \in Seq(Nat), NEW n \in Nat, Agree(m, m2, n), At(m, n) = NUL,
         NEW i \in Nat, 1 <= i, i <= n, NEW accept
  PROVE  BreakAlike(m, m2, i, accept)
<1> DEFINE next == KeBreakCharPtrString(m, i, accept)
<1>1. /\ Len(m) \in Nat /\ DOMAIN m = 1 .. Len(m) /\ Len(m2) \in Nat /\ DOMAIN m2 = 1 .. Len(m2)
      /\ n <= Len(m) + 1 /\ n <= Len(m2) + 1
  BY DEF Agree
<1>2. i \in Nat \ {0} /\ i <= Len(m) + 1 /\ i <= Len(m2) + 1
  BY <1>1
<1>3. Stops(m, i, accept, next)
  BY <1>2, StopsOnce, Zenon
<1> HIDE DEF next
<1>4. /\ next \in i .. Len(m) + 1 /\ At(m, next) \in accept \cup {NUL}
      /\ \A j \in i .. next - 1 : At(m, j) \notin accept \cup {NUL}
  BY <1>3, Zenon DEF Stops
<1>5. next \in i .. n
  <2>2. ~(n \in i .. next - 1)
    BY <1>4
  <2>3. next \in Nat /\ next \in i .. Len(m) + 1
    BY <1>1, <1>4
  <2>4. QED
    BY <1>1, <2>2, <2>3
<1>6. Stops(m2, i, accept, next)
  <2>1. next \in 1 .. n /\ next \in i .. Len(m2) + 1 /\ \A j \in i .. next - 1 : j \in 1 .. n
    BY <1>1, <1>5
  <2>2. \A j \in 1 .. n : At(m, j) = At(m2, j)
    BY Zenon DEF Agree
  <2>3. QED
    BY <1>4, <2>1, <2>2, Zenon DEF Stops
<1>7. next \in Nat
  BY <1>5
<1>8. KeBreakCharPtrString(m2, i, accept) = next
  BY <1>2, <1>6, <1>7, StopsOnce, Zenon
<1>9. SubSeq(m2, i, next - 1) = SubSeq(m, i, next - 1)
  <2>1. \A j \in i .. next - 1 : j \in 1 .. Len(m) /\ j \in 1 .. Len(m2) /\ j \in 1 .. n
    BY <1>1, <1>5
  <2>2. \A j \in i .. next - 1 : m[j] = m2[j]
    BY <1>1, <2>1 DEF At, Agree
  <2> DEFINE j == next - 1
             a == SubSeq(m, i, j)
             b == SubSeq(m2, i, j)
  <2>3. i \in Int /\ j \in Int
    BY <1>7
  <2> HIDE DEF j
  <2>4. \A k \in i .. j : m[k] \in Nat /\ m2[k] = m[k]
    BY <1>1, <2>1, <2>2, ElementOfSeq, Zenon DEF j
  <2>5. /\ a \in Seq(Nat) /\ Len(a) = (IF i <= j THEN j - i + 1 ELSE 0)
        /\ \A k \in 1 .. j - i + 1 : a[k] = m[i + k - 1]
    BY <2>3, <2>4, SubSeqProperties
  <2>6. /\ b \in Seq(Nat) /\ Len(b) = (IF i <= j THEN j - i + 1 ELSE 0)
        /\ \A k \in 1 .. j - i + 1 : b[k] = m2[i + k - 1]
    BY <2>3, <2>4, SubSeqProperties
  <2> HIDE DEF a, b
  <2>7. \A k \in 1 .. Len(a) : k \in 1 .. j - i + 1 /\ i + k - 1 \in i .. j
    BY <2>3, <2>5
  <2>8. \A k \in 1 .. Len(a) : a[k] = b[k]
    BY <2>4, <2>5, <2>6, <2>7, Zenon
  <2>9. a = b
    BY <2>5, <2>6, <2>8, SeqEqual
  <2>10. QED
    BY <2>9, Zenon DEF a, b, j
<1>10. QED
  BY <1>8, <1>9, Zenon DEF next, BreakAlike

\* A name with bytes behind it that read the same up to a NUL reads the same.
LEMMA NamesAlike ==
  ASSUME NEW s \in Seq(Nat), NEW t \in Seq(Nat), NEW t2 \in Seq(Nat), UpToNUL(t) = UpToNUL(t2)
  PROVE  UpToNUL(s \o t) = UpToNUL(s \o t2)
<1>0. PICK one \in Nat \ {0} : one = 1
  OBVIOUS
<1> DEFINE b  == KeBreakCharPtrString(t, one, {})
           b2 == KeBreakCharPtrString(t2, one, {})
           n  == Len(s) + b
           m  == s \o t
           m2 == s \o t2
<1>1. /\ Len(s) \in Nat /\ DOMAIN s = 1 .. Len(s)
      /\ Len(t) \in Nat /\ DOMAIN t = 1 .. Len(t)
      /\ Len(t2) \in Nat /\ DOMAIN t2 = 1 .. Len(t2)
  OBVIOUS
<1>2. one <= Len(t) + 1 /\ one <= Len(t2) + 1
  BY <1>0, <1>1
<1>3. Stops(t, one, {}, b) /\ Stops(t2, one, {}, b2)
  BY <1>2, StopsOnce, Zenon
<1>4. UpToNUL(t) = SubSeq(t, 1, b - 1) /\ UpToNUL(t2) = SubSeq(t2, 1, b2 - 1)
  BY <1>0 DEF UpToNUL
<1> HIDE DEF b, b2
<1>5. /\ b \in Nat \ {0} /\ b <= Len(t) + 1 /\ At(t, b) = NUL
      /\ b2 \in Nat \ {0} /\ b2 <= Len(t2) + 1 /\ At(t2, b2) = NUL
  BY <1>0, <1>1, <1>3 DEF Stops
<1>6. SubSeq(t, 1, b - 1) = SubSeq(t2, 1, b2 - 1)
  BY <1>4, Zenon
<1>7. b2 = b
  <2>1. Len(SubSeq(t, 1, b - 1)) = b - 1 /\ Len(SubSeq(t2, 1, b2 - 1)) = b2 - 1
    BY <1>1, <1>5
  <2>2. b - 1 = b2 - 1
    BY <1>6, <2>1
  <2>3. QED
    BY <1>5, <2>2
<1>8. \A j \in 1 .. b : At(t, j) = At(t2, j)
  <2> SUFFICES ASSUME NEW j \in 1 .. b PROVE At(t, j) = At(t2, j)
    OBVIOUS
  <2>1. CASE j = b
    BY <1>5, <1>7, <2>1
  <2>2. CASE j # b
    <3>1. j \in 1 .. b - 1 /\ j \in 1 .. Len(t) /\ j \in 1 .. Len(t2)
      BY <1>1, <1>5, <1>7, <2>2
    <3>2. SubSeq(t, 1, b - 1)[j] = t[j] /\ SubSeq(t2, 1, b - 1)[j] = t2[j]
      BY <1>1, <1>5, <3>1
    <3>3. t[j] = t2[j]
      BY <1>6, <1>7, <3>2
    <3>4. QED
      BY <1>1, <3>1, <3>3 DEF At
  <2>3. QED
    BY <2>1, <2>2
<1>9. /\ m \in Seq(Nat) /\ Len(m) = Len(s) + Len(t) /\ DOMAIN m = 1 .. Len(s) + Len(t)
      /\ \A j \in 1 .. Len(s) : m[j] = s[j]
      /\ \A j \in 1 .. Len(t) : m[Len(s) + j] = t[j]
  BY <1>1
<1>10. /\ m2 \in Seq(Nat) /\ Len(m2) = Len(s) + Len(t2) /\ DOMAIN m2 = 1 .. Len(s) + Len(t2)
       /\ \A j \in 1 .. Len(s) : m2[j] = s[j]
       /\ \A j \in 1 .. Len(t2) : m2[Len(s) + j] = t2[j]
  BY <1>1
<1> HIDE DEF m, m2
<1>11. \A k \in 1 .. b : At(m, Len(s) + k) = At(t, k) /\ At(m2, Len(s) + k) = At(t2, k)
  <2> SUFFICES ASSUME NEW k \in 1 .. b
               PROVE  At(m, Len(s) + k) = At(t, k) /\ At(m2, Len(s) + k) = At(t2, k)
    OBVIOUS
  <2>1. (Len(s) + k \in DOMAIN m <=> k \in DOMAIN t) /\ (Len(s) + k \in DOMAIN m2 <=> k \in DOMAIN t2)
    BY <1>1, <1>9, <1>10
  <2>2. QED
    BY <1>1, <1>9, <1>10, <2>1 DEF At
<1>12. Agree(m, m2, n)
  <2>1. n <= Len(m) + 1 /\ n <= Len(m2) + 1
    BY <1>1, <1>5, <1>7, <1>9, <1>10
  <2>2. \A j \in 1 .. n : j \in 1 .. Len(s) \/ \E k \in 1 .. b : j = Len(s) + k
    <3>1. TAKE j \in 1 .. n
    <3>2. CASE j <= Len(s)
      BY <1>1, <3>2
    <3>3. CASE ~(j <= Len(s))
      <4>1. j - Len(s) \in 1 .. b /\ j = Len(s) + (j - Len(s))
        BY <1>1, <1>5, <3>3
      <4>2. QED
        BY <4>1
    <3>4. QED
      BY <3>2, <3>3
  <2>3. \A j \in 1 .. Len(s) : At(m, j) = At(m2, j)
    BY <1>1, <1>9, <1>10 DEF At
  <2>4. \A k \in 1 .. b : At(m, Len(s) + k) = At(m2, Len(s) + k)
    BY <1>8, <1>11, Zenon
  <2>5. \A j \in 1 .. n : At(m, j) = At(m2, j)
    BY <2>2, <2>3, <2>4, Zenon
  <2>6. QED
    BY <2>1, <2>5, Zenon DEF Agree
<1>13. n \in Nat /\ one \in Nat /\ 1 <= one /\ one <= n
  BY <1>0, <1>1, <1>5
<1>14. At(m, n) = NUL
  <2>1. b \in 1 .. b
    BY <1>5
  <2>2. QED
    BY <1>5, <1>11, <2>1, Zenon
<1> HIDE DEF n
<1>15. BreakAlike(m, m2, one, {})
  BY <1>9, <1>10, <1>12, <1>13, <1>14, AgreeOnBreak, Zenon
<1>16. UpToNUL(m) = UpToNUL(m2)
  BY <1>0, <1>15 DEF UpToNUL, BreakAlike
<1>17. QED
  BY <1>16, Zenon DEF m, m2

\* What a component reads in two memories.
ReadsTheSame(m, tail, m2, tail2, x) ==
  /\ At(m2, x.pos) = At(m, x.pos)
  /\ At(m, x.pos) # NUL => /\ NextAt(m2, x) = NextAt(m, x)
                           /\ NameAt(m2, tail2, x) = NameAt(m, tail, x)

\* A component that reads the same is the same.
LEMMA ComponentReads ==
  ASSUME NEW reg, NEW m, NEW tail, NEW m2, NEW tail2, NEW x, ReadsTheSame(m, tail, m2, tail2, x)
  PROVE  Component(reg, m2, tail2, x) = Component(reg, m, tail, x)
<1>1. CASE At(m, x.pos) = NUL
  BY <1>1, Zenon DEF ReadsTheSame, Component
<1>2. CASE At(m, x.pos) # NUL
  BY <1>2, Zenon DEF ReadsTheSame, Component, NextAt, NameAt
<1>3. QED
  BY <1>1, <1>2

----------------------------------------------------------------------------
(* The whole path *)

Memory(path, left) == path \o <<NUL>> \o left.path
WalkFrom(path) ==
  [group |-> Root, key |-> 0, pos |-> 1,
   end |-> IF Len(path) >= MaxPath \/ path = << >> THEN "panic" ELSE "none"]
WalkOn(reg, m, tail, x) == IF x.end # "none" THEN x ELSE Component(reg, m, tail, x)
WalkIs(reg, path, left, u) ==
  u = [i \in 0 .. Len(Memory(path, left)) + 1 |->
         IF i = 0 THEN WalkFrom(path)
         ELSE WalkOn(reg, Memory(path, left), BehindName(left, i), u[i - 1])]
WalkOf(reg, path, left) == CHOOSE u : WalkIs(reg, path, left, u)

\* What the loop over the path stands for.
LEMMA WalkMeans ==
  ASSUME NEW reg, NEW path, NEW left
  PROVE  KeResolveRegistryPath(reg, path, left)
           = WalkOf(reg, path, left)[Len(Memory(path, left)) + 1]
  BY DEF KeResolveRegistryPath, WalkOf, WalkIs, WalkFrom, WalkOn, Memory

\* The buffer and what is behind it and behind the names.
LEMMA MemoryIsBytes ==
  ASSUME NEW path \in Paths, NEW left \in Leftovers
  PROVE  /\ Memory(path, left) \in Seq(Nat) /\ Len(Memory(path, left)) \in Nat
         /\ \A i : BehindName(left, i) \in Seq(Nat)
<1>1. path \in Seq(Nat) /\ left.path \in Seq(Nat) /\ left.names \in Seq(Seq(Nat))
  BY RegistryAssumption DEF Leftover
<1>2. <<NUL>> \in Seq(Nat) /\ << >> \in Seq(Nat)
  BY DEF NUL
<1>3. Memory(path, left) \in Seq(Nat) /\ Len(Memory(path, left)) \in Nat
  <2> DEFINE a == path \o <<NUL>>
             b == a \o left.path
  <2>1. a \in Seq(Nat)
    BY <1>1, <1>2, ConcatProperties, Zenon
  <2>2. b \in Seq(Nat)
    BY <1>1, <2>1, ConcatProperties, Zenon
  <2> HIDE DEF b
  <2>3. Len(b) \in Nat
    BY <2>2
  <2>4. QED
    BY <2>2, <2>3, Zenon DEF Memory, b
<1>4. \A i : BehindName(left, i) \in Seq(Nat)
  <2>1. \A i \in DOMAIN left.names : left.names[i] \in Seq(Nat)
    BY <1>1
  <2>2. QED
    BY <1>2, <2>1, Zenon DEF BehindName
<1>5. QED
  BY <1>3, <1>4

\* The loop over the components.
LEMMA WalkSteps ==
  ASSUME NEW reg \in Registries, NEW path \in Paths, NEW left \in Leftovers
  PROVE  LET m == Memory(path, left)
             u == WalkOf(reg, path, left)
         IN /\ u[0] = WalkFrom(path)
            /\ \A i \in 1 .. Len(m) + 1 : u[i] = WalkOn(reg, m, BehindName(left, i), u[i - 1])
            /\ \A i \in 0 .. Len(m) + 1 : u[i] \in Walks
<1> DEFINE m == Memory(path, left)
           n == Len(m) + 1
           start == WalkFrom(path)
           On(i, x) == WalkOn(reg, m, BehindName(left, i), x)
           Step == [i \in 1 .. n |-> [x \in Walks |-> On(i, x)]]
           u == WalkOf(reg, path, left)
<1>1. m \in Seq(Nat) /\ n \in Nat /\ \A i : BehindName(left, i) \in Seq(Nat)
  BY MemoryIsBytes
<1>2. \A i : \A x \in Walks : On(i, x) \in Walks
  BY <1>1, ComponentLeads, Zenon DEF WalkOn
<1>3. start \in Walks
  BY DEF WalkFrom, Walks, Root
<1> HIDE DEF m, n, start, On
<1>4. /\ Step \in [1 .. n -> [Walks -> Walks]]
      /\ \A i \in 1 .. n : \A x \in Walks : Step[i][x] = On(i, x)
  BY <1>2
<1> HIDE DEF Step
<1>5. PICK v : v \in [0 .. n -> Walks] /\ v[0] = start /\ \A i \in 1 .. n : v[i] = Step[i][v[i - 1]]
  <2>1. \E v : IsLoop(v, Walks, start, n, Step)
    BY <1>1, <1>3, <1>4, LoopExists
  <2>2. QED
    BY <2>1 DEF IsLoop
<1>6. WalkIs(reg, path, left, v)
  <2>1. \A i \in 1 .. n : v[i - 1] \in Walks
    BY <1>1, <1>5
  <2>2. \A i \in 1 .. n : v[i] = On(i, v[i - 1])
    BY <1>4, <1>5, <2>1, Zenon
  <2>3. \A i \in 0 .. n : i = 0 \/ i \in 1 .. n
    BY <1>1
  <2>4. \A i \in 0 .. n : v[i] = IF i = 0 THEN start ELSE On(i, v[i - 1])
    BY <1>5, <2>2, <2>3, Zenon
  <2>5. v = [i \in 0 .. n |-> v[i]]
    BY <1>5
  <2>6. [i \in 0 .. n |-> v[i]] = [i \in 0 .. n |-> IF i = 0 THEN start ELSE On(i, v[i - 1])]
    BY <2>4, Zenon
  <2>7. QED
    BY <2>5, <2>6, Zenon DEF WalkIs, n, m, start, On
<1>7. WalkIs(reg, path, left, u)
  BY <1>6 DEF WalkOf
<1> HIDE DEF u
<1>8. \A i \in 0 .. n : u[i] = IF i = 0 THEN start ELSE On(i, u[i - 1])
  <2>1. u = [i \in 0 .. n |-> IF i = 0 THEN start ELSE On(i, u[i - 1])]
    BY <1>7, Zenon DEF WalkIs, n, m, start, On
  <2>2. QED
    BY <2>1, Zenon
<1>9. u[0] = start /\ \A i \in 1 .. n : u[i] = On(i, u[i - 1])
  <2>1. 0 \in 0 .. n /\ \A i \in 1 .. n : i \in 0 .. n /\ i # 0
    BY <1>1
  <2>2. QED
    BY <1>8, <2>1, Zenon
<1>10. \A i \in 0 .. n : u[i] \in Walks
  <2> DEFINE P == {i \in 0 .. n : u[i] \in Walks}
  <2>1. 0 \in P
    BY <1>1, <1>3, <1>9
  <2>2. \A i \in 1 .. n : i - 1 \in P => i \in P
    BY <1>1, <1>2, <1>9
  <2> HIDE DEF P
  <2>3. \A i \in 0 .. n : i \in P
    BY <1>1, <2>1, <2>2, UpTo
  <2>4. QED
    BY <2>3 DEF P
<1>11. QED
  BY <1>9, <1>10, Zenon DEF u, n, m, start, On

\* A component never goes back.
LEMMA ComponentGoesOn ==
  ASSUME NEW reg, NEW m \in Seq(Nat), NEW tail, NEW x \in Walks
  PROVE  Component(reg, m, tail, x).pos >= x.pos
<1> DEFINE c == Component(reg, m, tail, x)
           next == NextAt(m, x)
           group == GroupAt(reg, m, tail, x)
<1>1. x.pos \in Nat \ {0}
  BY DEF Walks
<1>2. \A y \in {"NULL", "panic"} : [x EXCEPT !.end = y].pos >= x.pos
  BY <1>1 DEF Walks
<1>3. \A y : [x EXCEPT !.key = y, !.end = "key"].pos >= x.pos
  BY <1>1 DEF Walks
<1>4. At(m, x.pos) # NUL => next \in Nat /\ next >= x.pos
  <2>1. PICK pos \in Nat \ {0} : pos = x.pos
    BY <1>1
  <2>2. ASSUME At(m, pos) # NUL PROVE pos <= Len(m) + 1
    BY <2>1, <2>2 DEF At
  <2>3. ASSUME pos <= Len(m) + 1
        PROVE  LET k == KeBreakCharPtrString(m, pos, Separators) IN k \in Nat /\ pos <= k
    BY <2>3, BreakStops
  <2>4. QED
    BY <2>1, <2>2, <2>3 DEF NextAt
<1>5. At(m, x.pos) # NUL => \A y : [x EXCEPT !.group = y, !.pos = next + 1].pos >= x.pos
  BY <1>1, <1>4 DEF Walks
<1>6. Branches(reg, m, tail, x, c)
  BY ComponentBranches
<1> HIDE DEF c
<1>7. c.pos >= x.pos
  BY <1>2, <1>3, <1>5, <1>6, Zenon DEF Branches, next, group
<1>8. QED
  BY <1>7 DEF c

\* A component inside the path, or any if what is behind the path is the same, reads the
\* same if the bytes behind its name do.
LEMMA ReadsOn ==
  ASSUME NEW path \in Paths, NEW left \in Leftovers, NEW left2 \in Leftovers, NEW i, NEW x \in Walks,
         x.pos <= Len(path) \/ left.path = left2.path,
         UpToNUL(BehindName(left, i)) = UpToNUL(BehindName(left2, i))
  PROVE  ReadsTheSame(Memory(path, left), BehindName(left, i),
                      Memory(path, left2), BehindName(left2, i), x)
<1> DEFINE m == Memory(path, left)
           m2 == Memory(path, left2)
           tail == BehindName(left, i)
           tail2 == BehindName(left2, i)
           n == Len(path) + 1
           next == NextAt(m, x)
<1>1. m \in Seq(Nat) /\ m2 \in Seq(Nat) /\ tail \in Seq(Nat) /\ tail2 \in Seq(Nat)
  BY MemoryIsBytes, Zenon
<1>2. PICK pos \in Nat \ {0} : pos = x.pos
  BY DEF Walks
<1>3. ASSUME x.pos <= Len(path)
      PROVE  At(m2, pos) = At(m, pos) /\ NextAt(m2, x) = next
             /\ SubSeq(m2, pos, next - 1) = SubSeq(m, pos, next - 1)
  <2>1. path \in Seq(Nat) /\ left.path \in Seq(Nat) /\ left2.path \in Seq(Nat) /\ <<NUL>> \in Seq(Nat)
    BY RegistryAssumption DEF Leftover, NUL
  <2>2. ASSUME NEW b \in Seq(Nat)
        PROVE  LET z == path \o <<NUL>> \o b IN
               /\ n <= Len(z) + 1 /\ At(z, n) = NUL
               /\ \A j \in 1 .. Len(path) : At(z, j) = path[j]
    <3> DEFINE z == path \o <<NUL>> \o b
    <3>1. /\ Len(z) = Len(path) + 1 + Len(b) /\ DOMAIN z = 1 .. Len(z) /\ Len(b) \in Nat
          /\ z[Len(path) + 1] = NUL /\ \A j \in 1 .. Len(path) : z[j] = path[j]
      BY <2>1, <2>2
    <3>2. Len(path) \in Nat
      BY <2>1
    <3> HIDE DEF z
    <3>3. n <= Len(z) + 1 /\ At(z, n) = NUL /\ \A j \in 1 .. Len(path) : At(z, j) = path[j]
      BY <3>1, <3>2 DEF At
    <3>4. QED
      BY <3>3 DEF z
  <2>3. /\ n <= Len(m) + 1 /\ At(m, n) = NUL /\ \A j \in 1 .. Len(path) : At(m, j) = path[j]
        /\ n <= Len(m2) + 1 /\ At(m2, n) = NUL /\ \A j \in 1 .. Len(path) : At(m2, j) = path[j]
    BY <2>1, <2>2, Zenon DEF Memory
  <2>4. Len(path) \in Nat
    BY <2>1
  <2> HIDE DEF m, m2
  <2>5. \A j \in 1 .. n : j \in 1 .. Len(path) \/ j = n
    BY <2>4
  <2>6. Agree(m, m2, n)
    BY <2>3, <2>5, Zenon DEF Agree
  <2>7. n \in Nat /\ pos \in Nat /\ 1 <= pos /\ pos <= n /\ pos \in 1 .. n
    BY <1>2, <1>3, <2>4
  <2> HIDE DEF n
  <2>8. BreakAlike(m, m2, pos, Separators)
    BY <1>1, <2>3, <2>6, <2>7, AgreeOnBreak, Zenon
  <2>9. QED
    BY <1>2, <2>6, <2>7, <2>8, Zenon DEF NextAt, Agree, BreakAlike
<1>4. ASSUME left.path = left2.path
      PROVE  At(m2, pos) = At(m, pos) /\ NextAt(m2, x) = next
             /\ SubSeq(m2, pos, next - 1) = SubSeq(m, pos, next - 1)
  BY <1>4, Zenon DEF Memory
<1>5. At(m2, pos) = At(m, pos) /\ NextAt(m2, x) = next
      /\ SubSeq(m2, pos, next - 1) = SubSeq(m, pos, next - 1)
  BY <1>3, <1>4, Zenon
<1> HIDE DEF m, m2, tail, tail2
<1>6. ASSUME At(m, x.pos) # NUL PROVE NameAt(m2, tail2, x) = NameAt(m, tail, x)
  <2> DEFINE s == SubSeq(m, x.pos, next - 1)
  <2>1. s \in Seq(Nat)
    BY <1>1, <1>6, PartIsBytes, Zenon
  <2>2. NameAt(m, tail, x) = UpToNUL(s \o tail) /\ NameAt(m2, tail2, x) = UpToNUL(s \o tail2)
    BY <1>2, <1>5, Zenon DEF NameAt
  <2> HIDE DEF s
  <2>3. UpToNUL(s \o tail) = UpToNUL(s \o tail2)
    BY <1>1, <2>1, NamesAlike, Zenon DEF tail, tail2
  <2>4. QED
    BY <2>2, <2>3, Zenon
<1>7. ReadsTheSame(m, tail, m2, tail2, x)
  BY <1>2, <1>5, <1>6, Zenon DEF ReadsTheSame
<1>8. QED
  BY <1>7, Zenon DEF m, m2, tail, tail2

\* In a registry that has grown a path that reads the same leads to the same key, unless
\* a group hides it.
LEMMA PathStaysAtKey ==
  ASSUME NEW reg \in Registries, NEW reg2 \in Registries, Grown(reg, reg2),
         NEW path \in Paths, NEW left \in Leftovers, NEW left2 \in Leftovers,
         KeResolveRegistryPath(reg, path, left).end = "key",
         ReadAlike(path, KeResolveRegistryPath(reg, path, left), left, left2)
  PROVE  \/ KeResolveRegistryPath(reg2, path, left2) = KeResolveRegistryPath(reg, path, left)
         \/ Hides(reg, reg2, KeResolveRegistryPath(reg, path, left))
<1> DEFINE m == Memory(path, left)
           m2 == Memory(path, left2)
           n == Len(m) + 1
           u == WalkOf(reg, path, left)
           w == WalkOf(reg2, path, left2)
           tail(i) == BehindName(left, i)
           tail2(i) == BehindName(left2, i)
           inside(x) == x.pos <= Len(path) \/ left.path = left2.path
           P == {i \in 0 .. n : \/ w[i] = u[i]
                                \/ u[i].end = "panic"
                                \/ u[i].end = "key" /\ Hides(reg, reg2, u[i])
                                \/ ~inside(u[i])}
<1>1. /\ m \in Seq(Nat) /\ m2 \in Seq(Nat) /\ n \in Nat
      /\ \A i : tail(i) \in Seq(Nat) /\ tail2(i) \in Seq(Nat)
  BY MemoryIsBytes
<1>2. Len(m2) = Len(m)
  <2>1. path \in Seq(Nat) /\ left.path \in Seq(Nat) /\ left2.path \in Seq(Nat) /\ <<NUL>> \in Seq(Nat)
    BY RegistryAssumption DEF Leftover, NUL
  <2>2. Len(left2.path) = Len(left.path)
    BY RegistryAssumption, Zenon
  <2> DEFINE a == path \o <<NUL>>
  <2>3. a \in Seq(Nat)
    BY <2>1, ConcatProperties, Zenon
  <2> HIDE DEF a
  <2>4. Len(a \o left.path) = Len(a) + Len(left.path) /\ Len(a \o left2.path) = Len(a) + Len(left2.path)
    BY <2>1, <2>3, ConcatProperties, Zenon
  <2>5. QED
    BY <2>2, <2>4, Zenon DEF Memory, a
<1>3. /\ u[0] = WalkFrom(path)
      /\ \A i \in 1 .. n : u[i] = WalkOn(reg, m, tail(i), u[i - 1])
      /\ \A i \in 0 .. n : u[i] \in Walks
  BY WalkSteps, Zenon
<1>4. /\ w[0] = WalkFrom(path)
      /\ \A i \in 1 .. n : w[i] = WalkOn(reg2, m2, tail2(i), w[i - 1])
  BY <1>2, WalkSteps
<1>5. /\ KeResolveRegistryPath(reg, path, left) = u[n]
      /\ KeResolveRegistryPath(reg2, path, left2) = w[n]
  BY <1>2, WalkMeans, Zenon
<1>6. \A i : UpToNUL(tail(i)) = UpToNUL(tail2(i))
  BY Zenon DEF ReadAlike, BehindName
<1>8. ASSUME NEW x \in Walks, NEW y \in Walks, ~inside(x), y.pos >= x.pos PROVE ~inside(y)
  <2>1. x.pos \in Nat /\ y.pos \in Nat
    BY DEF Walks
  <2>2. Len(path) \in Nat
    BY RegistryAssumption
  <2>3. QED
    BY <1>8, <2>1, <2>2
<1>9. ASSUME NEW i, NEW x \in Walks, inside(x)
      PROVE  \/ Component(reg2, m2, tail2(i), x) = Component(reg, m, tail(i), x)
             \/ Component(reg, m, tail(i), x).end = "panic"
             \/ /\ Component(reg, m, tail(i), x).end = "key"
                /\ Hides(reg, reg2, Component(reg, m, tail(i), x))
  <2>1. ReadsTheSame(m, tail(i), m2, tail2(i), x)
    BY <1>6, <1>9, ReadsOn, Zenon
  <2>2. Component(reg2, m2, tail2(i), x) = Component(reg2, m, tail(i), x)
    BY <2>1, ComponentReads
  <2>3. \/ Component(reg2, m, tail(i), x) = Component(reg, m, tail(i), x)
        \/ Component(reg, m, tail(i), x).end = "panic"
        \/ /\ Component(reg, m, tail(i), x).end = "key"
           /\ Hides(reg, reg2, Component(reg, m, tail(i), x))
    BY <1>1, ComponentStays, Zenon
  <2>4. QED
    BY <2>2, <2>3, Zenon
<1>10. inside(u[n])
  BY <1>5, Zenon DEF ReadAlike
<1> HIDE DEF u, w, n, m, m2, tail, tail2, inside
<1>11. 0 \in P
  <2>1. 0 \in 0 .. n
    BY <1>1
  <2>2. QED
    BY <1>3, <1>4, <2>1, Zenon
<1>12. ASSUME NEW i \in 1 .. n, i - 1 \in P PROVE i \in P
  <2>1. i \in 0 .. n /\ i - 1 \in 0 .. n
    BY <1>1
  <2> DEFINE x == u[i - 1]
             y == u[i]
             z == w[i - 1]
  <2>2. /\ y = WalkOn(reg, m, tail(i), x) /\ w[i] = WalkOn(reg2, m2, tail2(i), z)
        /\ x \in Walks /\ y \in Walks
    BY <1>3, <1>4, <2>1, Zenon
  <2>3. \/ z = x \/ x.end = "panic" \/ (x.end = "key" /\ Hides(reg, reg2, x)) \/ ~inside(x)
    BY <1>12, Zenon
  <2> SUFFICES \/ w[i] = y \/ y.end = "panic" \/ (y.end = "key" /\ Hides(reg, reg2, y)) \/ ~inside(y)
    BY <2>1, Zenon
  <2> HIDE DEF x, y, z, P
  <2>4. CASE x.end # "none"
    <3>1. y = x /\ (z = x => w[i] = z)
      BY <2>2, <2>4, Zenon DEF WalkOn
    <3>2. QED
      BY <2>3, <3>1, Zenon
  <2>5. CASE x.end = "none"
    <3>1. y = Component(reg, m, tail(i), x)
      BY <2>2, <2>5, Zenon DEF WalkOn
    <3>2. CASE ~inside(x)
      <4>1. y.pos >= x.pos
        BY <1>1, <2>2, <3>1, ComponentGoesOn
      <4>2. QED
        BY <1>8, <2>2, <3>2, <4>1, Zenon
    <3>3. CASE inside(x)
      <4>1. z = x
        BY <2>3, <2>5, <3>3
      <4>2. w[i] = Component(reg2, m2, tail2(i), x)
        BY <2>2, <2>5, <4>1, Zenon DEF WalkOn
      <4>3. QED
        BY <1>9, <2>2, <3>1, <3>3, <4>2, Zenon
    <3>4. QED
      BY <3>2, <3>3
  <2>6. QED
    BY <2>4, <2>5
<1>13. n \in P
  <2> HIDE DEF P
  <2>1. \A i \in 0 .. n : i \in P
    BY <1>1, <1>11, <1>12, UpTo
  <2>2. QED
    BY <1>1, <2>1
<1>14. QED
  <2>1. u[n].end = "key"
    BY <1>5, Zenon
  <2>2. w[n] = u[n] \/ Hides(reg, reg2, u[n])
    BY <1>10, <1>13, <2>1
  <2>3. QED
    BY <1>5, <2>2, Zenon

----------------------------------------------------------------------------
(* The registry *)

\* A step creates at most one group or one key (registry.c:134-162).
LEMMA StepGrows ==
  ASSUME registry \in Registries, [RegistryNext]_registryVars
  PROVE  registry' \in Registries /\ Grown(registry, registry')
<1> DEFINE G == registry' \in Registries /\ Grown(registry, registry')
<1>1. ASSUME UNCHANGED registry PROVE G
  BY <1>1 DEF Grown
<1>2. ASSUME NEW g \in Groups, NEW name \in Names
      PROVE  [parent |-> g, name |-> name] \in Made
  <2>1. registry.groups \in Seq(Made)
    BY DEF Registries
  <2>2. Len(registry.groups) \in Nat
    BY <2>1
  <2>3. QED
    BY <2>2 DEF Groups, Made
<1>3. ASSUME NEW g \in Groups, NEW name \in Names, KeCreateRegistryGroup(g, name) PROVE G
  <2>1. CASE registry' = registry
    BY <1>1, <2>1
  <2>2. CASE registry' = [registry EXCEPT !.groups = Added(@, g, name)]
    <3>1. PICK new \in Made : new = [parent |-> g, name |-> name]
      BY <1>2
    <3>2. registry' = [registry EXCEPT !.groups = Append(registry.groups, new)]
      BY <2>2, <3>1 DEF Added
    <3>3. /\ registry'.groups = Append(registry.groups, new) /\ registry'.keys = registry.keys
          /\ registry' \in Registries
      <4>1. Append(registry.groups, new) \in Seq(Made)
        BY DEF Registries
      <4>2. QED
        BY <3>2, <4>1 DEF Registries
    <3>4. QED
      BY <3>3 DEF Grown
  <2>3. QED
    BY <1>3, <2>1, <2>2 DEF KeCreateRegistryGroup, EndsIn
<1>4. ASSUME NEW g \in Groups, NEW name \in Names, KeCreateRegistryKey(g, name) PROVE G
  <2>1. CASE registry' = registry
    BY <1>1, <2>1
  <2>2. CASE registry' = [registry EXCEPT !.keys = Added(@, g, name)]
    <3>1. PICK new \in Made : new = [parent |-> g, name |-> name]
      BY <1>2
    <3>2. registry' = [registry EXCEPT !.keys = Append(registry.keys, new)]
      BY <2>2, <3>1 DEF Added
    <3>3. /\ registry'.keys = Append(registry.keys, new) /\ registry'.groups = registry.groups
          /\ registry' \in Registries
      <4>1. Append(registry.keys, new) \in Seq(Made)
        BY DEF Registries
      <4>2. QED
        BY <3>2, <4>1 DEF Registries
    <3>4. QED
      BY <3>3 DEF Grown
  <2>3. QED
    BY <1>4, <2>1, <2>2 DEF KeCreateRegistryKey, EndsIn
<1>5. CASE UNCHANGED registryVars
  BY <1>1, <1>5 DEF registryVars
<1>6. CASE RegistryNext
  <2>1. CASE KeInitRegistry \/ KeDestroyRegistryMember \/ RegistryOutOfMemory
             \/ \E path \in Paths, left \in Leftovers : Resolve(path, left)
    <3>1. UNCHANGED registry
      BY <2>1, Zenon DEF KeInitRegistry, KeDestroyRegistryMember, RegistryOutOfMemory, Resolve, EndsIn
    <3>2. QED
      BY <1>1, <3>1
  <2>2. CASE \E g \in Groups, name \in Names :
               KeCreateRegistryGroup(g, name) \/ KeCreateRegistryKey(g, name)
    BY <1>3, <1>4, <2>2, Zenon
  <2>3. QED
    BY <1>6, <2>1, <2>2, Zenon DEF RegistryNext
<1>7. QED
  BY <1>5, <1>6

\* Paths keep their keys in every behaviour of registry.c, as long as the bytes behind
\* the names, which are compared with them, read the same (registry.c:112-132).
THEOREM KeysKeepTheirPaths == RegistrySpec => RegistryPathsKeepTheirKey
<1>1. RegistryInit => registry \in Registries
  <2>1. << >> \in Seq(Made)
    OBVIOUS
  <2>2. [groups |-> << >>, keys |-> << >>] \in Registries
    BY <2>1 DEF Registries
  <2>3. QED
    BY <2>2, Zenon DEF RegistryInit
<1>2. registry \in Registries /\ [RegistryNext]_registryVars => (registry \in Registries)'
  BY StepGrows
<1> DEFINE Keeps ==
      \A path \in Paths, left \in Leftovers :
        LET before == KeResolveRegistryPath(registry, path, left)
        IN before.end = "key" =>
             \A left2 \in Leftovers : ReadAlike(path, before, left, left2) =>
               LET after == KeResolveRegistryPath(registry', path, left2)
               IN \/ after.end = "key" /\ after.key = before.key
                  \/ /\ Len(registry'.groups) > Len(registry.groups)
                     /\ LET group == Last(registry'.groups) IN
                          /\ group.parent = before.group
                          /\ KeCompareString(group.name, registry.keys[before.key].name) = 0
<1>3. ASSUME registry \in Registries, RegistryNext, registry' # registry PROVE Keeps
  <2>1. registry' \in Registries /\ Grown(registry, registry')
    BY <1>3, StepGrows
  <2>2. ASSUME NEW path \in Paths, NEW left \in Leftovers, NEW left2 \in Leftovers,
               KeResolveRegistryPath(registry, path, left).end = "key",
               ReadAlike(path, KeResolveRegistryPath(registry, path, left), left, left2)
        PROVE  \/ KeResolveRegistryPath(registry', path, left2)
                    = KeResolveRegistryPath(registry, path, left)
               \/ Hides(registry, registry', KeResolveRegistryPath(registry, path, left))
    BY <1>3, <2>1, <2>2, PathStaysAtKey, Zenon
  <2>3. QED
    BY <2>2, Zenon DEF Hides
<1>4. QED
  BY <1>1, <1>2, <1>3, PTL DEF RegistrySpec, RegistryPathsKeepTheirKey

----------------------------------------------------------------------------
(* What comparing and finding answer *)

\* Strings that agree as far as they are compared have no differences to sum up.
LEMMA SumOfSame ==
  ASSUME NEW s \in Seq(Nat), NEW t \in Seq(Nat), NEW n \in Nat, n <= Len(s), n <= Len(t),
         \A i \in 1 .. n : s[i] = t[i]
  PROVE  SumOfDifferences(s, t, n) = 0
<1> DEFINE u == DiffsOf(s, t, n)
           P == {i \in 0 .. n : u[i] = 0}
<1>1. SumsUp(s, t, n, u)
  BY SumSteps
<1> HIDE DEF u
<1>2. /\ SumOfDifferences(s, t, n) = u[n] /\ u[0] = 0
      /\ \A i \in 1 .. n : u[i] = u[i - 1] + s[i] - t[i]
  BY <1>1, Zenon DEF SumsUp
<1>3. 0 \in P
  BY <1>2
<1>4. ASSUME NEW i \in 1 .. n, i - 1 \in P PROVE i \in P
  <2>1. u[i - 1] = 0 /\ u[i] = u[i - 1] + s[i] - t[i] /\ s[i] = t[i] /\ i \in 0 .. n
    BY <1>2, <1>4
  <2>2. s[i] \in Nat
    BY ElementOfSeq
  <2>3. u[i] = 0
    BY <2>1, <2>2
  <2>4. QED
    BY <2>1, <2>3
<1> HIDE DEF P
<1>5. \A i \in 0 .. n : i \in P
  BY <1>3, <1>4, UpTo
<1>6. u[n] = 0
  BY <1>5 DEF P
<1>7. QED
  BY <1>2, <1>6

\* Strings that differ in one character do not sum up to 0.
LEMMA OneDifferenceShows ==
  ASSUME NEW s \in Seq(Nat), NEW t \in Seq(Nat), NEW n \in Nat, n <= Len(s), n <= Len(t),
         NEW d \in 1 .. n, s[d] # t[d], \A i \in 1 .. n : i # d => s[i] = t[i]
  PROVE  SumOfDifferences(s, t, n) # 0
<1> DEFINE u == DiffsOf(s, t, n)
           P == {i \in 0 .. n : u[i] = IF i < d THEN 0 ELSE s[d] - t[d]}
<1>1. SumsUp(s, t, n, u)
  BY SumSteps
<1> HIDE DEF u
<1>2. /\ SumOfDifferences(s, t, n) = u[n] /\ u[0] = 0
      /\ \A i \in 1 .. n : u[i] = u[i - 1] + s[i] - t[i]
  BY <1>1, Zenon DEF SumsUp
<1>0. \A i \in 1 .. n : s[i] \in Nat /\ t[i] \in Nat
  <2>1. \A i \in 1 .. n : i \in 1 .. Len(s) /\ i \in 1 .. Len(t)
    OBVIOUS
  <2>2. (\A i \in 1 .. Len(s) : s[i] \in Nat) /\ \A i \in 1 .. Len(t) : t[i] \in Nat
    BY ElementOfSeq, Zenon
  <2>3. QED
    BY <2>1, <2>2, Zenon
<1>3. s[d] \in Nat /\ t[d] \in Nat /\ d \in Nat /\ d >= 1
  BY <1>0
<1>4. 0 \in P
  <2>1. 0 \in 0 .. n /\ 0 < d
    BY <1>3
  <2>2. QED
    BY <1>2, <2>1, Zenon
<1>5. ASSUME NEW i \in 1 .. n, i - 1 \in P PROVE i \in P
  <2>1. /\ u[i - 1] = IF i - 1 < d THEN 0 ELSE s[d] - t[d]
        /\ u[i] = u[i - 1] + s[i] - t[i] /\ i \in 0 .. n
    BY <1>2, <1>5
  <2>2. s[i] \in Nat /\ t[i] \in Nat
    BY <1>0, Zenon
  <2>3. CASE i = d
    <3>1. i - 1 < d /\ ~(i < d)
      BY <1>3, <2>3
    <3>2. u[i] = s[d] - t[d]
      <4>1. u[i - 1] = 0 /\ u[i] = u[i - 1] + s[d] - t[d]
        BY <2>1, <2>3, <3>1, Zenon
      <4>2. QED
        BY <1>3, <4>1
    <3>3. QED
      BY <2>1, <3>1, <3>2
  <2>4. CASE i # d
    <3>1. s[i] = t[i]
      BY <2>4
    <3>2. i - 1 < d <=> i < d
      BY <1>3, <2>4
    <3>3. u[i - 1] \in Int
      <4>1. 0 \in Int /\ s[d] - t[d] \in Int
        BY <1>3
      <4>2. QED
        BY <2>1, <4>1, Zenon
    <3>4. u[i] = u[i - 1]
      <4>1. \A a \in Int, b \in Nat : a + b - b = a
        OBVIOUS
      <4>2. QED
        BY <2>1, <2>2, <3>1, <3>3, <4>1, Zenon
    <3>5. QED
      BY <2>1, <3>2, <3>4
  <2>5. QED
    BY <2>3, <2>4
<1> HIDE DEF P
<1>6. \A i \in 0 .. n : i \in P
  BY <1>4, <1>5, UpTo
<1>7. u[n] = s[d] - t[d]
  <2>1. n \in 0 .. n /\ ~(n < d)
    BY <1>3
  <2>2. QED
    BY <1>6, <2>1 DEF P
<1>8. s[d] - t[d] # 0
  BY <1>3
<1>9. QED
  BY <1>2, <1>7, <1>8
\* Strings compare equal if they are, and only if they have one length and are not one
\* character apart (memory.c:75-89).
LEMMA CompareAnswers ==
  ASSUME NEW s \in Strings, NEW t \in Strings
  PROVE  /\ s = t => KeCompareString(s, t) = 0
         /\ KeCompareString(s, t) = 0 =>
              Len(s) = Len(t) /\ Cardinality(Differences(s, t)) # 1
<1>1. s \in Seq(Nat) /\ t \in Seq(Nat) /\ Len(s) \in Nat
  BY DEF Strings
<1>2. ASSUME s = t PROVE KeCompareString(s, t) = 0
  <2>1. Len(s) = Len(t) /\ \A i \in 1 .. Len(s) : s[i] = t[i]
    BY <1>2, Zenon
  <2>2. Len(s) <= Len(s) /\ Len(s) <= Len(t)
    BY <1>1, <2>1
  <2>3. SumOfDifferences(s, t, Len(s)) = 0
    BY <1>1, <2>1, <2>2, SumOfSame, Zenon
  <2>4. QED
    BY <2>1, <2>3, MeansEqual
<1>3. ASSUME KeCompareString(s, t) = 0, Cardinality(Differences(s, t)) = 1 PROVE FALSE
  <2>1. Len(s) = Len(t) /\ SumOfDifferences(s, t, Len(s)) = 0
    BY <1>3, EqualMeans
  <2>2. Differences(s, t) = {i \in 1 .. Len(s) : s[i] # t[i]}
    BY <1>1, <2>1 DEF Differences, Least
  <2>3. IsFiniteSet(Differences(s, t))
    <3>1. IsFiniteSet(1 .. Len(s))
      BY <1>1, FS_Interval
    <3>2. QED
      BY <2>2, <3>1, FS_Subset
  <2>4. PICK d : Differences(s, t) = {d}
    BY <1>3, <2>3, FS_Singleton
  <2>5. d \in 1 .. Len(s) /\ s[d] # t[d] /\ \A i \in 1 .. Len(s) : i # d => s[i] = t[i]
    BY <2>2, <2>4, Zenon
  <2>6. Len(s) <= Len(s) /\ Len(s) <= Len(t)
    BY <1>1, <2>1
  <2>7. SumOfDifferences(s, t, Len(s)) # 0
    BY <1>1, <2>5, <2>6, OneDifferenceShows, Zenon
  <2>8. QED
    BY <2>1, <2>7
<1>4. KeCompareString(s, t) = 0 => Len(s) = Len(t)
  BY EqualMeans
<1>5. QED
  BY <1>2, <1>3, <1>4

\* The front of a string has its entries.
LEMMA FrontEntries ==
  ASSUME NEW s \in Seq(Nat), NEW n \in Nat, n <= Len(s)
  PROVE  \A j \in 1 .. n : SubSeq(s, 1, n)[j] = s[j]
<1> SUFFICES ASSUME NEW j \in 1 .. n PROVE SubSeq(s, 1, n)[j] = s[j]
  OBVIOUS
<1>1. Len(s) \in Nat /\ 1 + j - 1 = j
  OBVIOUS
<1>2. SubSeq(s, 1, n)[j] = s[1 + j - 1]
  BY <1>1
<1>3. QED
  BY <1>1, <1>2

\* Where a string begins, the search for it stops or has stopped (memory.c:204-216).
LEMMA FindAnswers ==
  ASSUME NEW s \in Strings, NEW t \in Strings, t # << >>, NEW i \in 1 .. Len(s),
         IsPrefix(t, Rest(s, i))
  PROVE  KeFindStringString(s, t) \in 1 .. i
<1> DEFINE r == Rest(s, i)
           n == Len(t)
           hits == {j \in 1 .. Len(s) :
                      s[j] = At(t, 1) /\ KeCompareStringEx(Rest(s, j), t, Len(t)) = 0}
<1>1. s \in Seq(Nat) /\ t \in Seq(Nat) /\ Len(s) \in Nat /\ n \in Nat /\ n >= 1 /\ i \in 1 .. Len(s)
  BY EmptySeq DEF Strings
<1>2. r \in Seq(Nat) /\ Len(r) = Len(s) - i + 1 /\ \A j \in 1 .. Len(s) - i + 1 : r[j] = s[i + j - 1]
  <2>1. \A j \in i .. Len(s) : s[j] \in Nat
    BY <1>1, ElementOfSeq
  <2>2. /\ r \in Seq(Nat) /\ Len(r) = IF i <= Len(s) THEN Len(s) - i + 1 ELSE 0
        /\ \A j \in 1 .. Len(s) - i + 1 : r[j] = s[i + j - 1]
    BY <1>1, <2>1, SubSeqProperties DEF Rest
  <2>3. QED
    BY <1>1, <2>2
<1>3. n <= Len(r) /\ \A j \in 1 .. n : t[j] = r[j]
  <2>1. n <= Len(r) /\ SubSeq(t, 1, n) = SubSeq(r, 1, n)
    BY DEF IsPrefix
  <2> HIDE DEF r
  <2> HIDE DEF n
  <2>2. 1 \in 1 .. n /\ n <= Len(t) /\ n <= Len(r) /\ Len(t) \in Nat /\ Len(r) \in Nat
    BY <1>1, <1>2, <2>1 DEF n
  <2>3. \A j \in 1 .. n : SubSeq(t, 1, n)[j] = t[j]
    BY <1>1, <2>2, FrontEntries, Zenon
  <2>4. \A j \in 1 .. n : SubSeq(r, 1, n)[j] = r[j]
    BY <1>1, <1>2, <2>2, FrontEntries, Zenon
  <2>5. QED
    BY <2>1, <2>3, <2>4, Zenon
<1>4. KeCompareStringEx(r, t, n) = 0
  <2> HIDE DEF r, n
  <2>1. Least(n, Least(Len(r), Len(t))) = n
    BY <1>1, <1>2, <1>3 DEF Least, n
  <2>2. ~(n < n) /\ n <= Len(t)
    BY <1>1 DEF n
  <2>3. SumOfDifferences(r, t, n) = 0
    BY <1>1, <1>2, <1>3, <2>2, SumOfSame
  <2>4. QED
    BY <2>1, <2>2, <2>3 DEF KeCompareStringEx, Compared
<1>5. s[i] = At(t, 1)
  <2>1. 1 \in DOMAIN t /\ 1 \in 1 .. n /\ 1 \in 1 .. Len(s) - i + 1 /\ i + 1 - 1 = i
    BY <1>1
  <2>2. t[1] = r[1] /\ r[1] = s[i + 1 - 1]
    BY <1>2, <1>3, <2>1, Zenon
  <2>3. QED
    BY <2>1, <2>2 DEF At
<1>6. i \in hits
  BY <1>4, <1>5
<1>7. KeFindStringString(s, t) = Min(hits)
  BY <1>6 DEF KeFindStringString
<1>8. hits \in SUBSET Nat /\ \A j \in hits : j >= 1
  BY <1>1
<1> HIDE DEF hits
<1>9. Min(hits) \in hits /\ Min(hits) <= i
  BY <1>6, <1>8, MinIsLeast
<1>10. Min(hits) \in Nat /\ Min(hits) >= 1 /\ i \in Nat
  <2>1. Min(hits) \in Nat /\ Min(hits) >= 1
    BY <1>8, <1>9, Zenon
  <2>2. QED
    BY <1>1, <2>1
<1>11. Min(hits) \in 1 .. i
  BY <1>9, <1>10
<1>12. QED
  BY <1>7, <1>11, Zenon

\* The words of an instance are C strings.
LEMMA WordsAreStrings == Words \subseteq Strings
  BY LibraryAssumption DEF Strings, NUL

\* What the routines answer agrees with what is asked for, call after call.
LEMMA MatchesAlways ==
  ASSUME [Next]_vars, MatchesLengthAndSum
  PROVE  MatchesLengthAndSum'
<1>1. ASSUME NEW s \in Words, NEW t \in Words, Compare(s, t) PROVE MatchesLengthAndSum'
  <2>1. call' = [op |-> "compare", s |-> s, t |-> t] /\ value' = KeCompareString(s, t)
    BY <1>1 DEF Compare, RtlCompareString
  <2>2. s \in Strings /\ t \in Strings
    BY WordsAreStrings
  <2>3. call'.op = "compare" /\ call'.s = s /\ call'.t = t
    BY <2>1
  <2>4. /\ s = t => value' = 0
        /\ value' = 0 => Len(s) = Len(t) /\ Cardinality(Differences(s, t)) # 1
    BY <2>1, <2>2, CompareAnswers
  <2>5. QED
    BY <2>3, <2>4 DEF MatchesLengthAndSum
<1>2. ASSUME NEW s \in Words, NEW t \in Words, Find(s, t) PROVE MatchesLengthAndSum'
  <2>1. call' = [op |-> "find", s |-> s, t |-> t] /\ value' = KeFindStringString(s, t)
    <3>1. RtlFindStringString(s, t) = KeFindStringString(s, t)
      BY DEF RtlFindStringString, KeFindStringString, RtlCompareStringEx, KeCompareStringEx
    <3>2. QED
      BY <1>2, <3>1 DEF Find
  <2>2. s \in Strings /\ t \in Strings
    BY WordsAreStrings
  <2>3. call'.op = "find" /\ call'.s = s /\ call'.t = t
    BY <2>1
  <2>4. ASSUME t # << >>, NEW i \in 1 .. Len(s), IsPrefix(t, Rest(s, i)) PROVE value' \in 1 .. i
    BY <2>1, <2>2, <2>4, FindAnswers
  <2>5. QED
    BY <2>3, <2>4 DEF MatchesLengthAndSum
<1>3. ASSUME call'.op \notin {"compare", "find"} PROVE MatchesLengthAndSum'
  BY <1>3 DEF MatchesLengthAndSum
<1>4. ASSUME NEW e \in Extents,
             KeCopyMemory(e) \/ KeMoveMemory(e) \/ RtlCopyMemory(e) \/ RtlMoveMemory(e)
      PROVE  call'.op \notin {"compare", "find"}
  BY <1>4 DEF KeCopyMemory, KeMoveMemory, RtlCopyMemory, RtlMoveMemory
<1>5. ASSUME NEW e, NEW ends, KeCopyStringEx(e, ends) \/ KeConcatStringEx(e, ends)
      PROVE  call'.op \notin {"compare", "find"}
  BY <1>5 DEF KeCopyStringEx, KeConcatStringEx, StringCall
<1>6. ASSUME NEW val, NEW blanks, Convert(val, blanks) PROVE call'.op \notin {"compare", "find"}
  BY <1>6 DEF Convert
<1>7. ASSUME NEW n, NEW fmt, Format(n, fmt) PROVE call'.op \notin {"compare", "find"}
  BY <1>7 DEF Format
<1>8. ASSUME Return PROVE call'.op \notin {"compare", "find"}
  BY <1>8 DEF Return, NoCall
<1>9. ASSUME UNCHANGED vars PROVE MatchesLengthAndSum'
  BY <1>9 DEF vars, MatchesLengthAndSum
<1>10. QED
  BY <1>1, <1>2, <1>3, <1>4, <1>5, <1>6, <1>7, <1>8, <1>9 DEF Next, Halted

\* Of any strings, those that compare equal have one length and are not one character
\* apart, equal ones do, and one that occurs is found, not behind its first occurrence
\* (memory.c:75-89, 204-216).
THEOREM MatchesSound == Spec => []MatchesLengthAndSum
<1>1. Init => MatchesLengthAndSum
  BY DEF Init, NoCall, MatchesLengthAndSum
<1>2. QED
  BY <1>1, MatchesAlways, PTL DEF Spec

----------------------------------------------------------------------------
(* What copying leaves in memory *)

\* There are as many words of w bits as sets of w bits, so at least one.
LEMMA PowerIsPositive ==
  ASSUME NEW w \in Nat
  PROVE  2 ^ w \in Nat \ {0}
<1>1. IsFiniteSet(1 .. w) /\ Cardinality(1 .. w) = w
  BY FS_Interval
<1>2. IsFiniteSet(SUBSET (1 .. w)) /\ Cardinality(SUBSET (1 .. w)) = 2 ^ w
  BY <1>1, FS_SUBSET
<1>3. Cardinality(SUBSET (1 .. w)) \in Nat
  BY <1>2, FS_CardinalityType
<1>4. Cardinality(SUBSET (1 .. w)) # 0
  <2>1. SUBSET (1 .. w) # {}
    BY Zenon
  <2>2. QED
    BY <1>2, <2>1, FS_EmptySet, Zenon
<1>5. QED
  BY <1>2, <1>3, <1>4, Zenon

\* A remainder is not more than what is divided.
LEMMA RemainderFits ==
  ASSUME NEW x \in Nat, NEW m \in Nat \ {0}
  PROVE  x % m <= x
<1>1. CASE x < m
  <2>1. x % m \in 0 .. m - 1
    OBVIOUS
  <2>2. x % m = x
    BY <1>1
  <2>3. QED
    BY <2>2
<1>2. CASE x >= m
  BY <1>2
<1>3. QED
  BY <1>1, <1>2

\* The assertion of KeCopyMemory lets pass a destination before the source, and
\* one behind it only when the source has ended (memory.c:12).
LEMMA PassedApart ==
  ASSUME NEW dest \in Nat, NEW src \in Nat, NEW n \in Nat, ~Overlaps(dest, src, n)
  PROVE  dest - src \notin 1 .. n - 1
<1> DEFINE m == 2 ^ WordBits
<1>1. m \in Nat \ {0}
  BY PowerIsPositive, LibraryAssumption
<1>2. ASSUME dest - src \in 1 .. n - 1 PROVE FALSE
  <2>1. ~(dest - src < 0) /\ dest - src \in Nat /\ dest - src < n
    BY <1>2
  <2>2. Distance(dest, src) = (dest - src) % m
    BY <2>1, Zenon DEF Distance
  <2> HIDE DEF m
  <2> DEFINE x == dest - src
             y == x % m
  <2>3. y <= x
    BY <1>1, <2>1, RemainderFits
  <2>4. y \in Nat
    BY <1>1, <2>1
  <2>5. ~(y < n)
    BY <2>2, Zenon DEF Overlaps
  <2> HIDE DEF y
  <2>6. QED
    BY <2>1, <2>3, <2>4, <2>5
<1>3. QED
  BY <1>2

\* Of memory it is known that its cells hold numbers.
Memories == [Addresses -> Nat]

\* One cell is written.
LEMMA OneCopied ==
  ASSUME NEW m \in Memories, NEW from, NEW to
  PROVE  /\ Copied(m, from, to) \in Memories
         /\ to \in Addresses /\ from \in Addresses => Copied(m, from, to)[to] = m[from]
         /\ \A a \in Addresses : a # to => Copied(m, from, to)[a] = m[a]
<1> DEFINE v == IF from \in Addresses THEN m[from] ELSE Cells
<1>1. v \in Nat /\ (from \in Addresses => v = m[from])
  BY LibraryAssumption DEF Memories
<1>2. Copied(m, from, to) = [m EXCEPT ![to] = v]
  BY DEF Copied
<1> HIDE DEF v
<1>3. QED
  BY <1>1, <1>2 DEF Memories

\* A loop whose steps keep its state what it is does so to the end.
LEMMA StaysIn ==
  ASSUME NEW D, NEW n \in Nat, NEW u, u[0] \in D, \A i \in 1 .. n : u[i - 1] \in D => u[i] \in D
  PROVE  \A i \in 0 .. n : u[i] \in D
<1> DEFINE P == {i \in 0 .. n : u[i] \in D}
<1>1. 0 \in 0 .. n /\ \A i \in 1 .. n : i \in 0 .. n
  OBVIOUS
<1>2. 0 \in P
  BY <1>1
<1>3. ASSUME NEW i \in 1 .. n, i - 1 \in P PROVE i \in P
  BY <1>1, <1>3
<1> HIDE DEF P
<1>4. \A i \in 0 .. n : i \in P
  BY <1>2, <1>3, UpTo
<1>5. QED
  BY <1>4 DEF P

\* The states u of a copy from the first byte to the last.
Forwards(m, e, u) ==
  u = [i \in 0 .. e.n |-> IF i = 0 THEN m ELSE Copied(u[i - 1], e.src + i - 1, e.dest + i - 1)]
ForwardsOf(m, e) == CHOOSE u : Forwards(m, e, u)

CopiesUp(m, e, u) ==
  /\ ForwardIn(m, e) = u[e.n] /\ u[0] = m
  /\ \A i \in 0 .. e.n : u[i] \in Memories
  /\ \A i \in 1 .. e.n : u[i] = Copied(u[i - 1], e.src + i - 1, e.dest + i - 1)

\* A copy goes byte by byte (memory.c:11-22).
LEMMA ForwardSteps ==
  ASSUME NEW m \in Memories, NEW e, e.n \in Nat
  PROVE  CopiesUp(m, e, ForwardsOf(m, e))
<1> DEFINE n == e.n
           Step == [i \in 1 .. n |-> [d \in Memories |-> Copied(d, e.src + i - 1, e.dest + i - 1)]]
           u == ForwardsOf(m, e)
<1>1. n \in Nat /\ 0 \in 0 .. n
  OBVIOUS
<1> HIDE DEF n
<1>2. \A i \in 1 .. n : i \in 0 .. n /\ i - 1 \in 0 .. n /\ i # 0
  BY <1>1
<1>3. \A i \in 1 .. n : \A d \in Memories : Copied(d, e.src + i - 1, e.dest + i - 1) \in Memories
  BY OneCopied, Zenon
<1>4. /\ Step \in [1 .. n -> [Memories -> Memories]]
      /\ \A i \in 1 .. n : \A d \in Memories : Step[i][d] = Copied(d, e.src + i - 1, e.dest + i - 1)
  BY <1>3, Zenon
<1> HIDE DEF Step
<1>5. PICK v : v \in [0 .. n -> Memories] /\ v[0] = m /\ \A i \in 1 .. n : v[i] = Step[i][v[i - 1]]
  <2>1. \E v : IsLoop(v, Memories, m, n, Step)
    BY <1>1, <1>4, LoopExists
  <2>2. QED
    BY <2>1, Zenon DEF IsLoop
<1>6. Forwards(m, e, v)
  <2>1. \A i \in 1 .. n : v[i] = Copied(v[i - 1], e.src + i - 1, e.dest + i - 1)
    BY <1>2, <1>4, <1>5, Zenon
  <2>2. \A i \in 0 .. n : i = 0 \/ i \in 1 .. n
    BY <1>1
  <2>3. \A i \in 0 .. n :
          v[i] = IF i = 0 THEN m ELSE Copied(v[i - 1], e.src + i - 1, e.dest + i - 1)
    BY <1>2, <1>5, <2>1, <2>2, Zenon
  <2>4. v = [i \in 0 .. n |-> v[i]]
    BY <1>5, Zenon
  <2>5. [i \in 0 .. n |-> v[i]] =
        [i \in 0 .. n |-> IF i = 0 THEN m ELSE Copied(v[i - 1], e.src + i - 1, e.dest + i - 1)]
    BY <2>3, Zenon
  <2>6. QED
    BY <2>4, <2>5, Zenon DEF Forwards, n
<1>7. Forwards(m, e, u)
  BY <1>6, Zenon DEF ForwardsOf
<1>8. ForwardIn(m, e) = u[n]
  BY Zenon DEF ForwardIn, ForwardsOf, Forwards, n
<1> HIDE DEF u
<1>9. u[0] = m /\ \A i \in 1 .. n : u[i] = Copied(u[i - 1], e.src + i - 1, e.dest + i - 1)
  <2>1. u = [i \in 0 .. n |-> IF i = 0 THEN m
                              ELSE Copied(u[i - 1], e.src + i - 1, e.dest + i - 1)]
    BY <1>7, Zenon DEF Forwards, n
  <2>2. \A i \in 0 .. n :
          u[i] = IF i = 0 THEN m ELSE Copied(u[i - 1], e.src + i - 1, e.dest + i - 1)
    BY <2>1, Zenon
  <2>3. QED
    BY <1>1, <1>2, <2>2, Zenon
<1>10. \A i \in 0 .. n : u[i] \in Memories
  <2>1. \A i \in 1 .. n : u[i - 1] \in Memories => u[i] \in Memories
    BY <1>3, <1>9, Zenon
  <2>2. QED
    BY <1>1, <1>9, <2>1, StaysIn
<1>11. QED
  BY <1>8, <1>9, <1>10, Zenon DEF CopiesUp, u, n

\* Cells a .. a + n - 1 hold what those from b on held, all others what they held.
MovedTo(new, old, a, b, n) ==
  /\ new \in Memories
  /\ \A c \in Addresses : c \in a .. a + n - 1 => new[c] = old[c - a + b]
  /\ \A c \in Addresses : c \notin a .. a + n - 1 => new[c] = old[c]

\* An area, and an area in memory that as many bytes are copied to.
LEMMA ExtentParts ==
  ASSUME NEW e \in Extents
  PROVE  /\ e.dest \in Nat /\ e.src \in Nat /\ e.n \in Nat
         /\ e.dest \in Addresses /\ e.src \in Addresses
         /\ e.dest + e.n <= Cells /\ e.src + e.n <= Cells
<1>1. Cells \in Nat
  BY LibraryAssumption
<1>2. e \in [dest : Addresses, src : Addresses, n : 0 .. Cells]
  BY DEF Extents
<1>3. e.dest \in Addresses /\ e.src \in Addresses /\ e.n \in 0 .. Cells
  BY <1>2, Zenon
<1>4. e.dest + e.n <= Cells /\ e.src + e.n <= Cells
  BY Zenon DEF Extents
<1>5. QED
  BY <1>1, <1>3, <1>4 DEF Addresses

\* Copied from the first byte to the last, an area arrives whole unless it is moved up
\* by less than its length: then bytes not yet read are overwritten.
LEMMA ForwardCopies ==
  ASSUME NEW m \in Memories, NEW e \in Extents, e.dest - e.src \notin 1 .. e.n - 1
  PROVE  MovedTo(ForwardIn(m, e), m, e.dest, e.src, e.n)
<1> DEFINE n == e.n
           dest == e.dest
           src == e.src
           u == ForwardsOf(m, e)
           P == {i \in 0 .. n : MovedTo(u[i], m, dest, src, i)}
<1>1. /\ n \in Nat /\ dest \in Nat /\ src \in Nat /\ Cells \in Nat
      /\ dest + n <= Cells /\ src + n <= Cells /\ dest - src \notin 1 .. n - 1
  BY ExtentParts, LibraryAssumption
<1>2. /\ ForwardIn(m, e) = u[n] /\ u[0] = m
      /\ \A i \in 0 .. n : u[i] \in Memories
      /\ \A i \in 1 .. n : u[i] = Copied(u[i - 1], src + i - 1, dest + i - 1)
  <2>1. CopiesUp(m, e, ForwardsOf(m, e))
    BY <1>1, ForwardSteps
  <2>2. QED
    BY <2>1, Zenon DEF CopiesUp
<1> HIDE DEF u
<1>3. 0 \in P
  <2>1. 0 \in 0 .. n /\ \A c : c \notin dest .. dest + 0 - 1
    BY <1>1
  <2>2. QED
    BY <1>2, <2>1, Zenon DEF MovedTo
<1>4. ASSUME NEW i \in 1 .. n, i - 1 \in P PROVE i \in P
  <2> DEFINE from == src + i - 1
             to == dest + i - 1
             v == u[i - 1]
             w == u[i]
  <2>1. /\ from \in Addresses /\ to \in Addresses /\ i \in 0 .. n /\ i - 1 \in 0 .. n
        /\ from \notin dest .. dest + (i - 1) - 1 /\ to - dest + src = from
        /\ to \in dest .. dest + i - 1
    BY <1>1 DEF Addresses
  <2>2. /\ v \in Memories /\ w \in Memories /\ w = Copied(v, from, to)
        /\ MovedTo(v, m, dest, src, i - 1)
    BY <1>2, <1>4, <2>1, Zenon
  <2>3. \A c \in Addresses : c # to =>
          (c \in dest .. dest + i - 1 <=> c \in dest .. dest + (i - 1) - 1)
    BY <1>1 DEF Addresses
  <2> HIDE DEF from, to, v, w
  <2>4. w[to] = v[from] /\ \A c \in Addresses : c # to => w[c] = v[c]
    <3>1. /\ Copied(v, from, to)[to] = v[from]
          /\ \A c \in Addresses : c # to => Copied(v, from, to)[c] = v[c]
      BY <2>1, <2>2, OneCopied
    <3>2. QED
      BY <2>2, <3>1, Zenon
  <2>5. v[from] = m[from]
    BY <2>1, <2>2, Zenon DEF MovedTo
  <2>6. MovedTo(w, m, dest, src, i)
    <3>1. ASSUME NEW c \in Addresses, c \in dest .. dest + i - 1 PROVE w[c] = m[c - dest + src]
      <4>1. CASE c = to
        BY <2>1, <2>4, <2>5, <4>1, Zenon
      <4>2. CASE c # to
        BY <2>2, <2>3, <2>4, <3>1, <4>2, Zenon DEF MovedTo
      <4>3. QED
        BY <4>1, <4>2
    <3>2. ASSUME NEW c \in Addresses, c \notin dest .. dest + i - 1 PROVE w[c] = m[c]
      BY <2>1, <2>2, <2>3, <2>4, <3>2, Zenon DEF MovedTo
    <3>3. QED
      BY <2>2, <3>1, <3>2, Zenon DEF MovedTo
  <2>7. QED
    BY <2>1, <2>6, Zenon DEF w
<1>5. n \in 0 .. n
  BY <1>1
<1> HIDE DEF P
<1>6. \A i \in 0 .. n : i \in P
  BY <1>1, <1>3, <1>4, UpTo
<1>7. QED
  BY <1>2, <1>5, <1>6, Zenon DEF P

\* One byte of a copy from the last to the first; it may be behind the memory seen.
BackStep(m, e, k) == IF e.dest + k \in Addresses THEN Copied(m, e.src + k, e.dest + k) ELSE m

\* The states u of such a copy.
Backwards(m, e, u) ==
  u = [i \in 0 .. e.n |-> IF i = 0 THEN m ELSE BackStep(u[i - 1], e, e.n + 1 - i)]
BackwardsOf(m, e) == CHOOSE u : Backwards(m, e, u)

CopiesDown(m, e, u) ==
  /\ u[0] = m
  /\ \A i \in 0 .. e.n : u[i] \in Memories
  /\ \A i \in 1 .. e.n : u[i] = BackStep(u[i - 1], e, e.n + 1 - i)

\* Moving up goes from the byte behind the last down to the second (memory.c:24-40).
LEMMA BackwardSteps ==
  ASSUME mem \in Memories, NEW e, e.n \in Nat
  PROVE  CopiesDown(mem, e, BackwardsOf(mem, e)) /\ Backward(e) = BackwardsOf(mem, e)[e.n]
<1> DEFINE n == e.n
           Step == [i \in 1 .. n |-> [d \in Memories |-> BackStep(d, e, n + 1 - i)]]
           u == BackwardsOf(mem, e)
<1>1. n \in Nat /\ 0 \in 0 .. n
  OBVIOUS
<1> HIDE DEF n
<1>2. \A i \in 1 .. n : i \in 0 .. n /\ i - 1 \in 0 .. n /\ i # 0
  BY <1>1
<1>3. \A i \in 1 .. n : \A d \in Memories : BackStep(d, e, n + 1 - i) \in Memories
  <2>1. ASSUME NEW d \in Memories, NEW k PROVE BackStep(d, e, k) \in Memories
    <3>1. Copied(d, e.src + k, e.dest + k) \in Memories
      BY OneCopied
    <3>2. QED
      BY <3>1, Zenon DEF BackStep
  <2>2. QED
    BY <2>1, Zenon
<1>4. /\ Step \in [1 .. n -> [Memories -> Memories]]
      /\ \A i \in 1 .. n : \A d \in Memories : Step[i][d] = BackStep(d, e, n + 1 - i)
  BY <1>3, Zenon
<1> HIDE DEF Step
<1>5. PICK v : v \in [0 .. n -> Memories] /\ v[0] = mem /\ \A i \in 1 .. n : v[i] = Step[i][v[i - 1]]
  <2>1. \E v : IsLoop(v, Memories, mem, n, Step)
    BY <1>1, <1>4, LoopExists
  <2>2. QED
    BY <2>1, Zenon DEF IsLoop
<1>6. Backwards(mem, e, v)
  <2>1. \A i \in 1 .. n : v[i] = BackStep(v[i - 1], e, n + 1 - i)
    BY <1>2, <1>4, <1>5, Zenon
  <2>2. \A i \in 0 .. n : i = 0 \/ i \in 1 .. n
    BY <1>1
  <2>3. \A i \in 0 .. n : v[i] = IF i = 0 THEN mem ELSE BackStep(v[i - 1], e, n + 1 - i)
    BY <1>2, <1>5, <2>1, <2>2, Zenon
  <2>4. v = [i \in 0 .. n |-> v[i]]
    BY <1>5, Zenon
  <2>5. [i \in 0 .. n |-> v[i]] =
        [i \in 0 .. n |-> IF i = 0 THEN mem ELSE BackStep(v[i - 1], e, n + 1 - i)]
    BY <2>3, Zenon
  <2>6. QED
    BY <2>4, <2>5, Zenon DEF Backwards, n
<1>7. Backwards(mem, e, u)
  BY <1>6, Zenon DEF BackwardsOf
<1>8. Backward(e) = u[n]
  BY Zenon DEF Backward, BackwardsOf, Backwards, BackStep, n
<1> HIDE DEF u
<1>9. u[0] = mem /\ \A i \in 1 .. n : u[i] = BackStep(u[i - 1], e, n + 1 - i)
  <2>1. u = [i \in 0 .. n |-> IF i = 0 THEN mem ELSE BackStep(u[i - 1], e, n + 1 - i)]
    BY <1>7, Zenon DEF Backwards, n
  <2>2. \A i \in 0 .. n : u[i] = IF i = 0 THEN mem ELSE BackStep(u[i - 1], e, n + 1 - i)
    BY <2>1, Zenon
  <2>3. QED
    BY <1>1, <1>2, <2>2, Zenon
<1>10. \A i \in 0 .. n : u[i] \in Memories
  <2>1. \A i \in 1 .. n : u[i - 1] \in Memories => u[i] \in Memories
    BY <1>3, <1>9, Zenon
  <2>2. QED
    BY <1>1, <1>9, <2>1, StaysIn
<1>11. QED
  BY <1>8, <1>9, <1>10, Zenon DEF CopiesDown, u, n

\* Moved up, all bytes of an area but the first arrive, and the one behind it
\* (memory.c:31-38).
LEMMA BackwardCopies ==
  ASSUME mem \in Memories, NEW e \in Extents, e.src <= e.dest
  PROVE  MovedTo(Backward(e), mem, e.dest + 1, e.src + 1, e.n)
<1> DEFINE n == e.n
           dest == e.dest
           src == e.src
           u == BackwardsOf(mem, e)
           P == {i \in 0 .. n : MovedTo(u[i], mem, dest + (n - i + 1), src + (n - i + 1), i)}
<1>1. /\ n \in Nat /\ dest \in Nat /\ src \in Nat /\ Cells \in Nat
      /\ dest + n <= Cells /\ src + n <= Cells /\ src <= dest
  BY ExtentParts, LibraryAssumption
<1>2. /\ Backward(e) = u[n] /\ u[0] = mem
      /\ \A i \in 0 .. n : u[i] \in Memories
      /\ \A i \in 1 .. n : u[i] = BackStep(u[i - 1], e, n + 1 - i)
  <2>1. CopiesDown(mem, e, BackwardsOf(mem, e)) /\ Backward(e) = BackwardsOf(mem, e)[e.n]
    BY <1>1, BackwardSteps
  <2>2. QED
    BY <2>1, Zenon DEF CopiesDown
<1> HIDE DEF u
<1>3. 0 \in P
  <2>1. 0 \in 0 .. n /\ \A c : c \notin dest + (n - 0 + 1) .. dest + (n - 0 + 1) + 0 - 1
    BY <1>1
  <2>2. QED
    BY <1>2, <2>1, Zenon DEF MovedTo
<1>4. ASSUME NEW i \in 1 .. n, i - 1 \in P PROVE i \in P
  <2> DEFINE k == n + 1 - i
             from == src + k
             to == dest + k
             v == u[i - 1]
             w == u[i]
             a == dest + (n - i + 1)
             b == src + (n - i + 1)
             d == dest + (n - (i - 1) + 1)
             c0 == src + (n - (i - 1) + 1)
  <2>1. /\ i \in 0 .. n /\ i - 1 \in 0 .. n
        /\ to \in Addresses => from \in Addresses
        /\ from \notin d .. d + (i - 1) - 1 /\ to - a + b = from /\ to \in a .. a + i - 1
        /\ \A c \in Addresses : c # to => (c \in a .. a + i - 1 <=> c \in d .. d + (i - 1) - 1)
        /\ \A c \in Addresses : c - a + b = c - d + c0
    BY <1>1 DEF Addresses
  <2>2. /\ v \in Memories /\ w \in Memories /\ w = BackStep(v, e, k)
        /\ MovedTo(v, mem, d, c0, i - 1)
    BY <1>2, <1>4, <2>1, Zenon
  <2>3. /\ to \in Addresses => w = Copied(v, from, to)
        /\ to \notin Addresses => w = v
    BY <2>2, Zenon DEF BackStep
  <2> HIDE DEF k, from, to, v, w, a, b, d, c0
  <2>4. /\ to \in Addresses => w[to] = v[from]
        /\ \A c \in Addresses : c # to => w[c] = v[c]
    <3>1. /\ to \in Addresses /\ from \in Addresses => Copied(v, from, to)[to] = v[from]
          /\ \A c \in Addresses : c # to => Copied(v, from, to)[c] = v[c]
      BY <2>2, OneCopied
    <3>2. QED
      BY <2>1, <2>3, <3>1, Zenon
  <2>5. from \in Addresses => v[from] = mem[from]
    BY <2>1, <2>2, Zenon DEF MovedTo
  <2>6. MovedTo(w, mem, a, b, i)
    <3>1. ASSUME NEW c \in Addresses, c \in a .. a + i - 1 PROVE w[c] = mem[c - a + b]
      <4>1. CASE c = to
        BY <2>1, <2>4, <2>5, <4>1, Zenon
      <4>2. CASE c # to
        <5>1. w[c] = v[c] /\ c \in d .. d + (i - 1) - 1 /\ c - a + b = c - d + c0
          BY <2>1, <2>4, <3>1, <4>2, Zenon
        <5>2. v[c] = mem[c - d + c0]
          BY <2>2, <5>1, Zenon DEF MovedTo
        <5>3. QED
          BY <5>1, <5>2, Zenon
      <4>3. QED
        BY <4>1, <4>2
    <3>2. ASSUME NEW c \in Addresses, c \notin a .. a + i - 1 PROVE w[c] = mem[c]
      BY <2>1, <2>2, <2>4, <3>2, Zenon DEF MovedTo
    <3>3. QED
      BY <2>2, <3>1, <3>2, Zenon DEF MovedTo
  <2>7. QED
    BY <2>1, <2>6, Zenon DEF w, a, b
<1>5. n \in 0 .. n /\ dest + (n - n + 1) = dest + 1 /\ src + (n - n + 1) = src + 1
  BY <1>1
<1> HIDE DEF P
<1>6. \A i \in 0 .. n : i \in P
  BY <1>1, <1>3, <1>4, UpTo
<1>7. QED
  BY <1>2, <1>5, <1>6, Zenon DEF P

\* How far the copy of a string of at most n characters is.
StringCopies(n) == [mem : Memories, i : 0 .. n, state : {"copies", "ends", "stray"}]

\* One character is copied, or the NUL, or the copy leaves the memory.
CharCases(s, e, r) ==
  LET from == e.src + s.i
      to   == e.dest + s.i
  IN /\ s.state # "copies" => r = s
     /\ s.state = "copies" /\ to \in Addresses /\ (s.i < e.n => from \in Addresses) =>
          /\ s.i = e.n \/ s.mem[from] = NUL =>
               r.state = "ends" /\ r.mem = [s.mem EXCEPT ![to] = NUL]
          /\ s.i # e.n /\ s.mem[from] # NUL =>
               r.state = "copies" /\ r.i = s.i + 1 /\ r.mem = [s.mem EXCEPT ![to] = s.mem[from]]

\* A step of the copy of a string (memory.c:158-185).
LEMMA OneCharacter ==
  ASSUME NEW e, e.n \in Nat, NEW s \in StringCopies(e.n)
  PROVE  CharCopied(s, e) \in StringCopies(e.n) /\ CharCases(s, e, CharCopied(s, e))
<1> DEFINE r == CharCopied(s, e)
           from == e.src + s.i
           to == e.dest + s.i
           strays == to \notin Addresses \/ (s.i < e.n /\ from \notin Addresses)
           ends == s.i = e.n \/ s.mem[from] = NUL
           ended == [s EXCEPT !.mem[to] = NUL, !.state = "ends"]
           put == [s EXCEPT !.mem[to] = s.mem[from], !.i = @ + 1]
<1>1. r = IF s.state # "copies" THEN s
          ELSE IF strays THEN [s EXCEPT !.state = "stray"]
          ELSE IF ends THEN ended ELSE put
  BY Zenon DEF CharCopied
<1>2. /\ s.mem \in Memories /\ s.i \in 0 .. e.n /\ s.state \in {"copies", "ends", "stray"}
      /\ s = [mem |-> s.mem, i |-> s.i, state |-> s.state]
  BY DEF StringCopies
<1>3. ended = [s EXCEPT !.mem = [s.mem EXCEPT ![to] = NUL], !.state = "ends"]
  BY Zenon
<1>4. put = [s EXCEPT !.mem = [s.mem EXCEPT ![to] = s.mem[from]], !.i = s.i + 1]
  BY Zenon
<1>5. [s EXCEPT !.state = "stray"] = [mem |-> s.mem, i |-> s.i, state |-> "stray"]
  BY DEF StringCopies
<1>6. [s.mem EXCEPT ![to] = NUL] \in Memories
  BY <1>2 DEF Memories, NUL
<1>7. from \in Addresses => [s.mem EXCEPT ![to] = s.mem[from]] \in Memories
  <2> HIDE DEF to, from
  <2>1. QED
    BY <1>2 DEF Memories
<1>8. ~strays /\ ~ends => from \in Addresses /\ s.i + 1 \in 0 .. e.n
  <2> HIDE DEF from, to
  <2>1. s.i # e.n => s.i < e.n /\ s.i + 1 \in 0 .. e.n
    BY <1>2
  <2>2. QED
    BY <2>1, Zenon
<1> HIDE DEF from, to
<1> DEFINE w1 == [s.mem EXCEPT ![to] = NUL]
           w2 == [s.mem EXCEPT ![to] = s.mem[from]]
<1> HIDE DEF w1, w2
<1>9. \A w \in Memories : LET c == [s EXCEPT !.mem = w, !.state = "ends"]
                          IN c \in StringCopies(e.n) /\ c.state = "ends" /\ c.mem = w
  BY DEF StringCopies
<1>10. \A w \in Memories : \A i \in 0 .. e.n :
         LET c == [s EXCEPT !.mem = w, !.i = i]
         IN c \in StringCopies(e.n) /\ c.state = s.state /\ c.i = i /\ c.mem = w
  BY DEF StringCopies
<1>11. CASE s.state # "copies"
  <2>1. r = s
    BY <1>1, <1>11, Zenon
  <2>2. QED
    BY <1>11, <2>1, Zenon DEF CharCases
<1>12. CASE s.state = "copies" /\ strays
  <2>1. r = [mem |-> s.mem, i |-> s.i, state |-> "stray"]
    BY <1>1, <1>5, <1>12, Zenon
  <2>2. r \in StringCopies(e.n)
    BY <1>2, <2>1 DEF StringCopies
  <2>3. QED
    BY <1>12, <2>2, Zenon DEF CharCases, from, to
<1>13. CASE s.state = "copies" /\ ~strays /\ ends
  <2>1. r = [s EXCEPT !.mem = w1, !.state = "ends"]
    BY <1>1, <1>3, <1>13, Zenon DEF w1
  <2>2. r \in StringCopies(e.n) /\ r.state = "ends" /\ r.mem = w1
    BY <1>6, <1>9, <2>1, Zenon DEF w1
  <2>3. QED
    BY <1>13, <2>2, Zenon DEF CharCases, from, to, w1
<1>14. CASE s.state = "copies" /\ ~strays /\ ~ends
  <2>1. r = [s EXCEPT !.mem = w2, !.i = s.i + 1]
    BY <1>1, <1>4, <1>14, Zenon DEF w2
  <2>2. r \in StringCopies(e.n) /\ r.state = s.state /\ r.i = s.i + 1 /\ r.mem = w2
    <3>1. w2 \in Memories /\ s.i + 1 \in 0 .. e.n
      BY <1>7, <1>8, <1>14, Zenon DEF w2
    <3> DEFINE j == s.i + 1
    <3> HIDE DEF j
    <3>2. LET c == [s EXCEPT !.mem = w2, !.i = j]
          IN c \in StringCopies(e.n) /\ c.state = s.state /\ c.i = j /\ c.mem = w2
      BY <1>10, <3>1, Zenon DEF j
    <3>3. r = [s EXCEPT !.mem = w2, !.i = j]
      BY <2>1, Zenon DEF j
    <3>4. QED
      BY <3>2, <3>3, Zenon DEF j
  <2>3. QED
    BY <1>14, <2>2, Zenon DEF CharCases, from, to, w2
<1>15. QED
  BY <1>11, <1>12, <1>13, <1>14, Zenon

\* The states u of the copy of a string.
Characters(m, e, u) ==
  u = [k \in 0 .. Cells + 1 |->
         IF k = 0 THEN [mem |-> m, i |-> 0, state |-> "copies"] ELSE CharCopied(u[k - 1], e)]
CharactersOf(m, e) == CHOOSE u : Characters(m, e, u)

CopiesCharacters(m, e, u) ==
  /\ StringCopied(m, e) = u[Cells + 1] /\ u[0] = [mem |-> m, i |-> 0, state |-> "copies"]
  /\ \A k \in 0 .. Cells + 1 : u[k] \in StringCopies(e.n)
  /\ \A k \in 1 .. Cells + 1 : u[k] = CharCopied(u[k - 1], e)

\* A string is copied character by character (memory.c:158-185).
LEMMA StringSteps ==
  ASSUME NEW m \in Memories, NEW e, e.n \in Nat
  PROVE  CopiesCharacters(m, e, CharactersOf(m, e))
<1> DEFINE n == Cells + 1
           first == [mem |-> m, i |-> 0, state |-> "copies"]
           D == StringCopies(e.n)
           Step == [k \in 1 .. n |-> [d \in D |-> CharCopied(d, e)]]
           u == CharactersOf(m, e)
<1>1. n \in Nat /\ 0 \in 0 .. n /\ first \in D
  BY LibraryAssumption DEF StringCopies
<1> HIDE DEF n, first
<1>2. \A k \in 1 .. n : k \in 0 .. n /\ k - 1 \in 0 .. n /\ k # 0
  BY <1>1
<1>3. \A d \in D : CharCopied(d, e) \in D
  BY OneCharacter
<1> HIDE DEF D
<1>4. /\ Step \in [1 .. n -> [D -> D]]
      /\ \A k \in 1 .. n : \A d \in D : Step[k][d] = CharCopied(d, e)
  BY <1>3, Zenon
<1> HIDE DEF Step
<1>5. PICK v : v \in [0 .. n -> D] /\ v[0] = first /\ \A k \in 1 .. n : v[k] = Step[k][v[k - 1]]
  <2>1. \E v : IsLoop(v, D, first, n, Step)
    BY <1>1, <1>4, LoopExists
  <2>2. QED
    BY <2>1, Zenon DEF IsLoop
<1>6. Characters(m, e, v)
  <2>1. \A k \in 1 .. n : v[k] = CharCopied(v[k - 1], e)
    BY <1>2, <1>4, <1>5, Zenon
  <2>2. \A k \in 0 .. n : k = 0 \/ k \in 1 .. n
    BY <1>1
  <2>3. \A k \in 0 .. n : v[k] = IF k = 0 THEN first ELSE CharCopied(v[k - 1], e)
    BY <1>2, <1>5, <2>1, <2>2, Zenon
  <2>4. v = [k \in 0 .. n |-> v[k]]
    BY <1>5, Zenon
  <2>5. [k \in 0 .. n |-> v[k]] = [k \in 0 .. n |-> IF k = 0 THEN first ELSE CharCopied(v[k - 1], e)]
    BY <2>3, Zenon
  <2>6. QED
    BY <2>4, <2>5, Zenon DEF Characters, n, first
<1>7. Characters(m, e, u)
  BY <1>6, Zenon DEF CharactersOf
<1>8. StringCopied(m, e) = u[n]
  BY Zenon DEF StringCopied, CharactersOf, Characters, n
<1> HIDE DEF u
<1>9. u[0] = first /\ \A k \in 1 .. n : u[k] = CharCopied(u[k - 1], e)
  <2>1. u = [k \in 0 .. n |-> IF k = 0 THEN first ELSE CharCopied(u[k - 1], e)]
    BY <1>7, Zenon DEF Characters, n, first
  <2>2. \A k \in 0 .. n : u[k] = IF k = 0 THEN first ELSE CharCopied(u[k - 1], e)
    BY <2>1, Zenon
  <2>3. QED
    BY <1>1, <1>2, <2>2, Zenon
<1>10. \A k \in 0 .. n : u[k] \in D
  <2>1. \A k \in 1 .. n : u[k - 1] \in D => u[k] \in D
    BY <1>3, <1>9, Zenon
  <2>2. QED
    BY <1>1, <1>9, <2>1, StaysIn
<1>11. QED
  BY <1>8, <1>9, <1>10, Zenon DEF CopiesCharacters, u, n, first, D

\* A string ends at the first NUL from its start on, or goes on behind the memory.
LEMMA EndIsFirst ==
  ASSUME NEW m \in Memories, NEW a \in Addresses
  PROVE  /\ EndFrom(m, a) \in a .. Cells
         /\ EndFrom(m, a) \in Addresses => m[EndFrom(m, a)] = NUL
         /\ \A c \in a .. EndFrom(m, a) - 1 : m[c] # NUL
<1> DEFINE ends == {z \in Addresses : z >= a /\ m[z] = NUL}
           z == EndFrom(m, a)
<1>1. Cells \in Nat /\ a \in Nat /\ a < Cells /\ Addresses \subseteq Nat
  BY LibraryAssumption DEF Addresses
<1>2. z = IF ends = {} THEN Cells ELSE Min(ends)
  BY Zenon DEF EndFrom
<1>3. ends \in SUBSET Nat
  BY <1>1
<1>4. CASE ends = {}
  <2>1. z = Cells /\ Cells \notin Addresses
    BY <1>1, <1>2, <1>4 DEF Addresses
  <2>2. \A c \in a .. Cells - 1 : c \in Addresses /\ c >= a
    BY <1>1 DEF Addresses
  <2>3. \A c \in a .. Cells - 1 : m[c] # NUL
    BY <1>4, <2>2, Zenon
  <2>4. Cells \in a .. Cells
    BY <1>1
  <2> HIDE DEF z
  <2>5. QED
    BY <2>1, <2>3, <2>4, Zenon DEF z
<1>5. CASE ends # {}
  <2>1. z = Min(ends) /\ z \in ends /\ \A k \in ends : z <= k
    BY <1>2, <1>3, <1>5, MinIsLeast, Zenon
  <2>2. z \in Addresses /\ z >= a /\ m[z] = NUL
    BY <2>1, Zenon
  <2> HIDE DEF z
  <2>3. z \in a .. Cells
    BY <1>1, <2>2 DEF Addresses
  <2>4. \A c \in a .. z - 1 : c \in Addresses /\ c >= a /\ ~(z <= c)
    BY <1>1, <2>2, <2>3 DEF Addresses
  <2>5. \A c \in a .. z - 1 : m[c] # NUL
    BY <2>1, <2>4, Zenon
  <2>6. QED
    BY <2>2, <2>3, <2>5, Zenon DEF z
<1>6. QED
  BY <1>4, <1>5

\* The string of len characters at b, and a NUL, have been copied to a, all else is
\* as it was.
StringAt(new, old, a, b, len) ==
  new = [c \in Addresses |-> IF c \in a .. a + len - 1 THEN old[c - a + b]
                             ELSE IF c = a + len THEN NUL ELSE old[c]]

\* What the length of the copied string and the places of it and the copy have to be.
HasRoom(m, e, len) ==
  /\ e.dest \in Nat /\ e.src \in Addresses /\ e.n \in Nat /\ len \in 0 .. e.n
  /\ \A c \in e.src .. e.src + len - 1 : c \in Addresses /\ m[c] # NUL
  /\ len = e.n \/ (e.src + len \in Addresses /\ m[e.src + len] = NUL)
  /\ e.dest \notin e.src + 1 .. e.src + len /\ e.dest + len \in Addresses

\* A string that is shorter than the limit ends at its NUL, any other at the limit.
LEMMA LengthHasRoom ==
  ASSUME NEW m \in Memories, NEW e, e.dest \in Nat, e.src \in Addresses, e.n \in Nat,
         NEW len, len = Least(e.n, EndFrom(m, e.src) - e.src),
         e.src + len < Cells \/ (len = e.n /\ e.src + len = Cells),
         e.dest \notin e.src + 1 .. e.src + len, e.dest + len < Cells
  PROVE  HasRoom(m, e, len)
<1> DEFINE z == EndFrom(m, e.src)
           src == e.src
           n == e.n
           dest == e.dest
<1>1. Cells \in Nat /\ src \in Nat /\ src < Cells /\ n \in Nat /\ dest \in Nat
  BY LibraryAssumption DEF Addresses
<1>2. /\ z \in src .. Cells /\ (z \in Addresses => m[z] = NUL)
      /\ \A c \in src .. z - 1 : m[c] # NUL
  BY EndIsFirst
<1> HIDE DEF z, src, n, dest
<1>3. len = Least(n, z - src)
  BY Zenon DEF z, src, n
<1>4. len \in 0 .. n /\ len <= z - src /\ (len = n \/ len = z - src)
  BY <1>1, <1>2, <1>3 DEF Least
<1>5. src + len < Cells \/ (len = n /\ src + len = Cells)
  BY Zenon DEF src, n
<1>6. \A c \in src .. src + len - 1 : c \in Addresses /\ c \in src .. z - 1
  BY <1>1, <1>2, <1>4 DEF Addresses
<1>7. len = n \/ (src + len = z /\ z \in Addresses)
  <2>1. len # n => src + len = z /\ z < Cells
    BY <1>1, <1>2, <1>4, <1>5
  <2>2. z < Cells => z \in Addresses
    BY <1>1, <1>2 DEF Addresses
  <2>3. QED
    BY <2>1, <2>2, Zenon
<1>8. dest + len \in Addresses
  <2>1. dest + len < Cells
    BY Zenon DEF dest
  <2>2. QED
    BY <1>1, <1>4, <2>1 DEF Addresses
<1>9. \A c \in src .. src + len - 1 : c \in Addresses /\ m[c] # NUL
  BY <1>2, <1>6, Zenon
<1>10. len = n \/ (src + len \in Addresses /\ m[src + len] = NUL)
  BY <1>2, <1>7, Zenon
<1>11. QED
  BY <1>4, <1>8, <1>9, <1>10, Zenon DEF HasRoom, src, n, dest

\* A string that has room arrives with its NUL, and nothing else is changed
\* (memory.c:158-185).
LEMMA StringArrives ==
  ASSUME NEW m \in Memories, NEW e, NEW len, HasRoom(m, e, len)
  PROVE  /\ StringCopied(m, e).state = "ends"
         /\ StringAt(StringCopied(m, e).mem, m, e.dest, e.src, len)
<1> DEFINE n == e.n
           dest == e.dest
           src == e.src
           u == CharactersOf(m, e)
           Going(s, k) == s.state = "copies" /\ s.i = k /\ MovedTo(s.mem, m, dest, src, k)
           Done(s) == s.state = "ends" /\ StringAt(s.mem, m, dest, src, len)
           P == {k \in 0 .. Cells + 1 : (k <= len => Going(u[k], k)) /\ (len < k => Done(u[k]))}
<1>1. /\ dest \in Nat /\ src \in Addresses /\ n \in Nat /\ len \in 0 .. n
      /\ \A c \in src .. src + len - 1 : c \in Addresses /\ m[c] # NUL
      /\ len = n \/ (src + len \in Addresses /\ m[src + len] = NUL)
      /\ dest \notin src + 1 .. src + len /\ dest + len \in Addresses
  BY Zenon DEF HasRoom
<1>2. /\ dest \in Nat /\ src \in Nat /\ n \in Nat /\ len \in Nat /\ Cells \in Nat
      /\ src < Cells /\ len <= n /\ dest + len < Cells
  BY <1>1, LibraryAssumption DEF Addresses
<1>3. /\ StringCopied(m, e) = u[Cells + 1] /\ u[0] = [mem |-> m, i |-> 0, state |-> "copies"]
      /\ \A k \in 0 .. Cells + 1 : u[k] \in StringCopies(n)
      /\ \A k \in 1 .. Cells + 1 : u[k] = CharCopied(u[k - 1], e)
  <2>1. CopiesCharacters(m, e, CharactersOf(m, e))
    BY <1>2, StringSteps
  <2>2. QED
    BY <2>1, Zenon DEF CopiesCharacters
<1> HIDE DEF u
<1>4. \A k \in 1 .. Cells + 1 : k - 1 \in 0 .. Cells + 1 /\ k \in 0 .. Cells + 1
  BY <1>2
<1>5. \A k \in 1 .. Cells + 1 : CharCases(u[k - 1], e, u[k])
  BY <1>2, <1>3, <1>4, OneCharacter
<1>6. 0 \in P
  <2>1. u[0].state = "copies" /\ u[0].i = 0 /\ u[0].mem = m
    BY <1>3
  <2>2. MovedTo(m, m, dest, src, 0)
    <3>1. \A c : c \notin dest .. dest + 0 - 1
      BY <1>2
    <3>2. QED
      BY <3>1, Zenon DEF MovedTo
  <2>3. 0 \in 0 .. Cells + 1 /\ ~(len < 0)
    BY <1>2
  <2>4. QED
    BY <2>1, <2>2, <2>3, Zenon
<1>7. ASSUME NEW k \in 1 .. Cells + 1, k - 1 \in P PROVE k \in P
  <2> DEFINE j == k - 1
             from == src + j
             to == dest + j
             s == u[j]
             w == u[k]
  <2>1. /\ j \in Nat /\ k = j + 1 /\ k \in 0 .. Cells + 1 /\ j \in 0 .. Cells + 1
        /\ (k <= len <=> j < len) /\ (len < k <=> j = len \/ len < j)
    BY <1>2
  <2>2. CharCases(s, e, w) /\ s \in StringCopies(n) /\ w \in StringCopies(n)
    BY <1>3, <1>5, <2>1, Zenon
  <2>3. (j <= len => Going(s, j)) /\ (len < j => Done(s))
    BY <1>7, Zenon
  <2> HIDE DEF s, w
  <2>4. ASSUME j < len PROVE Going(w, k)
    <3>1. /\ from \in src .. src + len - 1 /\ to \in Addresses /\ j # n /\ j <= len
          /\ from \notin dest .. dest + j - 1 /\ to - dest + src = from
          /\ to \in dest .. dest + k - 1
          /\ \A c \in Addresses : c # to => (c \in dest .. dest + k - 1 <=> c \in dest .. dest + j - 1)
      <4>1. /\ from \in src .. src + len - 1 /\ to \in Addresses /\ j # n /\ j <= len
            /\ to \in dest .. dest + k - 1 /\ to - dest + src = from
        BY <1>2, <2>1, <2>4 DEF Addresses
      <4>2. from \notin dest .. dest + j - 1
        BY <1>1, <1>2, <2>1, <2>4
      <4>3. \A c \in Addresses : c # to => (c \in dest .. dest + k - 1 <=> c \in dest .. dest + j - 1)
        BY <1>2, <2>1 DEF Addresses
      <4>4. QED
        BY <4>1, <4>2, <4>3, Zenon
    <3>2. from \in Addresses /\ m[from] # NUL
      BY <1>1, <3>1, Zenon
    <3>3. s.state = "copies" /\ s.i = j /\ MovedTo(s.mem, m, dest, src, j)
      BY <2>3, <3>1, Zenon
    <3>4. s.mem[from] = m[from]
      BY <3>1, <3>2, <3>3, Zenon DEF MovedTo
    <3>5. w.state = "copies" /\ w.i = s.i + 1 /\ w.mem = [s.mem EXCEPT ![to] = s.mem[from]]
      BY <2>2, <3>1, <3>2, <3>3, <3>4, Zenon DEF CharCases
    <3> HIDE DEF from, to
    <3>6. s.mem \in Memories /\ w.mem \in Memories
      BY <2>2 DEF StringCopies
    <3>7. w.mem[to] = m[from] /\ \A c \in Addresses : c # to => w.mem[c] = s.mem[c]
      BY <3>1, <3>4, <3>5, <3>6 DEF Memories
    <3>8. ASSUME NEW c \in Addresses, c \in dest .. dest + k - 1 PROVE w.mem[c] = m[c - dest + src]
      <4>1. CASE c = to
        BY <3>1, <3>7, <4>1, Zenon
      <4>2. CASE c # to
        BY <3>1, <3>3, <3>7, <3>8, <4>2, Zenon DEF MovedTo
      <4>3. QED
        BY <4>1, <4>2
    <3>9. ASSUME NEW c \in Addresses, c \notin dest .. dest + k - 1 PROVE w.mem[c] = m[c]
      BY <3>1, <3>3, <3>7, <3>9, Zenon DEF MovedTo
    <3>10. MovedTo(w.mem, m, dest, src, k)
      BY <3>6, <3>8, <3>9, Zenon DEF MovedTo
    <3>11. QED
      BY <2>1, <3>3, <3>5, <3>10, Zenon
  <2>5. ASSUME j = len PROVE Done(w)
    <3>1. j <= len /\ to \in Addresses /\ (j < n => j # n)
          /\ src + j \notin dest .. dest + j - 1 /\ to \notin dest .. dest + j - 1
      BY <1>1, <1>2, <2>1, <2>5
    <3>2. s.state = "copies" /\ s.i = j /\ MovedTo(s.mem, m, dest, src, j)
      BY <2>3, <3>1, Zenon
    <3>3. j = n \/ (from \in Addresses /\ s.mem[from] = NUL)
      BY <1>1, <2>5, <3>1, <3>2, Zenon DEF MovedTo
    <3>4. w.state = "ends" /\ w.mem = [s.mem EXCEPT ![to] = NUL]
      BY <2>2, <3>1, <3>2, <3>3, Zenon DEF CharCases
    <3> HIDE DEF from, to
    <3>5. s.mem \in Memories /\ w.mem \in Memories
      BY <2>2 DEF StringCopies
    <3>6. w.mem[to] = NUL /\ \A c \in Addresses : c # to => w.mem[c] = s.mem[c]
      BY <3>1, <3>4, <3>5 DEF Memories
    <3>7. \A c \in Addresses :
            w.mem[c] = IF c \in dest .. dest + len - 1 THEN m[c - dest + src]
                       ELSE IF c = dest + len THEN NUL ELSE m[c]
      <4>1. to = dest + len /\ dest + j - 1 = dest + len - 1
        BY <2>5, Zenon DEF to
      <4>2. QED
        BY <2>5, <3>1, <3>2, <3>6, <4>1, Zenon DEF MovedTo
    <3>8. w.mem = [c \in Addresses |-> w.mem[c]]
      BY <3>5, Zenon DEF Memories
    <3>9. [c \in Addresses |-> w.mem[c]] =
          [c \in Addresses |-> IF c \in dest .. dest + len - 1 THEN m[c - dest + src]
                               ELSE IF c = dest + len THEN NUL ELSE m[c]]
      BY <3>7, Zenon
    <3>10. QED
      BY <3>4, <3>8, <3>9, Zenon DEF StringAt
  <2>6. ASSUME len < j PROVE Done(w)
    <3>1. Done(s)
      BY <2>3, <2>6, Zenon
    <3>2. s.state # "copies"
      BY <3>1
    <3>3. w = s
      BY <2>2, <3>2, Zenon DEF CharCases
    <3>4. QED
      BY <3>1, <3>3, Zenon
  <2> HIDE DEF j, Going, Done
  <2>7. QED
    BY <2>1, <2>4, <2>5, <2>6, Zenon DEF w
<1>8. Cells + 1 \in 0 .. Cells + 1 /\ len < Cells + 1
  BY <1>2
<1> HIDE DEF P
<1>9. \A k \in 0 .. Cells + 1 : k \in P
  <2> HIDE DEF Going, Done
  <2>1. Cells + 1 \in Nat
    BY <1>2
  <2>2. QED
    BY <1>6, <1>7, <2>1, UpTo
<1>10. Done(u[Cells + 1])
  BY <1>8, <1>9, Zenon DEF P
<1>11. QED
  BY <1>3, <1>10, Zenon

\* Before a call memory holds numbers, with strings in it or not.
LEMMA MemoriesBefore ==
  /\ Fresh \in Memories /\ \A a \in Addresses : Fresh[a] = a
  /\ \A ends : WithNULs(ends) \in Memories
<1>1. \A a \in Addresses : a \in Nat /\ a + 1 \in Nat
  BY LibraryAssumption DEF Addresses
<1>2. NUL \in Nat
  BY DEF NUL
<1>3. QED
  BY <1>1, <1>2 DEF Memories, Fresh, WithNULs

\* What has moved is found byte by byte.
LEMMA ByteByByte ==
  ASSUME NEW new, NEW old, NEW a \in Nat, NEW b \in Nat, NEW n \in Nat, MovedTo(new, old, a, b, n)
  PROVE  \A i \in 0 .. n - 1 : a + i \in Addresses => new[a + i] = old[b + i]
<1> SUFFICES ASSUME NEW i \in 0 .. n - 1, a + i \in Addresses PROVE new[a + i] = old[b + i]
  OBVIOUS
<1> DEFINE c == a + i
<1>1. c \in a .. a + n - 1 /\ c - a + b = b + i /\ c \in Addresses
  OBVIOUS
<1> HIDE DEF c
<1>2. new[c] = old[c - a + b]
  BY <1>1, Zenon DEF MovedTo
<1>3. QED
  BY <1>1, <1>2, Zenon DEF c

\* An area in memory is in it byte by byte.
LEMMA ExtentBytes ==
  ASSUME NEW e \in Extents
  PROVE  \A i \in 0 .. e.n - 1 : e.dest + i \in Addresses /\ e.src + i \in Addresses
<1> DEFINE dest == e.dest
           src == e.src
           n == e.n
<1>1. dest \in Nat /\ src \in Nat /\ n \in Nat /\ dest + n <= Cells /\ src + n <= Cells
  BY ExtentParts, Zenon
<1>2. Cells \in Nat
  BY LibraryAssumption, Zenon
<1> HIDE DEF dest, src, n
<1>3. \A i \in 0 .. n - 1 : dest + i \in 0 .. Cells - 1 /\ src + i \in 0 .. Cells - 1
  BY <1>1, <1>2
<1>4. QED
  BY <1>3, Zenon DEF Addresses, dest, src, n

\* A copy of an area, with the assertion or without.
LEMMA AreaCopied ==
  ASSUME mem = Fresh, NEW e \in Extents, e.dest - e.src \notin 1 .. e.n - 1
  PROVE  \A i \in 0 .. e.n - 1 : Forward(e)[e.dest + i] = Fresh[e.src + i]
<1>1. MovedTo(ForwardIn(Fresh, e), Fresh, e.dest, e.src, e.n)
  BY MemoriesBefore, ForwardCopies
<1>2. e.dest \in Nat /\ e.src \in Nat /\ e.n \in Nat
  BY ExtentParts, Zenon
<1>3. \A i \in 0 .. e.n - 1 : e.dest + i \in Addresses => ForwardIn(Fresh, e)[e.dest + i] = Fresh[e.src + i]
  <2> DEFINE new == ForwardIn(Fresh, e)
             dest == e.dest
             src == e.src
             n == e.n
  <2>1. MovedTo(new, Fresh, dest, src, n) /\ dest \in Nat /\ src \in Nat /\ n \in Nat
    BY <1>1, <1>2, Zenon
  <2> HIDE DEF new, dest, src, n
  <2>2. \A i \in 0 .. n - 1 : dest + i \in Addresses => new[dest + i] = Fresh[src + i]
    BY <2>1, ByteByByte
  <2>3. QED
    BY <2>2, Zenon DEF new, dest, src, n
<1>4. Forward(e) = ForwardIn(Fresh, e)
  BY Zenon DEF Forward
<1>5. QED
  BY <1>3, <1>4, ExtentBytes, Zenon

\* A move of an area, down or up.
LEMMA AreaMoved ==
  ASSUME mem = Fresh, NEW e \in Extents, NEW new,
         new = IF e.dest < e.src THEN Forward(e) ELSE Backward(e)
  PROVE  /\ \A i \in 1 .. e.n - 1 : new[e.dest + i] = Fresh[e.src + i]
         /\ e.dest < e.src =>
              \A a \in Addresses :
                new[a] = IF a \in e.dest .. e.dest + e.n - 1 THEN Fresh[a - e.dest + e.src] ELSE a
<1>1. e.dest \in Nat /\ e.src \in Nat /\ e.n \in Nat
  BY ExtentParts, Zenon
<1>2. \A i \in 1 .. e.n - 1 : i \in 0 .. e.n - 1 /\ i - 1 \in 0 .. e.n - 1
  BY <1>1
<1>3. CASE e.dest < e.src
  <2>1. e.dest - e.src \notin 1 .. e.n - 1
    BY <1>1, <1>3
  <2>2. new = Forward(e) /\ Forward(e) = ForwardIn(Fresh, e)
    BY <1>3, Zenon DEF Forward
  <2>3. \A i \in 0 .. e.n - 1 : Forward(e)[e.dest + i] = Fresh[e.src + i]
    BY <2>1, AreaCopied
  <2>4. MovedTo(ForwardIn(Fresh, e), Fresh, e.dest, e.src, e.n)
    BY <2>1, MemoriesBefore, ForwardCopies
  <2>5. \A a \in Addresses :
          new[a] = IF a \in e.dest .. e.dest + e.n - 1 THEN Fresh[a - e.dest + e.src] ELSE a
    BY <2>2, <2>4, MemoriesBefore, Zenon DEF MovedTo
  <2>6. QED
    BY <1>2, <2>2, <2>3, <2>5, Zenon
<1>4. CASE ~(e.dest < e.src)
  <2>1. e.src <= e.dest
    BY <1>1, <1>4
  <2>2. new = Backward(e)
    BY <1>4, Zenon
  <2>3. MovedTo(Backward(e), Fresh, e.dest + 1, e.src + 1, e.n)
    <3>1. mem \in Memories
      BY MemoriesBefore, Zenon
    <3>2. MovedTo(Backward(e), mem, e.dest + 1, e.src + 1, e.n)
      BY <2>1, <3>1, BackwardCopies
    <3>3. QED
      BY <3>2, Zenon
  <2>4. \A i \in 0 .. e.n - 1 : e.dest + 1 + i \in Addresses =>
          Backward(e)[e.dest + 1 + i] = Fresh[e.src + 1 + i]
    <3>1. e.dest + 1 \in Nat /\ e.src + 1 \in Nat
      BY <1>1
    <3> DEFINE a == e.dest + 1
               b == e.src + 1
    <3> HIDE DEF a, b
    <3>2. a \in Nat /\ b \in Nat /\ MovedTo(Backward(e), Fresh, a, b, e.n)
      BY <2>3, <3>1, Zenon DEF a, b
    <3>3. \A i \in 0 .. e.n - 1 : a + i \in Addresses => Backward(e)[a + i] = Fresh[b + i]
      BY <1>1, <3>2, ByteByByte
    <3>4. QED
      BY <3>3, Zenon DEF a, b
  <2>5. \A i \in 1 .. e.n - 1 : Backward(e)[e.dest + i] = Fresh[e.src + i]
    <3>1. TAKE i \in 1 .. e.n - 1
    <3>2. /\ i - 1 \in 0 .. e.n - 1 /\ e.dest + 1 + (i - 1) = e.dest + i
          /\ e.src + 1 + (i - 1) = e.src + i
      BY <1>1
    <3>3. e.dest + i \in Addresses
      BY <1>2, ExtentBytes, Zenon
    <3>4. QED
      BY <2>4, <3>2, <3>3, Zenon
  <2>6. QED
    BY <1>4, <2>2, <2>5, Zenon
<1>5. QED
  BY <1>3, <1>4

\* CopiesStrings of a call with operation op that left s as its state and new in memory.
StringsArrive(op, ends, e, s, new) ==
  LET before == WithNULs(ends)
      dest == IF op = "strcpy" THEN e.dest ELSE EndFrom(before, e.dest)
      len  == Least(e.n, EndFrom(before, e.src) - e.src)
  IN /\ e.src + len < Cells \/ (len = e.n /\ e.src + len = Cells)
     /\ dest \notin e.src + 1 .. e.src + len /\ dest + len < Cells
     => s = "ends" /\ StringAt(new, before, dest, e.src, len)

\* A call that copies or appends a string (memory.c:158-202).
LEMMA StringCalled ==
  ASSUME NEW op \in {"strcpy", "strcat"}, NEW e \in StringExtents, NEW ends \in Ends, NEW f,
         f.src = e.src, f.n = e.n,
         f.dest = IF op = "strcpy" THEN e.dest ELSE EndFrom(WithNULs(ends), e.dest),
         StringCall(op, e, ends, StringCopied(WithNULs(ends), f))
  PROVE  CopiesStrings'
<1> DEFINE before == WithNULs(ends)
           done == StringCopied(before, f)
           dest == f.dest
           len == Least(e.n, EndFrom(before, e.src) - e.src)
<1>1. /\ call' = [op |-> op, e |-> e, ends |-> ends, state |-> done.state]
      /\ mem' = done.mem
  BY Zenon DEF StringCall
<1>2. call'.op = op /\ call'.e = e /\ call'.ends = ends /\ call'.state = done.state
  BY <1>1
<1>3. before \in Memories
  BY MemoriesBefore
<1>4. e.dest \in Addresses /\ e.src \in Addresses /\ e.n \in Nat /\ e.dest \in Nat
  <2>1. e \in [dest : Addresses, src : Addresses, n : {0, 1, 2, Cells}]
    BY Zenon DEF StringExtents
  <2>2. e.dest \in Addresses /\ e.src \in Addresses /\ e.n \in {0, 1, 2, Cells}
    BY <2>1, Zenon
  <2>3. QED
    BY <2>2, LibraryAssumption DEF Addresses
<1>5. f.dest \in Nat /\ f.src \in Addresses /\ f.n \in Nat
  <2>1. EndFrom(before, e.dest) \in Nat
    <3>1. EndFrom(before, e.dest) \in e.dest .. Cells
      BY <1>3, <1>4, EndIsFirst
    <3>2. QED
      BY <1>4, <3>1
  <2>2. QED
    BY <1>4, <2>1, Zenon
<1> HIDE DEF before, done, len
<1>6. ASSUME e.src + len < Cells \/ (len = e.n /\ e.src + len = Cells),
             dest \notin e.src + 1 .. e.src + len, dest + len < Cells
      PROVE  done.state = "ends" /\ StringAt(done.mem, before, dest, e.src, len)
  <2>1. len = Least(f.n, EndFrom(before, f.src) - f.src)
    BY Zenon DEF len
  <2>2. /\ f.src + len < Cells \/ (len = f.n /\ f.src + len = Cells)
        /\ f.dest \notin f.src + 1 .. f.src + len /\ f.dest + len < Cells
    BY <1>6, Zenon
  <2>3. HasRoom(before, f, len)
    BY <1>3, <1>5, <2>1, <2>2, LengthHasRoom, Zenon
  <2>4. /\ StringCopied(before, f).state = "ends"
        /\ StringAt(StringCopied(before, f).mem, before, f.dest, f.src, len)
    BY <1>3, <2>3, StringArrives, Zenon
  <2>5. QED
    BY <2>4, Zenon DEF done
<1>7. StringsArrive(op, ends, e, done.state, mem')
  BY <1>1, <1>6, Zenon DEF StringsArrive, before, len
<1>8. StringsArrive(call'.op, call'.ends, call'.e, call'.state, mem')
  BY <1>2, <1>7, Zenon
<1>9. QED
  BY <1>8, Zenon DEF CopiesStrings, StringsArrive, StringAt

\* Memory is as it was between two calls, and the routines have kept what they copied.
CopyInv == (call = NoCall => mem = Fresh) /\ CopiesKeepTheBytes

\* Of any other call nothing is asked.
LEMMA OtherCalls ==
  ASSUME call'.op \notin {"copy", "rtlcopy", "move", "strcpy", "strcat"}
  PROVE  CopiesKeepTheBytes'
  BY DEF CopiesKeepTheBytes, CopiesForward, MovesAllButTheFirst, CopiesStrings

\* The routines that copy, one by one.
LEMMA CopiesAlways ==
  ASSUME [Next]_vars, CopyInv
  PROVE  CopyInv'
<1>1. ASSUME NEW e \in Extents, KeCopyMemory(e), mem = Fresh PROVE CopyInv'
  <2>1. call' = [op |-> "copy", e |-> e]
    BY <1>1, Zenon DEF KeCopyMemory
  <2>2. call' # NoCall /\ call'.op = "copy" /\ call'.e = e
    BY <2>1 DEF NoCall
  <2>3. ASSUME ~panicked' PROVE \A i \in 0 .. e.n - 1 : mem'[e.dest + i] = Fresh[e.src + i]
    <3>1. ~Overlaps(e.dest, e.src, e.n) /\ mem' = Forward(e)
      BY <1>1, <2>3, Zenon DEF KeCopyMemory
    <3>2. e.dest - e.src \notin 1 .. e.n - 1
      BY <3>1, ExtentParts, PassedApart
    <3>3. \A i \in 0 .. e.n - 1 : Forward(e)[e.dest + i] = Fresh[e.src + i]
      BY <1>1, <3>2, AreaCopied
    <3>4. QED
      BY <3>1, <3>3, Zenon
  <2>4. CopiesForward'
    BY <2>2, <2>3 DEF CopiesForward
  <2>5. MovesAllButTheFirst' /\ CopiesStrings'
    BY <2>2 DEF MovesAllButTheFirst, CopiesStrings
  <2>6. QED
    BY <2>2, <2>4, <2>5 DEF CopyInv, CopiesKeepTheBytes
<1>2. ASSUME NEW e \in Extents, RtlCopyMemory(e), mem = Fresh PROVE CopyInv'
  <2>1. call' = [op |-> "rtlcopy", e |-> e] /\ mem' = Forward(e)
    BY <1>2, Zenon DEF RtlCopyMemory
  <2>2. call' # NoCall /\ call'.op = "rtlcopy" /\ call'.e = e
    BY <2>1 DEF NoCall
  <2>3. ASSUME e.dest - e.src \notin 1 .. e.n - 1
        PROVE  \A i \in 0 .. e.n - 1 : mem'[e.dest + i] = Fresh[e.src + i]
    <3>1. \A i \in 0 .. e.n - 1 : Forward(e)[e.dest + i] = Fresh[e.src + i]
      BY <1>2, <2>3, AreaCopied
    <3>2. QED
      BY <2>1, <3>1, Zenon
  <2>4. CopiesForward'
    BY <2>2, <2>3 DEF CopiesForward
  <2>5. MovesAllButTheFirst' /\ CopiesStrings'
    BY <2>2 DEF MovesAllButTheFirst, CopiesStrings
  <2>6. QED
    BY <2>2, <2>4, <2>5 DEF CopyInv, CopiesKeepTheBytes
<1>3. ASSUME NEW e \in Extents, KeMoveMemory(e) \/ RtlMoveMemory(e), mem = Fresh PROVE CopyInv'
  <2>1. /\ call' = [op |-> "move", e |-> e]
        /\ mem' = IF e.dest < e.src THEN Forward(e) ELSE Backward(e)
    BY <1>3, Zenon DEF KeMoveMemory, RtlMoveMemory
  <2>2. call' # NoCall /\ call'.op = "move" /\ call'.e = e
    BY <2>1 DEF NoCall
  <2>3. /\ \A i \in 1 .. e.n - 1 : mem'[e.dest + i] = Fresh[e.src + i]
        /\ e.dest < e.src =>
             \A a \in Addresses :
               mem'[a] = IF a \in e.dest .. e.dest + e.n - 1 THEN Fresh[a - e.dest + e.src] ELSE a
    BY <1>3, <2>1, AreaMoved
  <2>4. MovesAllButTheFirst'
    BY <2>2, <2>3, Zenon DEF MovesAllButTheFirst
  <2>5. CopiesForward' /\ CopiesStrings'
    BY <2>2 DEF CopiesForward, CopiesStrings
  <2>6. QED
    BY <2>2, <2>4, <2>5 DEF CopyInv, CopiesKeepTheBytes
<1>4. ASSUME NEW e \in StringExtents, NEW ends \in Ends, KeCopyStringEx(e, ends) PROVE CopyInv'
  <2>1. StringCall("strcpy", e, ends, StringCopied(WithNULs(ends), e))
    BY <1>4, Zenon DEF KeCopyStringEx
  <2>2. call' # NoCall /\ call'.op = "strcpy"
    BY <2>1 DEF StringCall, NoCall
  <2>3. CopiesStrings'
    BY <2>1, StringCalled
  <2>4. CopiesForward' /\ MovesAllButTheFirst'
    BY <2>2 DEF CopiesForward, MovesAllButTheFirst
  <2>5. QED
    BY <2>2, <2>3, <2>4 DEF CopyInv, CopiesKeepTheBytes
<1>5. ASSUME NEW e \in StringExtents, NEW ends \in Ends, KeConcatStringEx(e, ends) PROVE CopyInv'
  <2> DEFINE f == [e EXCEPT !.dest = EndFrom(WithNULs(ends), e.dest)]
  <2>1. StringCall("strcat", e, ends, StringCopied(WithNULs(ends), f))
    BY <1>5, Zenon DEF KeConcatStringEx
  <2>2. call' # NoCall /\ call'.op = "strcat"
    BY <2>1 DEF StringCall, NoCall
  <2>3. f.src = e.src /\ f.n = e.n /\ f.dest = EndFrom(WithNULs(ends), e.dest)
    BY DEF StringExtents
  <2> HIDE DEF f
  <2>4. CopiesStrings'
    BY <2>1, <2>3, StringCalled
  <2>5. CopiesForward' /\ MovesAllButTheFirst'
    BY <2>2 DEF CopiesForward, MovesAllButTheFirst
  <2>6. QED
    BY <2>2, <2>4, <2>5 DEF CopyInv, CopiesKeepTheBytes
<1>6. ASSUME NEW s, NEW t, Compare(s, t) \/ Find(s, t) PROVE CopyInv'
  <2>1. call' # NoCall /\ call'.op \notin {"copy", "rtlcopy", "move", "strcpy", "strcat"}
    BY <1>6 DEF Compare, Find, NoCall
  <2>2. QED
    BY <2>1, OtherCalls DEF CopyInv
<1>7. ASSUME NEW val, NEW blanks, Convert(val, blanks) PROVE CopyInv'
  <2>1. call' # NoCall /\ call'.op \notin {"copy", "rtlcopy", "move", "strcpy", "strcat"}
    BY <1>7 DEF Convert, NoCall
  <2>2. QED
    BY <2>1, OtherCalls DEF CopyInv
<1>8. ASSUME NEW n, NEW fmt, Format(n, fmt) PROVE CopyInv'
  <2>1. call' # NoCall /\ call'.op \notin {"copy", "rtlcopy", "move", "strcpy", "strcat"}
    BY <1>8 DEF Format, NoCall
  <2>2. QED
    BY <2>1, OtherCalls DEF CopyInv
<1>9. ASSUME Return PROVE CopyInv'
  <2>1. mem' = Fresh /\ call'.op \notin {"copy", "rtlcopy", "move", "strcpy", "strcat"}
    BY <1>9 DEF Return, NoCall
  <2>2. QED
    BY <2>1, OtherCalls DEF CopyInv
<1>10. ASSUME UNCHANGED vars PROVE CopyInv'
  BY <1>10 DEF vars, CopyInv, CopiesKeepTheBytes, CopiesForward, MovesAllButTheFirst, CopiesStrings
<1>11. call = NoCall => mem = Fresh
  BY DEF CopyInv
<1>12. QED
  BY <1>1, <1>2, <1>3, <1>4, <1>5, <1>6, <1>7, <1>8, <1>9, <1>10, <1>11 DEF Next, Halted

\* Of any memory, any areas and any strings in it, a copy that comes back has brought
\* all bytes the assertion or the distance promises, a move all but the first, and a
\* copied or appended string arrives with its NUL and changes nothing else
\* (memory.c:11-40, 158-202).
THEOREM CopiesSound == Spec => []CopiesKeepTheBytes
<1>1. Init => CopyInv
  BY DEF Init, NoCall, CopyInv, CopiesKeepTheBytes, CopiesForward, MovesAllButTheFirst, CopiesStrings
<1>2. CopyInv => CopiesKeepTheBytes
  BY DEF CopyInv
<1>3. QED
  BY <1>1, <1>2, CopiesAlways, PTL DEF Spec

----------------------------------------------------------------------------
(* What loading leaves in memory *)

\* How far a load is.
Loading == [mem : Memories, end : {"", "panic", "wild"}]

\* A load that has not failed.
Fine(s) == s.end = ""

\* One section, and what is missing while it is loaded.
SectionStep(s, sect, tables, missing) ==
  IF /\ s.end = ""
     /\ "name" \in missing \/ (IsGiven(sect) /\ "storage" \in missing)
  THEN [s EXCEPT !.end = "panic"]
  ELSE Loaded(s, sect, tables)

\* What a section does to a load: it fails, is given storage, leaves memory alone or is
\* copied to its place beside the tables, which it is not when the assertion in
\* KeCopyMemory fails.
SectionCases(s, sect, tables, r) ==
  Fine(r) =>
    /\ Fine(s)
    /\ IsGiven(sect) => r.mem = [s.mem EXCEPT ![sect.field] = Elsewhere]
    /\ ~IsGiven(sect) /\ ~Loads(sect) => r.mem = s.mem
    /\ Loads(sect) => /\ ~Overlaps(sect.addr, sect.offset, sect.size)
                      /\ Target(sect) \cap tables = {}
                      /\ r.mem = ForwardIn(s.mem, Area(sect))

\* One section is loaded (exec.c:79-106).
LEMMA OneSection ==
  ASSUME NEW s \in Loading, NEW sect \in Section, NEW tables, NEW missing,
         IsGiven(sect) => sect.field \in Addresses
  PROVE  /\ SectionStep(s, sect, tables, missing) \in Loading
         /\ SectionCases(s, sect, tables, SectionStep(s, sect, tables, missing))
<1> DEFINE r == SectionStep(s, sect, tables, missing)
           failed(end) == [s EXCEPT !.end = end]
           new == ForwardIn(s.mem, Area(sect))
           put == [s EXCEPT !.mem = new]
           noted == [s.mem EXCEPT ![sect.field] = Elsewhere]
           gave == [s EXCEPT !.mem = noted]
<1>1. \/ r = failed("panic")
      \/ r = failed("wild")
      \/ r = s /\ (~Fine(s) \/ (~Loads(sect) /\ ~IsGiven(sect)))
      \/ r = gave /\ Fine(s) /\ IsGiven(sect)
      \/ /\ r = put /\ Fine(s) /\ Loads(sect) /\ ~Overlaps(sect.addr, sect.offset, sect.size)
         /\ Target(sect) \cap tables = {}
  BY Zenon DEF SectionStep, Loaded, Fine
<1>2. s.mem \in Memories /\ s.end \in {"", "panic", "wild"}
  BY DEF Loading
<1>3. new \in Memories
  <2>1. sect.size \in Nat /\ Area(sect).n = sect.size
    BY DEF Section, Area
  <2>2. Area(sect).n \in Nat
    BY <2>1, Zenon
  <2>3. CopiesUp(s.mem, Area(sect), ForwardsOf(s.mem, Area(sect)))
    BY <1>2, <2>2, ForwardSteps
  <2>4. Area(sect).n \in 0 .. Area(sect).n
    BY <2>2
  <2>5. QED
    BY <2>3, <2>4, Zenon DEF CopiesUp
<1>4. IsGiven(sect) => ~Loads(sect)
  BY Zenon DEF IsGiven, Loads
<1>5. noted \in Memories
  <2>1. Elsewhere \in Nat
    BY LibraryAssumption DEF Elsewhere
  <2>2. QED
    BY <1>2, <2>1 DEF Memories
<1> HIDE DEF new, r, noted
<1>6. \A end \in {"panic", "wild"} : failed(end) \in Loading /\ ~Fine(failed(end))
  BY DEF Loading, Fine
<1>7. put \in Loading /\ put.mem = new /\ (Fine(put) => Fine(s))
  BY <1>3 DEF Loading, Fine
<1>8. gave \in Loading /\ gave.mem = noted /\ (Fine(gave) => Fine(s))
  BY <1>5 DEF Loading, Fine
<1> HIDE DEF failed, put, gave
<1>9. CASE r = failed("panic") \/ r = failed("wild")
  BY <1>6, <1>9, Zenon DEF SectionCases, r
<1>10. CASE r = s /\ (~Fine(s) \/ (~Loads(sect) /\ ~IsGiven(sect)))
  BY <1>10, Zenon DEF SectionCases, r
<1>11. CASE r = gave /\ Fine(s) /\ IsGiven(sect)
  BY <1>4, <1>8, <1>11, Zenon DEF SectionCases, r, noted
<1>12. CASE /\ r = put /\ Fine(s) /\ Loads(sect) /\ ~Overlaps(sect.addr, sect.offset, sect.size)
            /\ Target(sect) \cap tables = {}
  BY <1>4, <1>7, <1>12, Zenon DEF SectionCases, r, new
<1>13. QED
  BY <1>1, <1>9, <1>10, <1>11, <1>12, Zenon

\* A section of a file is a section, whose field is one of the cells if it is given storage.
LEMMA SectionsOfAFile ==
  ASSUME NEW file \in ElfFiles, NEW i \in 1 .. Len(file.sections)
  PROVE  /\ file.sections[i] \in Section /\ i \in DOMAIN file.sections
         /\ IsGiven(file.sections[i]) =>
              file.sections[i].field \in Addresses /\ file.sections[i].field \in file.tables
<1>1. file \in ElfFile
  BY ElfAssumption, Zenon
<1>2. file.sections \in Seq(Section)
  BY <1>1 DEF ElfFile
<1>3. i \in DOMAIN file.sections /\ file.sections[i] \in Section
  BY <1>2, ElementOfSeq
<1>4. IsGiven(file.sections[i]) => file.sections[i].field \in Addresses \cap file.tables
  BY <1>3, ElfAssumption, Zenon
<1>5. QED
  BY <1>3, <1>4, Zenon

\* The states u of a load.
BeforeSections(file) == [mem |-> mem, end |-> IF ExCheckElf32IsValid(file) THEN "" ELSE "panic"]
Sections(file, missing, u) ==
  u = [i \in 0 .. Len(file.sections) |->
         IF i = 0 THEN BeforeSections(file)
         ELSE SectionStep(u[i - 1], file.sections[i], file.tables, missing)]
SectionsOf(file, missing) == CHOOSE u : Sections(file, missing, u)

LoadsSections(file, missing, u) ==
  /\ ExLoadElfFromBuffer(file, missing) = u[Len(file.sections)] /\ u[0] = BeforeSections(file)
  /\ \A i \in 0 .. Len(file.sections) : u[i] \in Loading
  /\ \A i \in 1 .. Len(file.sections) :
       u[i] = SectionStep(u[i - 1], file.sections[i], file.tables, missing)

\* A file is loaded section by section (exec.c:67-112).
LEMMA SectionSteps ==
  ASSUME mem \in Memories, NEW file \in ElfFiles, NEW missing
  PROVE  LoadsSections(file, missing, SectionsOf(file, missing))
<1> DEFINE n == Len(file.sections)
           first == BeforeSections(file)
           After(i, d) == SectionStep(d, file.sections[i], file.tables, missing)
           Step == [i \in 1 .. n |-> [d \in Loading |-> After(i, d)]]
           u == SectionsOf(file, missing)
<1>1. /\ n \in Nat /\ 0 \in 0 .. n /\ first \in Loading
      /\ \A i \in 1 .. n : file.sections[i] \in Section
      /\ \A i \in 1 .. n : IsGiven(file.sections[i]) => file.sections[i].field \in Addresses
  <2>1. file.sections \in Seq(Section)
    BY ElfAssumption DEF ElfFile
  <2>2. first \in Loading
    BY DEF Loading, BeforeSections
  <2>3. n \in Nat /\ 0 \in 0 .. n
    BY <2>1
  <2>4. \A i \in 1 .. n : file.sections[i] \in Section
    BY SectionsOfAFile, Zenon
  <2>5. \A i \in 1 .. n : IsGiven(file.sections[i]) => file.sections[i].field \in Addresses
    BY SectionsOfAFile, Zenon
  <2>6. QED
    BY <2>2, <2>3, <2>4, <2>5, Zenon
<1> HIDE DEF n, first
<1>2. \A i \in 1 .. n : i \in 0 .. n /\ i - 1 \in 0 .. n /\ i # 0
  BY <1>1
<1>3. \A i \in 1 .. n : \A d \in Loading : After(i, d) \in Loading
  BY <1>1, OneSection, Zenon
<1> HIDE DEF After
<1>4. /\ Step \in [1 .. n -> [Loading -> Loading]]
      /\ \A i \in 1 .. n : \A d \in Loading : Step[i][d] = After(i, d)
  BY <1>3, Zenon
<1> HIDE DEF Step
<1>5. PICK v : v \in [0 .. n -> Loading] /\ v[0] = first /\ \A i \in 1 .. n : v[i] = Step[i][v[i - 1]]
  <2>1. \E v : IsLoop(v, Loading, first, n, Step)
    BY <1>1, <1>4, LoopExists
  <2>2. QED
    BY <2>1, Zenon DEF IsLoop
<1>6. Sections(file, missing, v)
  <2>1. \A i \in 1 .. n : v[i] = After(i, v[i - 1])
    BY <1>2, <1>4, <1>5, Zenon
  <2>2. \A i \in 0 .. n : i = 0 \/ i \in 1 .. n
    BY <1>1
  <2>3. \A i \in 0 .. n : v[i] = IF i = 0 THEN first ELSE After(i, v[i - 1])
    BY <1>2, <1>5, <2>1, <2>2, Zenon
  <2>4. v = [i \in 0 .. n |-> v[i]]
    BY <1>5, Zenon
  <2>5. [i \in 0 .. n |-> v[i]] = [i \in 0 .. n |-> IF i = 0 THEN first ELSE After(i, v[i - 1])]
    BY <2>3, Zenon
  <2>6. QED
    BY <2>4, <2>5, Zenon DEF Sections, n, first, After
<1>7. Sections(file, missing, u)
  BY <1>6, Zenon DEF SectionsOf
<1>8. ExLoadElfFromBuffer(file, missing) = u[n]
  BY Zenon DEF ExLoadElfFromBuffer, SectionsOf, Sections, BeforeSections, SectionStep, n
<1> HIDE DEF u
<1>9. u[0] = first /\ \A i \in 1 .. n : u[i] = After(i, u[i - 1])
  <2>1. u = [i \in 0 .. n |-> IF i = 0 THEN first ELSE After(i, u[i - 1])]
    BY <1>7, Zenon DEF Sections, n, first, After
  <2>2. \A i \in 0 .. n : u[i] = IF i = 0 THEN first ELSE After(i, u[i - 1])
    BY <2>1, Zenon
  <2>3. QED
    BY <1>1, <1>2, <2>2, Zenon
<1>10. \A i \in 0 .. n : u[i] \in Loading
  <2>1. \A i \in 1 .. n : u[i - 1] \in Loading => u[i] \in Loading
    BY <1>3, <1>9, Zenon
  <2>2. QED
    BY <1>1, <1>9, <2>1, StaysIn
<1>11. QED
  BY <1>8, <1>9, <1>10, Zenon DEF LoadsSections, u, n, first, After

\* What a holds after the first i sections, if none of them goes there ...
Held(file, i, a) == HeldBefore(file, i + 1, a)
Untouched(file, m, i) ==
  \A a \in Addresses :
    (\A j \in Places(file) : j <= i => a \notin Target(file.sections[j])) => m[a] = Held(file, i, a)

\* ... and byte k of section j of them, which is not in the tables, is at its address,
\* unless another section goes there or where it comes from.
ByteArrived(file, m, j, k) ==
  LET to   == file.sections[j].addr + k
      from == file.sections[j].offset + k
  IN \/ \E l \in Places(file) \ {j} : {to, from} \cap Target(file.sections[l]) # {}
     \/ m[to] = HeldBefore(file, j, from)
Arrived(file, m, i) ==
  \A j \in Places(file) : j <= i =>
    /\ Target(file.sections[j]) \cap file.tables = {}
    /\ \A k \in 0 .. file.sections[j].size - 1 : ByteArrived(file, m, j, k)

\* Section i changes what is held only if it is given storage, and only its field.
LEMMA HeldAfterOne ==
  ASSUME NEW file \in ElfFiles, NEW i \in 1 .. Len(file.sections), NEW a
  PROVE  /\ HeldBefore(file, 1, a) = Fresh[a]
         /\ Held(file, i, a) = IF IsGiven(file.sections[i]) /\ file.sections[i].field = a
                               THEN Elsewhere ELSE HeldBefore(file, i, a)
<1> DEFINE D == DOMAIN file.sections
           Tells(j) == IsGiven(file.sections[j]) /\ file.sections[j].field = a
<1>1. i \in D /\ \A j \in D : j \in Nat \ {0}
  BY ElfAssumption DEF ElfFile
<1>2. \A j \in D : ~(j < 1) /\ (j < i + 1 <=> j < i \/ j = i)
  BY <1>1
<1> HIDE DEF Tells
<1>3. ~ \E j \in D : j < 1 /\ Tells(j)
  BY <1>2, Zenon
<1>4. (\E j \in D : j < i + 1 /\ Tells(j)) <=> (\E j \in D : j < i /\ Tells(j)) \/ Tells(i)
  BY <1>1, <1>2, Zenon
<1>5. /\ HeldBefore(file, 1, a) = IF \E j \in D : j < 1 /\ Tells(j) THEN Elsewhere ELSE Fresh[a]
      /\ HeldBefore(file, i, a) = IF \E j \in D : j < i /\ Tells(j) THEN Elsewhere ELSE Fresh[a]
      /\ Held(file, i, a) = IF \E j \in D : j < i + 1 /\ Tells(j) THEN Elsewhere ELSE Fresh[a]
  BY Zenon DEF HeldBefore, Held, Tells
<1>6. QED
  BY <1>3, <1>4, <1>5, Zenon DEF Tells

\* What is loaded has a place, and is an area of memory.
LEMMA PlacesAreLoaded ==
  ASSUME NEW file \in ElfFiles, NEW i \in 1 .. Len(file.sections)
  PROVE  /\ file.sections[i] \in Section
         /\ i \in Places(file) <=> Loads(file.sections[i])
         /\ IsGiven(file.sections[i]) => i \notin Places(file)
         /\ Loads(file.sections[i]) => Area(file.sections[i]) \in Extents
<1>1. file \in ElfFile
  BY ElfAssumption, Zenon
<1>2. file.sections \in Seq(Section)
  BY <1>1 DEF ElfFile
<1>3. i \in DOMAIN file.sections /\ file.sections[i] \in Section
  BY <1>2, ElementOfSeq
<1> DEFINE sect == file.sections[i]
<1>4. sect.addr \in Nat
  BY <1>3 DEF Section
<1>5. sect.addr # 0 <=> sect.addr > 0
  <2> HIDE DEF sect
  <2>1. QED
    BY <1>4
<1>6. /\ i \in Places(file) <=> Loads(file.sections[i])
      /\ IsGiven(file.sections[i]) => i \notin Places(file)
  BY <1>3, <1>5, Zenon DEF Places, Loads, IsGiven
<1>7. QED
  BY <1>3, <1>6, ElfAssumption, Zenon

\* A section in memory is copied like any area (exec.c:96-104).
LEMMA SectionMoved ==
  ASSUME NEW m \in Memories, NEW sect \in Section, Area(sect) \in Extents,
         ~Overlaps(sect.addr, sect.offset, sect.size)
  PROVE  MovedTo(ForwardIn(m, Area(sect)), m, sect.addr, sect.offset, sect.size)
<1>1. Area(sect).dest = sect.addr /\ Area(sect).src = sect.offset /\ Area(sect).n = sect.size
  BY DEF Area
<1>2. sect.addr \in Nat /\ sect.offset \in Nat /\ sect.size \in Nat
  BY DEF Section
<1>3. sect.addr - sect.offset \notin 1 .. sect.size - 1
  BY <1>2, PassedApart
<1>4. Area(sect).dest - Area(sect).src \notin 1 .. Area(sect).n - 1
  BY <1>1, <1>3, Zenon
<1>5. MovedTo(ForwardIn(m, Area(sect)), m, Area(sect).dest, Area(sect).src, Area(sect).n)
  BY <1>4, ForwardCopies
<1>6. QED
  BY <1>1, <1>5, Zenon

\* The bytes of a section that is loaded are in memory.
LEMMA PlaceBytes ==
  ASSUME NEW file \in ElfFiles, NEW j \in Places(file), NEW k \in 0 .. file.sections[j].size - 1
  PROVE  /\ file.sections[j].addr + k \in Addresses
         /\ file.sections[j].addr + k \in Target(file.sections[j])
<1> DEFINE sect == file.sections[j]
<1>1. j \in 1 .. Len(file.sections)
  BY ElfAssumption DEF Places, ElfFile
<1>2. Area(sect) \in Extents /\ sect \in Section
  BY <1>1, PlacesAreLoaded, Zenon
<1>3. Area(sect).dest = sect.addr /\ Area(sect).n = sect.size
  BY DEF Area
<1>4. sect.addr + k \in Addresses
  BY <1>2, <1>3, ExtentBytes, Zenon
<1>5. sect.addr \in Nat /\ sect.size \in Nat /\ k \in 0 .. sect.size - 1
  BY <1>2 DEF Section
<1> HIDE DEF sect
<1>6. sect.addr + k \in Target(sect)
  BY <1>5 DEF Target
<1>7. QED
  BY <1>4, <1>6, Zenon DEF sect

\* One more section keeps the others in place.
LEMMA OneMoreSection ==
  ASSUME NEW file \in ElfFiles, NEW i \in 1 .. Len(file.sections),
         NEW s \in Loading, NEW r \in Loading, SectionCases(s, file.sections[i], file.tables, r), Fine(r),
         Untouched(file, s.mem, i - 1), Arrived(file, s.mem, i - 1)
  PROVE  Untouched(file, r.mem, i) /\ Arrived(file, r.mem, i)
<1> DEFINE sect == file.sections[i]
           places == Places(file)
           old == s.mem
           new == r.mem
<1>1. /\ sect \in Section /\ (i \in places <=> Loads(sect))
      /\ Loads(sect) => Area(sect) \in Extents
  BY PlacesAreLoaded
<1>2. /\ IsGiven(sect) => new = [old EXCEPT ![sect.field] = Elsewhere]
      /\ ~IsGiven(sect) /\ ~Loads(sect) => new = old
      /\ Loads(sect) => /\ ~Overlaps(sect.addr, sect.offset, sect.size)
                        /\ Target(sect) \cap file.tables = {}
                        /\ new = ForwardIn(old, Area(sect))
  BY Zenon DEF SectionCases
<1>3. \A j \in places : j \in Nat /\ (j <= i <=> j <= i - 1 \/ j = i)
  BY ElfAssumption DEF Places, ElfFile
<1>4. i <= i /\ ~(i <= i - 1)
  OBVIOUS
<1>5. i = (i - 1) + 1 /\ \A a : Held(file, i - 1, a) = HeldBefore(file, i, a)
  BY DEF Held
<1>6. CASE ~Loads(sect)
  <2>1. \A j \in places : j <= i <=> j <= i - 1
    BY <1>1, <1>3, <1>6, Zenon
  <2>2. CASE ~IsGiven(sect)
    <3>1. new = old /\ \A a : Held(file, i, a) = Held(file, i - 1, a)
      BY <1>2, <1>5, <1>6, <2>2, HeldAfterOne, Zenon
    <3>2. QED
      BY <2>1, <3>1, Zenon DEF Untouched, Arrived
  <2>3. CASE IsGiven(sect)
    <3> DEFINE f == sect.field
    <3>1. new = [old EXCEPT ![f] = Elsewhere] /\ old \in Memories /\ f \in Addresses /\ f \in file.tables
      BY <1>2, <2>3, SectionsOfAFile, Zenon DEF Loading
    <3>2. \A a : Held(file, i, a) = IF a = f THEN Elsewhere ELSE Held(file, i - 1, a)
      BY <1>5, <2>3, HeldAfterOne, Zenon
    <3> HIDE DEF f, new, old, places
    <3>3. \A a \in Addresses : new[a] = IF a = f THEN Elsewhere ELSE old[a]
      BY <3>1 DEF Memories
    <3>4. Untouched(file, new, i)
      BY <2>1, <3>2, <3>3, Zenon DEF Untouched, places, old
    <3>5. ASSUME NEW j \in places, j <= i
          PROVE  /\ Target(file.sections[j]) \cap file.tables = {}
                 /\ \A k \in 0 .. file.sections[j].size - 1 : ByteArrived(file, new, j, k)
      <4>1. /\ Target(file.sections[j]) \cap file.tables = {}
            /\ \A k \in 0 .. file.sections[j].size - 1 : ByteArrived(file, old, j, k)
        BY <2>1, <3>5, Zenon DEF Arrived, places, old
      <4>2. ASSUME NEW k \in 0 .. file.sections[j].size - 1 PROVE ByteArrived(file, new, j, k)
        <5> DEFINE to == file.sections[j].addr + k
        <5>1. to \in Addresses /\ to \in Target(file.sections[j])
          BY <3>5, PlaceBytes, Zenon DEF places
        <5>2. to # f
          BY <3>1, <4>1, <5>1, Zenon
        <5>3. new[to] = old[to]
          BY <3>3, <5>1, <5>2, Zenon
        <5>4. QED
          BY <4>1, <5>3, Zenon DEF ByteArrived
      <4>3. QED
        BY <4>1, <4>2, Zenon
    <3>6. QED
      BY <3>4, <3>5, Zenon DEF Arrived, places, new
  <2>4. QED
    BY <2>2, <2>3, Zenon
<1>7. CASE Loads(sect)
  <2> DEFINE addr == sect.addr
             offset == sect.offset
             size == sect.size
             Bytes == addr .. addr + size - 1
  <2>1. MovedTo(new, old, addr, offset, size)
    <3>1. old \in Memories
      BY DEF Loading
    <3>2. QED
      BY <1>1, <1>2, <1>7, <3>1, SectionMoved, Zenon
  <2>2. Target(sect) = Bytes /\ i \in places
    BY <1>1, <1>7, Zenon DEF Target
  <2>3. ASSUME NEW a \in Addresses, a \notin Bytes PROVE new[a] = old[a]
    BY <2>1, <2>3, Zenon DEF MovedTo
  <2>4. Area(sect) \in Extents
    BY <1>1, <1>7, Zenon
  <2>5. addr \in Nat /\ offset \in Nat /\ size \in Nat
        /\ \A k \in 0 .. size - 1 : addr + k \in Addresses /\ offset + k \in Addresses
    <3>1. Area(sect).dest = addr /\ Area(sect).src = offset /\ Area(sect).n = size
      BY DEF Area
    <3>2. QED
      BY <2>4, <3>1, ExtentParts, ExtentBytes, Zenon
  <2>6. Untouched(file, new, i)
    <3> SUFFICES ASSUME NEW a \in Addresses, \A j \in places : j <= i => a \notin Target(file.sections[j])
                 PROVE  new[a] = Held(file, i, a)
      BY Zenon DEF Untouched
    <3>1. a \notin Bytes
      BY <1>4, <2>2, Zenon
    <3>2. \A j \in places : j <= i - 1 => a \notin Target(file.sections[j])
      BY <1>3, Zenon
    <3>3. old[a] = Held(file, i - 1, a)
      BY <3>2, Zenon DEF Untouched
    <3>4. Held(file, i, a) = Held(file, i - 1, a)
      <4>1. ~IsGiven(sect)
        BY <1>7, Zenon DEF IsGiven, Loads
      <4>2. QED
        BY <1>5, <4>1, HeldAfterOne, Zenon
    <3>5. QED
      BY <2>3, <3>1, <3>3, <3>4, Zenon
  <2>7. ASSUME NEW j \in places, j <= i, NEW k \in 0 .. file.sections[j].size - 1
        PROVE  ByteArrived(file, new, j, k)
    <3> DEFINE to == file.sections[j].addr + k
               from == file.sections[j].offset + k
    <3>1. CASE j = i
      <4>1. to = addr + k /\ from = offset + k /\ k \in 0 .. size - 1
        BY <2>7, <3>1, Zenon
      <4>2. to \in Addresses /\ from \in Addresses
        BY <2>5, <4>1, Zenon
      <4> HIDE DEF addr, offset, size
      <4>3. addr + k \in addr .. addr + size - 1 /\ (addr + k) - addr + offset = offset + k
        BY <2>5, <4>1
      <4>4. new[to] = old[from]
        <5> DEFINE c == addr + k
        <5>1. c \in addr .. addr + size - 1 /\ c - addr + offset = offset + k
          BY <4>3, Zenon
        <5>2. c = to /\ c \in Addresses
          BY <4>1, <4>2, Zenon
        <5> HIDE DEF c, to
        <5>3. new[c] = old[c - addr + offset]
          BY <2>1, <5>1, <5>2, Zenon DEF MovedTo
        <5>4. QED
          BY <4>1, <5>1, <5>2, <5>3, Zenon
      <4>5. CASE \E l \in places \ {j} : from \in Target(file.sections[l])
        BY <4>5, Zenon DEF ByteArrived
      <4>6. CASE ~ \E l \in places \ {j} : from \in Target(file.sections[l])
        <5>1. \A l \in places : l <= i - 1 => from \notin Target(file.sections[l])
          BY <1>4, <3>1, <4>6, Zenon
        <5>2. old[from] = Held(file, i - 1, from)
          BY <4>2, <5>1, Zenon DEF Untouched
        <5>3. QED
          BY <1>5, <3>1, <4>4, <5>2, Zenon DEF ByteArrived
      <4>7. QED
        BY <4>5, <4>6, Zenon
    <3>2. CASE j # i
      <4>1. j <= i - 1 /\ i \in places \ {j}
        BY <1>3, <2>2, <2>7, <3>2, Zenon
      <4>2. ByteArrived(file, old, j, k)
        BY <2>7, <4>1, Zenon DEF Arrived
      <4>3. CASE to \in Bytes
        <5>1. to \in Target(file.sections[i])
          BY <2>2, <4>3, Zenon
        <5>2. QED
          BY <4>1, <5>1, Zenon DEF ByteArrived
      <4>4. CASE to \notin Bytes
        <5>1. to \in Addresses
          BY <2>7, PlaceBytes, Zenon
        <5>2. new[to] = old[to]
          BY <2>3, <4>4, <5>1, Zenon
        <5>3. QED
          BY <4>2, <5>2, Zenon DEF ByteArrived
      <4>5. QED
        BY <4>3, <4>4
    <3>3. QED
      BY <3>1, <3>2
  <2>8. \A j \in places : j <= i => Target(file.sections[j]) \cap file.tables = {}
    BY <1>2, <1>3, <1>7, Zenon DEF Arrived
  <2>9. QED
    BY <2>6, <2>7, <2>8, Zenon DEF Arrived
<1>8. QED
  BY <1>6, <1>7

\* When the entry of a file is called, all its sections have been (exec.c:67-112).
LEMMA AllSections ==
  ASSUME mem = Fresh, NEW file \in ElfFiles, NEW missing,
         Fine(ExLoadElfFromBuffer(file, missing))
  PROVE  LET new == ExLoadElfFromBuffer(file, missing).mem
         IN Untouched(file, new, Len(file.sections)) /\ Arrived(file, new, Len(file.sections))
<1> DEFINE n == Len(file.sections)
           u == SectionsOf(file, missing)
           Holds(i) == Untouched(file, u[i].mem, i) /\ Arrived(file, u[i].mem, i)
           P == {i \in 0 .. n : Fine(u[i]) => Holds(i)}
<1>1. /\ ExLoadElfFromBuffer(file, missing) = u[n] /\ u[0] = BeforeSections(file)
      /\ \A i \in 0 .. n : u[i] \in Loading
      /\ \A i \in 1 .. n : u[i] = SectionStep(u[i - 1], file.sections[i], file.tables, missing)
  <2>1. mem \in Memories
    BY MemoriesBefore, Zenon
  <2>2. LoadsSections(file, missing, SectionsOf(file, missing))
    BY <2>1, SectionSteps, Zenon
  <2>3. QED
    BY <2>2, Zenon DEF LoadsSections
<1> HIDE DEF u
<1>2. n \in Nat /\ \A j \in Places(file) : j \in 1 .. n
  BY ElfAssumption DEF Places, ElfFile
<1>3. 0 \in P
  <2>1. u[0].mem = Fresh
    <3>1. BeforeSections(file).mem = mem
      BY DEF BeforeSections
    <3>2. QED
      BY <1>1, <3>1, Zenon
  <2>2. \A j \in Places(file) : ~(j <= 0)
    BY <1>2
  <2>3. 0 \in 0 .. n
    BY <1>2
  <2>4. ASSUME NEW a \in Addresses PROVE Fresh[a] = Held(file, 0, a)
    <3>1. 0 + 1 = 1 /\ \A j \in DOMAIN file.sections : ~(j < 1)
      BY ElfAssumption DEF ElfFile
    <3>2. Held(file, 0, a) = HeldBefore(file, 1, a)
      BY <3>1, Zenon DEF Held
    <3>3. HeldBefore(file, 1, a) = Fresh[a]
      BY <3>1, Zenon DEF HeldBefore
    <3>4. QED
      BY <3>2, <3>3, Zenon
  <2>5. QED
    BY <2>1, <2>2, <2>3, <2>4, Zenon DEF Untouched, Arrived
<1>4. ASSUME NEW i \in 1 .. n, i - 1 \in P PROVE i \in P
  <2>1. i \in 0 .. n /\ i - 1 \in 0 .. n
    BY <1>2
  <2> DEFINE j == i - 1
             s == u[j]
             r == u[i]
  <2>2. s \in Loading /\ r \in Loading /\ r = SectionStep(s, file.sections[i], file.tables, missing)
    BY <1>1, <2>1, Zenon
  <2>3. /\ file.sections[i] \in Section
        /\ IsGiven(file.sections[i]) => file.sections[i].field \in Addresses
    BY SectionsOfAFile, Zenon
  <2> HIDE DEF s, r
  <2>4. SectionCases(s, file.sections[i], file.tables, r)
    BY <2>2, <2>3, OneSection, Zenon
  <2>5. ASSUME Fine(r) PROVE Untouched(file, r.mem, i) /\ Arrived(file, r.mem, i)
    <3>1. Fine(s)
      BY <2>4, <2>5, Zenon DEF SectionCases
    <3>2. Untouched(file, s.mem, i - 1) /\ Arrived(file, s.mem, i - 1)
      BY <1>4, <3>1, Zenon DEF s
    <3>3. QED
      BY <2>2, <2>4, <2>5, <3>2, OneMoreSection, Zenon
  <2>6. QED
    BY <2>1, <2>5, Zenon DEF r
<1>5. n \in 0 .. n
  BY <1>2
<1> HIDE DEF P
<1>6. \A i \in 0 .. n : i \in P
  BY <1>2, <1>3, <1>4, UpTo
<1>7. Holds(n)
  BY <1>1, <1>5, <1>6, Zenon DEF P
<1>8. QED
  BY <1>1, <1>7, Zenon

\* ElfSectionsAreInPlace of a load of file that ended with end and left new in memory.
FileInPlace(file, end, new) ==
  end = "" =>
    LET sections == file.sections IN
    /\ \A i \in Places(file) : \A k \in 0 .. sections[i].size - 1 :
         LET to == sections[i].addr + k
             from == sections[i].offset + k
         IN \/ \E j \in Places(file) \ {i} : {to, from} \cap Target(sections[j]) # {}
            \/ new[to] = HeldBefore(file, i, from)
    /\ \A a \in Addresses \ UNION {Target(sections[i]) : i \in Places(file)} :
         new[a] = HeldBefore(file, Len(sections) + 1, a)

\* Memory is as it was between two calls, and what was loaded is in place.
ElfInv == (call = NoCall => mem = Fresh) /\ ElfSectionsAreInPlace

\* A load, and the calls beside it.
LEMMA LoadsAlways ==
  ASSUME [ElfNext]_vars, ElfInv
  PROVE  ElfInv'
<1>1. ASSUME NEW file \in ElfFiles, NEW missing, LoadElf(file, missing) PROVE ElfInv'
  <2> DEFINE s == ExLoadElfFromBuffer(file, missing)
             n == Len(file.sections)
  <2>1. mem = Fresh /\ call' = [op |-> "elf", file |-> file, end |-> s.end] /\ mem' = s.mem
    BY <1>1, Zenon DEF LoadElf, ElfInv
  <2>2. \A i \in Places(file) : i <= n
    BY ElfAssumption DEF Places, ElfFile
  <2>3. ASSUME s.end = "" PROVE Untouched(file, s.mem, n) /\ Arrived(file, s.mem, n)
    <3>1. Fine(s)
      BY <2>3, Zenon DEF Fine
    <3>2. QED
      BY <2>1, <3>1, AllSections, Zenon
  <2> HIDE DEF s, n
  <2>4. FileInPlace(file, s.end, s.mem)
    <3> SUFFICES ASSUME s.end = ""
                 PROVE  /\ \A i \in Places(file) : \A k \in 0 .. file.sections[i].size - 1 :
                             ByteArrived(file, s.mem, i, k)
                        /\ \A a \in Addresses \ UNION {Target(file.sections[i]) : i \in Places(file)} :
                             s.mem[a] = HeldBefore(file, n + 1, a)
      BY Zenon DEF FileInPlace, ByteArrived, n
    <3>1. Untouched(file, s.mem, n) /\ Arrived(file, s.mem, n)
      BY <2>3, Zenon
    <3>2. \A i \in Places(file) : \A k \in 0 .. file.sections[i].size - 1 : ByteArrived(file, s.mem, i, k)
      BY <2>2, <3>1, Zenon DEF Arrived
    <3>3. ASSUME NEW a \in Addresses, a \notin UNION {Target(file.sections[i]) : i \in Places(file)}
          PROVE  s.mem[a] = HeldBefore(file, n + 1, a)
      <4>1. \A j \in Places(file) : a \notin Target(file.sections[j])
        BY <3>3, Zenon
      <4>2. QED
        BY <3>1, <4>1, Zenon DEF Untouched, Held
    <3>4. QED
      BY <3>2, <3>3, Zenon
  <2>5. call' # NoCall /\ call'.op = "elf" /\ call'.file = file /\ call'.end = s.end
    BY <2>1 DEF NoCall
  <2>6. FileInPlace(call'.file, call'.end, mem')
    BY <2>1, <2>4, <2>5, Zenon
  <2>7. ElfSectionsAreInPlace'
    BY <2>6, Zenon DEF ElfSectionsAreInPlace, FileInPlace, Places, HeldBefore
  <2>8. QED
    BY <2>5, <2>7, Zenon DEF ElfInv
<1>2. ASSUME call'.op # "elf", call' = NoCall => mem' = Fresh PROVE ElfInv'
  BY <1>2 DEF ElfInv, ElfSectionsAreInPlace
<1>3. ASSUME NEW e, KeCopyMemory(e) \/ KeMoveMemory(e) \/ RtlCopyMemory(e) \/ RtlMoveMemory(e)
      PROVE  ElfInv'
  <2>1. call'.op # "elf" /\ call' # NoCall
    BY <1>3 DEF KeCopyMemory, KeMoveMemory, RtlCopyMemory, RtlMoveMemory, NoCall
  <2>2. QED
    BY <1>2, <2>1, Zenon
<1>4. ASSUME NEW e, NEW ends, KeCopyStringEx(e, ends) \/ KeConcatStringEx(e, ends) PROVE ElfInv'
  <2>1. call'.op # "elf" /\ call' # NoCall
    BY <1>4 DEF KeCopyStringEx, KeConcatStringEx, StringCall, NoCall
  <2>2. QED
    BY <1>2, <2>1, Zenon
<1>5. ASSUME NEW s, NEW t, Compare(s, t) \/ Find(s, t) PROVE ElfInv'
  <2>1. call'.op # "elf" /\ call' # NoCall
    BY <1>5 DEF Compare, Find, NoCall
  <2>2. QED
    BY <1>2, <2>1, Zenon
<1>6. ASSUME NEW val, NEW blanks, Convert(val, blanks) PROVE ElfInv'
  <2>1. call'.op # "elf" /\ call' # NoCall
    BY <1>6 DEF Convert, NoCall
  <2>2. QED
    BY <1>2, <2>1, Zenon
<1>7. ASSUME NEW n, NEW fmt, Format(n, fmt) PROVE ElfInv'
  <2>1. call'.op # "elf" /\ call' # NoCall
    BY <1>7 DEF Format, NoCall
  <2>2. QED
    BY <1>2, <2>1, Zenon
<1>8. ASSUME Return PROVE ElfInv'
  <2>1. call'.op # "elf" /\ mem' = Fresh
    BY <1>8 DEF Return, NoCall
  <2>2. QED
    BY <1>2, <2>1, Zenon
<1>9. ASSUME UNCHANGED vars PROVE ElfInv'
  <2>1. call' = call /\ mem' = mem
    BY <1>9 DEF vars
  <2>2. call.op = "elf" => FileInPlace(call.file, call.end, mem)
    BY Zenon DEF ElfInv, ElfSectionsAreInPlace, FileInPlace, Places, HeldBefore
  <2>3. call'.op = "elf" => FileInPlace(call'.file, call'.end, mem')
    BY <2>1, <2>2, Zenon
  <2>4. ElfSectionsAreInPlace'
    BY <2>3, Zenon DEF ElfSectionsAreInPlace, FileInPlace, Places, HeldBefore
  <2>5. QED
    BY <2>1, <2>4, Zenon DEF ElfInv
<1>10. QED
  BY <1>1, <1>3, <1>4, <1>5, <1>6, <1>7, <1>8, <1>9 DEF ElfNext, ElfCall, Next, Halted

\* Of any files with any sections that are areas of memory, in any order and however
\* they overlap, a load that reaches the entry has left every section in place unless
\* another goes over it, and all other memory alone but for the addresses of storage
\* it has written into the section table (exec.c:67-112).
THEOREM ElfLoadSound == ElfSpec => []ElfSectionsAreInPlace
<1>1. Init => ElfInv
  BY DEF Init, NoCall, ElfInv, ElfSectionsAreInPlace
<1>2. ElfInv => ElfSectionsAreInPlace
  BY DEF ElfInv
<1>3. QED
  BY <1>1, <1>2, LoadsAlways, PTL DEF ElfSpec

----------------------------------------------------------------------------
(* What a deck of cards holds *)

\* A file of len bytes fills as many cards as its length has Card bytes in it.
LEMMA CardsFit ==
  ASSUME NEW len \in Nat, NEW q, q = len \div Card
  PROVE  /\ q \in Nat /\ q * Card \in Nat /\ q * Card = len - (len % Card) /\ q * Card <= len /\ q <= len
         /\ \A i \in Nat : i * Card \in Nat /\ (i * Card + Card <= len <=> i < q)
<1>1. Card \in Nat \ {0}
  BY DeckAssumption
<1> DEFINE c == Card
<1> HIDE DEF c
<1>2. c \in Nat \ {0} /\ q = len \div c
  BY <1>1 DEF c
<1>3. q \in Nat /\ q * c <= len /\ len < q * c + c /\ q * c = len - (len % c)
  <2>1. len \div c \in Nat /\ (len \div c) * c <= len /\ len < (len \div c) * c + c
    BY <1>2
  <2>2. (len \div c) * c = len - (len % c)
    BY <1>2
  <2>3. QED
    BY <1>2, <2>1, <2>2, Zenon
<1>4. \A i \in Nat : i * c \in Nat /\ i * c >= i
  BY <1>2
<1>5. q * c \in Nat /\ q <= len
  <2>1. q * c \in Nat /\ q * c >= q
    BY <1>3, <1>4
  <2>2. QED
    BY <1>3, <2>1
<1>6. ASSUME NEW i \in Nat PROVE i * c + c <= len <=> i < q
  BY <1>2, <1>3
<1>7. QED
  BY <1>3, <1>4, <1>5, <1>6 DEF c

\* The card at place i of a deck, and the cards from there on of a deck of q full ones.
CardAt(i) == [addr |-> (i * Card) % (2 ^ DeckBits), bytes |-> [k \in 1 .. Card |-> i * Card + k - 1]]
DeckFrom(i, q) ==
  IF i < q THEN [j \in 1 .. q - i + 1 |-> IF j = q - i + 1 THEN End ELSE CardAt(i + j - 1)]
  ELSE <<End>>

\* A full card has bytes, the last card has none.
LEMMA CardsDiffer == \A i : CardAt(i) # End
<1> SUFFICES ASSUME NEW i, CardAt(i) = End PROVE FALSE
  OBVIOUS
<1>1. CardAt(i).bytes = [k \in 1 .. Card |-> i * Card + k - 1] /\ End.bytes = << >>
  BY DEF CardAt, End
<1>2. DOMAIN CardAt(i).bytes = 1 .. Card /\ DOMAIN End.bytes = {}
  <2>1. DOMAIN << >> = {}
    OBVIOUS
  <2>2. QED
    BY <1>1, <2>1, Zenon
<1>3. 1 \in 1 .. Card
  BY DeckAssumption
<1>4. QED
  BY <1>2, <1>3

\* The rest of a deck is a card and the rest behind it.
LEMMA DeckGoesOn ==
  ASSUME NEW q \in Nat, NEW i \in Nat
  PROVE  /\ i < q => DeckFrom(i, q) = <<CardAt(i)>> \o DeckFrom(i + 1, q)
         /\ i >= q => DeckFrom(i, q) = <<End>>
<1>1. CASE i >= q
  BY <1>1 DEF DeckFrom
<1>2. CASE i < q
  <2> DEFINE n == q - i + 1
             s == DeckFrom(i, q)
             t == DeckFrom(i + 1, q)
             card == CardAt(i)
  <2>1. s = [j \in 1 .. n |-> IF j = n THEN End ELSE CardAt(i + j - 1)]
    BY <1>2, Zenon DEF DeckFrom
  <2>2. n \in Nat /\ n >= 2 /\ ~(1 = n) /\ i + 1 - 1 = i
    BY <1>2
  <2>3. /\ DOMAIN t = 1 .. n - 1
        /\ \A j \in 1 .. n - 1 : t[j] = IF j = n - 1 THEN End ELSE CardAt(i + j)
    <3>1. CASE i + 1 < q
      <4>1. q - (i + 1) + 1 = n - 1 /\ \A j \in 1 .. n - 1 : i + 1 + j - 1 = i + j
        BY <1>2
      <4>2. t = [j \in 1 .. n - 1 |-> IF j = n - 1 THEN End ELSE CardAt(i + 1 + j - 1)]
        BY <3>1, <4>1, Zenon DEF DeckFrom
      <4> HIDE DEF t, n
      <4>3. QED
        BY <4>1, <4>2, Zenon
    <3>2. CASE ~(i + 1 < q)
      <4>1. n - 1 = 1
        BY <1>2, <3>2
      <4>2. t = <<End>>
        BY <3>2, Zenon DEF DeckFrom
      <4> HIDE DEF t, n
      <4>3. DOMAIN t = 1 .. 1 /\ t[1] = End /\ \A j \in 1 .. 1 : j = 1
        BY <4>2
      <4>4. QED
        BY <4>1, <4>3, Zenon
    <3>3. QED
      BY <3>1, <3>2
  <2> HIDE DEF s, t, n, card
  <2>4. t \in Seq({t[j] : j \in 1 .. n - 1}) /\ Len(t) = n - 1
    <3>1. t \in [1 .. n - 1 -> {t[j] : j \in 1 .. n - 1}]
      <4>1. t = [j \in DOMAIN t |-> t[j]]
        <5>1. CASE i + 1 < q
          BY <5>1, Zenon DEF t, DeckFrom
        <5>2. CASE ~(i + 1 < q)
          <6>1. t = <<End>>
            BY <5>2, Zenon DEF t, DeckFrom
          <6>2. QED
            BY <6>1
        <5>3. QED
          BY <5>1, <5>2
      <4>2. QED
        BY <2>3, <4>1, Zenon
    <3>2. n - 1 \in Nat
      BY <2>2
    <3>3. QED
      BY <2>3, <3>1, <3>2
  <2> DEFINE w == <<card>> \o t
  <2>5. /\ DOMAIN w = 1 .. n /\ w[1] = card /\ \A j \in 2 .. n : w[j] = t[j - 1]
        /\ w = [j \in DOMAIN w |-> w[j]]
    BY <2>2, <2>4
  <2> HIDE DEF w
  <2>6. \A j \in 1 .. n : j = 1 \/ (j \in 2 .. n /\ j - 1 \in 1 .. n - 1 /\ (j = n <=> j - 1 = n - 1)
                                    /\ i + j - 1 = i + (j - 1))
    BY <2>2
  <2>7. \A j \in 1 .. n : w[j] = IF j = n THEN End ELSE CardAt(i + j - 1)
    <3> SUFFICES ASSUME NEW j \in 1 .. n PROVE w[j] = IF j = n THEN End ELSE CardAt(i + j - 1)
      OBVIOUS
    <3>1. CASE j = 1
      BY <2>2, <2>5, <3>1, Zenon DEF card
    <3>2. CASE j # 1
      <4>1. w[j] = t[j - 1] /\ t[j - 1] = IF j - 1 = n - 1 THEN End ELSE CardAt(i + (j - 1))
        BY <2>3, <2>5, <2>6, <3>2, Zenon
      <4>2. QED
        BY <2>6, <3>2, <4>1, Zenon
    <3>3. QED
      BY <3>1, <3>2
  <2>8. [j \in 1 .. n |-> w[j]] = [j \in 1 .. n |-> IF j = n THEN End ELSE CardAt(i + j - 1)]
    BY <2>7, Zenon
  <2>9. s = w
    BY <2>1, <2>5, <2>8, Zenon
  <2>10. ~(i >= q)
    BY <1>2
  <2>11. QED
    BY <2>9, <2>10, Zenon DEF s, w, t, card
<1>3. QED
  BY <1>1, <1>2

\* A card is punched while the file fills it.
LEMMA CardPunched ==
  ASSUME NEW len \in Nat, NEW q, q = len \div Card, NEW i \in Nat
  PROVE  Punched(i * Card, len) = IF i < q THEN CardAt(i) ELSE End
<1>1. i * Card \in Nat /\ (i * Card + Card <= len <=> i < q) /\ Card \in Nat \ {0}
  BY CardsFit, DeckAssumption
<1> DEFINE addr == i * Card
<1>2. (addr >= len \/ addr + Card > len) <=> ~(i < q)
  <2> HIDE DEF addr
  <2>1. addr \in Nat /\ (addr + Card <= len <=> i < q) /\ Card \in Nat \ {0}
    BY <1>1, Zenon DEF addr
  <2>2. QED
    BY <2>1
<1>3. CASE i < q
  BY <1>2, <1>3, Zenon DEF Punched, CardAt
<1>4. CASE ~(i < q)
  BY <1>2, <1>4, Zenon DEF Punched
<1>5. QED
  BY <1>3, <1>4

\* The cards d punched from address i * Card on.
PunchedFrom(i, len, d) ==
  LET card == Punched(i * Card, len) IN IF card = End THEN <<End>> ELSE <<card>> \o d[i + 1]
DeckOf(len) == CHOOSE d : d = [i \in 0 .. len |-> PunchedFrom(i, len, d)]

\* bin2rec punches one card for each Card bytes, and the last one (raw2mod.c:25-50).
LEMMA DeckPunched ==
  ASSUME NEW len \in Nat, NEW q, q = len \div Card
  PROVE  bin2rec(len) = DeckFrom(0, q)
<1>1. q \in Nat /\ q <= len
  BY CardsFit
<1>2. ASSUME NEW d, NEW i \in 0 .. len, i < q => d[i + 1] = DeckFrom(i + 1, q)
      PROVE  PunchedFrom(i, len, d) = DeckFrom(i, q)
  <2>1. i \in Nat
    OBVIOUS
  <2>2. Punched(i * Card, len) = IF i < q THEN CardAt(i) ELSE End
    BY <2>1, CardPunched
  <2>3. CASE i < q
    <3>1. PunchedFrom(i, len, d) = <<CardAt(i)>> \o d[i + 1]
      BY <2>2, <2>3, CardsDiffer, Zenon DEF PunchedFrom
    <3>2. QED
      BY <1>1, <1>2, <2>1, <2>3, <3>1, DeckGoesOn, Zenon
  <2>4. CASE ~(i < q)
    <3>1. PunchedFrom(i, len, d) = <<End>>
      BY <2>2, <2>4, Zenon DEF PunchedFrom
    <3>2. i >= q
      BY <1>1, <2>1, <2>4
    <3>3. QED
      BY <1>1, <2>1, <3>1, <3>2, DeckGoesOn, Zenon
  <2>5. QED
    BY <2>3, <2>4
<1>3. \A i \in 0 .. len : i < q => i + 1 \in 0 .. len
  BY <1>1
<1> DEFINE v == [i \in 0 .. len |-> DeckFrom(i, q)]
           d == DeckOf(len)
<1>4. v = [i \in 0 .. len |-> PunchedFrom(i, len, v)]
  <2>1. \A i \in 0 .. len : i < q => v[i + 1] = DeckFrom(i + 1, q)
    BY <1>3, Zenon
  <2> HIDE DEF v
  <2>2. \A i \in 0 .. len : PunchedFrom(i, len, v) = DeckFrom(i, q)
    BY <1>2, <2>1, Zenon
  <2>3. QED
    BY <2>2, Zenon DEF v
<1>5. d = [i \in 0 .. len |-> PunchedFrom(i, len, d)]
  <2> HIDE DEF v
  <2>1. QED
    BY <1>4, Zenon DEF DeckOf
<1>6. bin2rec(len) = d[0]
  BY Zenon DEF bin2rec, DeckOf, PunchedFrom
<1> HIDE DEF d, v
<1>7. \A i \in 0 .. len : d[i] = PunchedFrom(i, len, d)
  BY <1>5, Zenon
<1> DEFINE P == {k \in 0 .. len : d[len - k] = DeckFrom(len - k, q)}
<1>8. 0 \in P
  <2>1. len - 0 = len /\ len \in 0 .. len /\ 0 \in 0 .. len /\ ~(len < q)
    BY <1>1
  <2>2. d[len] = DeckFrom(len, q)
    BY <1>2, <1>7, <2>1, Zenon
  <2>3. QED
    BY <2>1, <2>2, Zenon
<1>9. ASSUME NEW k \in 1 .. len, k - 1 \in P PROVE k \in P
  <2> DEFINE i == len - k
  <2>1. i \in 0 .. len /\ i + 1 = len - (k - 1) /\ k \in 0 .. len
    OBVIOUS
  <2>2. d[len - (k - 1)] = DeckFrom(len - (k - 1), q)
    BY <1>9, Zenon
  <2> HIDE DEF i
  <2>3. d[i] = DeckFrom(i, q)
    BY <1>2, <1>7, <2>1, <2>2, Zenon
  <2>4. QED
    BY <2>1, <2>3, Zenon DEF i
<1>10. len \in 0 .. len /\ len - len = 0
  OBVIOUS
<1> HIDE DEF P
<1>11. \A k \in 0 .. len : k \in P
  BY <1>8, <1>9, UpTo
<1>12. d[0] = DeckFrom(0, q)
  BY <1>10, <1>11, Zenon DEF P
<1>13. QED
  BY <1>6, <1>12, Zenon

\* A deck is its cards and the last one.
LEMMA DeckCards ==
  ASSUME NEW q \in Nat
  PROVE  /\ Len(DeckFrom(0, q)) = q + 1 /\ Last(DeckFrom(0, q)) = End
         /\ DeckFrom(0, q)[q + 1] = End
         /\ \A j \in 1 .. q : DeckFrom(0, q)[j] = CardAt(j - 1)
<1> DEFINE s == DeckFrom(0, q)
<1>1. /\ DOMAIN s = 1 .. q + 1
      /\ \A j \in 1 .. q + 1 : s[j] = IF j = q + 1 THEN End ELSE CardAt(j - 1)
  <2>1. CASE 0 < q
    <3>1. q - 0 + 1 = q + 1 /\ \A j \in 1 .. q + 1 : 0 + j - 1 = j - 1
      OBVIOUS
    <3>2. s = [j \in 1 .. q - 0 + 1 |-> IF j = q - 0 + 1 THEN End ELSE CardAt(0 + j - 1)]
      BY <2>1, Zenon DEF DeckFrom
    <3> HIDE DEF s
    <3>3. QED
      BY <3>1, <3>2, Zenon
  <2>2. CASE ~(0 < q)
    <3>1. q = 0 /\ q + 1 = 1
      BY <2>2
    <3>2. s = <<End>>
      BY <2>2, Zenon DEF DeckFrom
    <3> HIDE DEF s
    <3>3. DOMAIN s = 1 .. 1 /\ s[1] = End /\ \A j \in 1 .. 1 : j = 1
      BY <3>2
    <3>4. QED
      BY <3>1, <3>3, Zenon
  <2>3. QED
    BY <2>1, <2>2
<1> HIDE DEF s
<1>2. q + 1 \in Nat /\ q + 1 \in 1 .. q + 1 /\ \A j \in 1 .. q : j \in 1 .. q + 1 /\ j # q + 1
  OBVIOUS
<1>3. Len(s) = q + 1
  BY <1>1, <1>2
<1>4. s[q + 1] = End /\ \A j \in 1 .. q : s[j] = CardAt(j - 1)
  BY <1>1, <1>2, Zenon
<1>5. Last(s) = End
  BY <1>3, <1>4, Zenon DEF Last
<1>6. QED
  BY <1>3, <1>4, <1>5 DEF s

\* The first k cards in memory: byte for byte the file; and one more card.
FileUpTo(k) == [a \in 0 .. k * Card - 1 |-> a]
CardLoaded(c, m) ==
  LET at == {c.addr + k - 1 : k \in DOMAIN c.bytes}
  IN [a \in at \cup DOMAIN m |-> IF a \in at THEN c.bytes[a - c.addr + 1] ELSE m[a]]

\* A card whose address fits goes behind those before it.
LEMMA OneCardLoaded ==
  ASSUME NEW i \in Nat, i * Card < 2 ^ DeckBits
  PROVE  CardLoaded(CardAt(i), FileUpTo(i)) = FileUpTo(i + 1)
<1> DEFINE c == CardAt(i)
           addr == i * Card
           n == Card
           at == {c.addr + k - 1 : k \in DOMAIN c.bytes}
           old == FileUpTo(i)
           w == CardLoaded(c, old)
<1>1. n \in Nat \ {0} /\ addr \in Nat
  <2>1. n \in Nat \ {0}
    BY DeckAssumption
  <2> HIDE DEF n
  <2>2. i * n \in Nat
    BY <2>1
  <2>3. QED
    BY <2>1, <2>2, Zenon DEF n
<1>2. (i + 1) * Card = addr + n
  <2> HIDE DEF n
  <2>1. (i + 1) * n = i * n + n
    BY <1>1
  <2>2. QED
    BY <2>1, Zenon DEF n
<1>3. c.addr = addr % (2 ^ DeckBits) /\ c.bytes = [k \in 1 .. n |-> addr + k - 1]
  BY DEF CardAt
<1>4. addr % (2 ^ DeckBits) = addr
  <2> DEFINE m == 2 ^ DeckBits
  <2>1. m \in Nat \ {0}
    BY PowerIsPositive, DeckAssumption
  <2> HIDE DEF m, addr
  <2>2. addr < m
    BY Zenon DEF m, addr
  <2>3. addr % m = addr
    BY <1>1, <2>1, <2>2
  <2>4. QED
    BY <2>3, Zenon DEF m
<1> HIDE DEF addr, n, c
<1>5. at = addr .. addr + n - 1
  <2>1. at = {addr + k - 1 : k \in 1 .. n}
    BY <1>3, <1>4, Zenon
  <2>2. ASSUME NEW a \in addr .. addr + n - 1 PROVE a - addr + 1 \in 1 .. n /\ a = addr + (a - addr + 1) - 1
    BY <1>1
  <2>3. \A k \in 1 .. n : addr + k - 1 \in addr .. addr + n - 1
    BY <1>1
  <2> HIDE DEF at
  <2>4. QED
    BY <2>1, <2>2, <2>3, Zenon
<1>6. DOMAIN old = 0 .. addr - 1 /\ \A a \in 0 .. addr - 1 : old[a] = a
  BY Zenon DEF FileUpTo, addr
<1> HIDE DEF old, at
<1>7. w = [a \in at \cup DOMAIN old |-> IF a \in at THEN c.bytes[a - c.addr + 1] ELSE old[a]]
  BY Zenon DEF CardLoaded, at
<1>8. at \cup DOMAIN old = 0 .. addr + n - 1
  BY <1>1, <1>5, <1>6
<1>9. ASSUME NEW a \in at \cup DOMAIN old
      PROVE  (IF a \in at THEN c.bytes[a - c.addr + 1] ELSE old[a]) = a
  <2>1. CASE a \in at
    <3>1. a - addr + 1 \in 1 .. n /\ addr + (a - addr + 1) - 1 = a
      BY <1>1, <1>5, <2>1
    <3>2. c.bytes[a - addr + 1] = addr + (a - addr + 1) - 1
      BY <1>3, <3>1, Zenon
    <3>3. QED
      BY <1>3, <1>4, <2>1, <3>1, <3>2, Zenon
  <2>2. CASE a \notin at
    BY <1>6, <1>9, <2>2, Zenon
  <2>3. QED
    BY <2>1, <2>2
<1> HIDE DEF w
<1>10. w = [a \in 0 .. addr + n - 1 |-> a]
  <2>1. [a \in at \cup DOMAIN old |-> IF a \in at THEN c.bytes[a - c.addr + 1] ELSE old[a]] =
        [a \in at \cup DOMAIN old |-> a]
    BY <1>9, Zenon
  <2>2. QED
    BY <1>7, <1>8, <2>1, Zenon
<1>11. QED
  <2> DEFINE j == i + 1
  <2>1. 0 .. j * Card - 1 = 0 .. addr + n - 1
    <3> DEFINE x == j * Card
    <3>1. x = addr + n
      BY <1>2, Zenon
    <3> HIDE DEF x
    <3>2. x - 1 = addr + n - 1
      BY <1>1, <3>1
    <3>3. QED
      BY <3>2, Zenon DEF x
  <2> HIDE DEF j
  <2>2. FileUpTo(j) = [a \in 0 .. addr + n - 1 |-> a]
    BY <2>1, Zenon DEF FileUpTo
  <2>3. QED
    BY <1>10, <2>2, Zenon DEF w, c, old, j

\* The last card changes nothing.
LEMMA EndLoaded ==
  ASSUME NEW k
  PROVE  CardLoaded(End, FileUpTo(k)) = FileUpTo(k)
<1> DEFINE m == FileUpTo(k)
           at == {End.addr + j - 1 : j \in DOMAIN End.bytes}
<1>1. at = {}
  <2>1. DOMAIN End.bytes = {}
    BY DEF End
  <2>2. QED
    BY <2>1, Zenon
<1>2. m = [a \in DOMAIN m |-> m[a]]
  BY Zenon DEF FileUpTo
<1> HIDE DEF m, at
<1>3. CardLoaded(End, m) = [a \in at \cup DOMAIN m |-> IF a \in at THEN End.bytes[a - End.addr + 1] ELSE m[a]]
  BY Zenon DEF CardLoaded, at
<1>4. at \cup DOMAIN m = DOMAIN m /\ \A a \in DOMAIN m : a \notin at
  BY <1>1, Zenon
<1>5. [a \in at \cup DOMAIN m |-> IF a \in at THEN End.bytes[a - End.addr + 1] ELSE m[a]] =
      [a \in DOMAIN m |-> m[a]]
  BY <1>4, Zenon
<1>6. QED
  BY <1>2, <1>3, <1>5, Zenon DEF m

\* The memories while a deck is loaded.
MemoriesOf(s) ==
  CHOOSE m : m = [i \in 0 .. Len(s) |-> IF i = 0 THEN << >> ELSE CardLoaded(s[i], m[i - 1])]

\* Loaded card by card, the deck of a file is the file as far as it fills cards.
LEMMA DeckLoads ==
  ASSUME NEW len \in Nat, len <= 2 ^ DeckBits, NEW q, q = len \div Card
  PROVE  LoadedFrom(DeckFrom(0, q)) = FileUpTo(q)
<1> DEFINE s == DeckFrom(0, q)
           Filled(i) == FileUpTo(IF i > q THEN q ELSE i)
           v == [i \in 0 .. q + 1 |-> Filled(i)]
           u == MemoriesOf(s)
<1>1. /\ q \in Nat /\ Len(s) = q + 1 /\ s[q + 1] = End
      /\ \A j \in 1 .. q : s[j] = CardAt(j - 1)
  BY CardsFit, DeckCards
<1> HIDE DEF s
<1>2. Filled(0) = << >>
  <2>1. ~(0 > q) /\ 0 * Card - 1 = -1
    BY <1>1, DeckAssumption
  <2>2. Filled(0) = [a \in 0 .. 0 * Card - 1 |-> a]
    BY <2>1, Zenon DEF FileUpTo
  <2>3. 0 .. -1 = {}
    OBVIOUS
  <2>4. [a \in {} |-> a] = << >>
    OBVIOUS
  <2>5. QED
    BY <2>1, <2>2, <2>3, <2>4, Zenon
<1>3. \A i \in 1 .. q + 1 : CardLoaded(s[i], Filled(i - 1)) = Filled(i)
  <2> TAKE i \in 1 .. q + 1
  <2>1. CASE i \in 1 .. q
    <3> DEFINE j == i - 1
    <3>1. j \in Nat /\ j < q /\ i = j + 1 /\ ~(i > q) /\ ~(j > q)
      BY <1>1, <2>1
    <3>2. j * Card < 2 ^ DeckBits
      <4> DEFINE m == 2 ^ DeckBits
                 n == Card
                 addr == j * n
      <4>1. m \in Nat \ {0}
        BY PowerIsPositive, DeckAssumption
      <4>2. n \in Nat \ {0}
        BY DeckAssumption
      <4>3. addr \in Nat /\ addr + n <= len
        BY <3>1, CardsFit
      <4>4. len <= m
        BY Zenon
      <4> HIDE DEF m, n, addr
      <4>5. addr < m
        BY <4>1, <4>2, <4>3, <4>4
      <4>6. QED
        BY <4>5, Zenon DEF m, n, addr
    <3> HIDE DEF j
    <3>3. CardLoaded(CardAt(j), FileUpTo(j)) = FileUpTo(j + 1)
      BY <3>1, <3>2, OneCardLoaded
    <3>4. Filled(i - 1) = FileUpTo(j) /\ Filled(i) = FileUpTo(j + 1) /\ s[i] = CardAt(j)
      BY <1>1, <2>1, <3>1, Zenon DEF j
    <3>5. QED
      BY <3>3, <3>4, Zenon
  <2>2. CASE i \notin 1 .. q
    <3>1. i = q + 1 /\ i - 1 = q /\ i > q /\ ~(i - 1 > q)
      BY <1>1, <2>2
    <3>2. s[i] = End /\ Filled(i - 1) = FileUpTo(q) /\ Filled(i) = FileUpTo(q)
      BY <1>1, <3>1, Zenon
    <3>3. QED
      BY <3>2, EndLoaded, Zenon
  <2>3. QED
    BY <2>1, <2>2
<1> HIDE DEF Filled
<1>4. \A i \in 0 .. q + 1 : i = 0 \/ (i \in 1 .. q + 1 /\ i # 0 /\ i - 1 \in 0 .. q + 1)
  BY <1>1
<1>5. v = [i \in 0 .. q + 1 |-> IF i = 0 THEN << >> ELSE CardLoaded(s[i], v[i - 1])]
  <2>1. \A i \in 0 .. q + 1 : v[i] = Filled(i)
    BY Zenon
  <2> HIDE DEF v
  <2>2. \A i \in 0 .. q + 1 : Filled(i) = IF i = 0 THEN << >> ELSE CardLoaded(s[i], v[i - 1])
    BY <1>2, <1>3, <1>4, <2>1, Zenon
  <2>3. [i \in 0 .. q + 1 |-> Filled(i)] =
        [i \in 0 .. q + 1 |-> IF i = 0 THEN << >> ELSE CardLoaded(s[i], v[i - 1])]
    BY <2>2, Zenon
  <2>4. v = [i \in 0 .. q + 1 |-> Filled(i)]
    BY Zenon DEF v
  <2>5. QED
    BY <2>3, <2>4, Zenon
<1>6. u = [i \in 0 .. q + 1 |-> IF i = 0 THEN << >> ELSE CardLoaded(s[i], u[i - 1])]
  <2> HIDE DEF v
  <2>1. v = [i \in 0 .. Len(s) |-> IF i = 0 THEN << >> ELSE CardLoaded(s[i], v[i - 1])]
    BY <1>1, <1>5, Zenon
  <2>2. u = [i \in 0 .. Len(s) |-> IF i = 0 THEN << >> ELSE CardLoaded(s[i], u[i - 1])]
    BY <2>1, Zenon DEF MemoriesOf
  <2>3. QED
    BY <1>1, <2>2, Zenon
<1>7. LoadedFrom(s) = u[Len(s)]
  BY Zenon DEF LoadedFrom, MemoriesOf, CardLoaded
<1> HIDE DEF u, v
<1>8. \A i \in 0 .. q + 1 : u[i] = IF i = 0 THEN << >> ELSE CardLoaded(s[i], u[i - 1])
  BY <1>6, Zenon
<1> DEFINE P == {i \in 0 .. q + 1 : u[i] = Filled(i)}
<1>9. 0 \in P
  <2>1. 0 \in 0 .. q + 1
    BY <1>1
  <2>2. QED
    BY <1>2, <1>8, <2>1, Zenon
<1>10. ASSUME NEW i \in 1 .. q + 1, i - 1 \in P PROVE i \in P
  <2>1. i \in 0 .. q + 1 /\ i # 0
    BY <1>1
  <2>2. QED
    BY <1>3, <1>8, <1>10, <2>1, Zenon
<1>11. q + 1 \in Nat /\ q + 1 \in 0 .. q + 1 /\ q + 1 > q
  BY <1>1
<1> HIDE DEF P
<1>12. \A i \in 0 .. q + 1 : i \in P
  BY <1>9, <1>10, <1>11, UpTo
<1>13. u[q + 1] = FileUpTo(q)
  BY <1>11, <1>12, Zenon DEF P, Filled
<1>14. QED
  BY <1>1, <1>7, <1>13, Zenon DEF s

\* DeckLoadsTheFile of a call with operation op for len bytes that punched deck.
LoadsTheFile(len, deck) ==
  len <= 2 ^ DeckBits =>
    LET m == LoadedFrom(deck)
    IN /\ Last(deck) = End
       /\ DOMAIN m = 0 .. (len - (len % Card)) - 1
       /\ \A a \in DOMAIN m : m[a] = a

\* A run of bin2rec, and the calls beside it.
LEMMA DecksAlways ==
  ASSUME [DeckNext]_vars, DeckLoadsTheFile
  PROVE  DeckLoadsTheFile'
<1>1. ASSUME NEW len \in DeckLengths, Punch(len) PROVE DeckLoadsTheFile'
  <2>1. call' = [op |-> "punch", len |-> len] /\ text' = bin2rec(len)
    BY <1>1, Zenon DEF Punch
  <2>2. call'.op = "punch" /\ call'.len = len
    BY <2>1
  <2>3. len \in Nat
    BY DeckAssumption
  <2> DEFINE q == len \div Card
             n == len - (len % Card)
  <2>4. q \in Nat /\ q * Card = n
    BY <2>3, CardsFit
  <2> HIDE DEF q, n
  <2>5. text' = DeckFrom(0, q)
    BY <2>1, <2>3, DeckPunched, Zenon DEF q
  <2>6. LoadsTheFile(len, text')
    <3> SUFFICES ASSUME len <= 2 ^ DeckBits
                 PROVE  /\ Last(text') = End
                        /\ DOMAIN LoadedFrom(text') = 0 .. n - 1
                        /\ \A a \in DOMAIN LoadedFrom(text') : LoadedFrom(text')[a] = a
      BY Zenon DEF LoadsTheFile, n
    <3>1. LoadedFrom(text') = FileUpTo(q)
      BY <2>3, <2>5, DeckLoads, Zenon DEF q
    <3>2. LoadedFrom(text') = [a \in 0 .. q * Card - 1 |-> a]
      BY <3>1, Zenon DEF FileUpTo
    <3>3. Last(text') = End
      BY <2>4, <2>5, DeckCards, Zenon
    <3>4. QED
      BY <2>4, <3>2, <3>3, Zenon
  <2>7. LoadsTheFile(call'.len, text')
    BY <2>2, <2>6, Zenon
  <2>8. QED
    BY <2>7, Zenon DEF DeckLoadsTheFile, LoadsTheFile
<1>2. ASSUME call'.op # "punch" PROVE DeckLoadsTheFile'
  BY <1>2, Zenon DEF DeckLoadsTheFile
<1>3. ASSUME NEW e, KeCopyMemory(e) \/ KeMoveMemory(e) \/ RtlCopyMemory(e) \/ RtlMoveMemory(e)
      PROVE  call'.op # "punch"
  BY <1>3 DEF KeCopyMemory, KeMoveMemory, RtlCopyMemory, RtlMoveMemory
<1>4. ASSUME NEW e, NEW ends, KeCopyStringEx(e, ends) \/ KeConcatStringEx(e, ends)
      PROVE  call'.op # "punch"
  BY <1>4 DEF KeCopyStringEx, KeConcatStringEx, StringCall
<1>5. ASSUME NEW s, NEW t, Compare(s, t) \/ Find(s, t) PROVE call'.op # "punch"
  BY <1>5 DEF Compare, Find
<1>6. ASSUME NEW val, NEW blanks, Convert(val, blanks) PROVE call'.op # "punch"
  BY <1>6 DEF Convert
<1>7. ASSUME NEW n, NEW fmt, Format(n, fmt) PROVE call'.op # "punch"
  BY <1>7 DEF Format
<1>8. ASSUME Return PROVE call'.op # "punch"
  BY <1>8 DEF Return, NoCall
<1>9. ASSUME UNCHANGED vars PROVE DeckLoadsTheFile'
  <2>1. call' = call /\ text' = text
    BY <1>9 DEF vars
  <2>2. call.op = "punch" => LoadsTheFile(call.len, text)
    BY Zenon DEF DeckLoadsTheFile, LoadsTheFile
  <2>3. call'.op = "punch" => LoadsTheFile(call'.len, text')
    BY <2>1, <2>2, Zenon
  <2>4. QED
    BY <2>3, Zenon DEF DeckLoadsTheFile, LoadsTheFile
<1>10. QED
  BY <1>1, <1>2, <1>3, <1>4, <1>5, <1>6, <1>7, <1>8, <1>9 DEF DeckNext, DeckCall, Next, Halted

\* Whatever the lengths of the files, of the cards and of their addresses, a deck
\* loaded card by card is the file, less what does not fill its last card, as long as
\* the addresses fit (raw2mod.c:25-50).
THEOREM DecksSound == DeckSpec => []DeckLoadsTheFile
<1>1. Init => DeckLoadsTheFile
  BY DEF Init, NoCall, DeckLoadsTheFile
<1>2. QED
  BY <1>1, DecksAlways, PTL DEF DeckSpec

----------------------------------------------------------------------------
(* What numbers are printed and read as *)

\* What is added to two sets tells nothing of them, if it was in neither.
LEMMA SameWithout ==
  ASSUME NEW x, NEW X, NEW Y, x \notin X, x \notin Y, X \cup {x} = Y \cup {x}
  PROVE  X = Y
<1>1. \A z : z \in X \cup {x} <=> z \in X \/ z = x
  BY Zenon
<1>2. \A z : z \in X \cup {x} <=> z \in Y \/ z = x
  BY Zenon
<1>3. \A z : z \in X <=> z \in Y
  BY <1>1, <1>2, Zenon
<1>4. QED
  BY <1>3, Zenon

\* One more bit, twice as many words.
LEMMA PowerDoubles ==
  ASSUME NEW w \in Nat
  PROVE  2 ^ (w + 1) = 2 * 2 ^ w
<1> DEFINE S == 1 .. w
           x == w + 1
           A == SUBSET S
           f == [X \in A |-> X \cup {x}]
           B == {f[X] : X \in A}
<1>1. /\ IsFiniteSet(S) /\ Cardinality(S) = w /\ x \notin S
      /\ IsFiniteSet(S \cup {x}) /\ Cardinality(S \cup {x}) = x
  <2>1. IsFiniteSet(S) /\ Cardinality(S) = w /\ x \notin S
    BY FS_Interval
  <2>2. S \cup {x} = 1 .. w + 1
    OBVIOUS
  <2>3. IsFiniteSet(1 .. w + 1) /\ Cardinality(1 .. w + 1) = w + 1
    BY FS_Interval
  <2>4. QED
    BY <2>1, <2>2, <2>3, Zenon
<1> HIDE DEF S, x
<1>2. IsFiniteSet(A) /\ Cardinality(A) = 2 ^ w
  BY <1>1, FS_SUBSET, Zenon
<1>3. Cardinality(SUBSET (S \cup {x})) = 2 ^ x
  BY <1>1, FS_SUBSET, Zenon
<1>4. \A X \in A : f[X] = X \cup {x} /\ x \notin X
  BY <1>1, Zenon
<1> HIDE DEF f
<1>5. ExistsBijection(A, B)
  <2>1. f \in [A -> B]
    BY Zenon DEF f
  <2>2. ASSUME NEW X \in A, NEW Y \in A, f[X] = f[Y] PROVE X = Y
    <3>1. X \cup {x} = Y \cup {x} /\ x \notin X /\ x \notin Y
      BY <1>4, <2>2, Zenon
    <3>2. QED
      BY <3>1, SameWithout, Zenon
  <2>3. \A Y \in B : \E X \in A : f[X] = Y
    BY Zenon
  <2> HIDE DEF A, B
  <2>4. f \in Injection(A, B)
    <3>1. \A X, Y \in DOMAIN f : f[X] = f[Y] => X = Y
      BY <2>1, <2>2, Zenon
    <3>2. QED
      BY <2>1, <3>1, Zenon DEF Injection, IsInjective
  <2>5. f \in Surjection(A, B)
    BY <2>1, <2>3, Zenon DEF Surjection
  <2>6. QED
    BY <2>4, <2>5, Zenon DEF ExistsBijection, Bijection
<1>6. IsFiniteSet(B) /\ Cardinality(B) = Cardinality(A)
  BY <1>2, <1>5, FS_Bijection, Zenon
<1>7. \A Y \in B : x \in Y
  <2>1. \A X \in A : x \in X \cup {x}
    BY Zenon
  <2>2. \A X \in A : x \in f[X]
    BY <1>4, <2>1, Zenon
  <2>3. QED
    BY <2>2, Zenon
<1>8. SUBSET (S \cup {x}) = A \cup B
  <2>1. ASSUME NEW Y \in SUBSET (S \cup {x}) PROVE Y \in A \cup B
    <3>1. CASE x \notin Y
      BY <2>1, <3>1
    <3>2. CASE x \in Y
      <4> DEFINE X == Y \ {x}
      <4>1. X \in A /\ X \cup {x} = Y
        BY <2>1, <3>2
      <4> HIDE DEF X
      <4>2. f[X] = Y /\ f[X] \in B
        BY <1>4, <4>1, Zenon
      <4>3. QED
        BY <4>2, Zenon
    <3>3. QED
      BY <3>1, <3>2
  <2>2. ASSUME NEW X \in A PROVE X \in SUBSET (S \cup {x}) /\ f[X] \in SUBSET (S \cup {x})
    <3>1. X \cup {x} \in SUBSET (S \cup {x})
      OBVIOUS
    <3>2. QED
      BY <1>4, <3>1
  <2>3. ASSUME NEW Y \in B PROVE Y \in SUBSET (S \cup {x})
    <3>1. PICK X \in A : Y = f[X]
      BY Zenon
    <3>2. QED
      BY <2>2, <3>1, Zenon
  <2> HIDE DEF A, B
  <2>4. \A Y : Y \in SUBSET (S \cup {x}) <=> Y \in A \cup B
    BY <2>1, <2>2, <2>3, Zenon
  <2> DEFINE all == SUBSET (S \cup {x})
  <2> HIDE DEF all
  <2>5. \A Y : Y \in all <=> Y \in A \cup B
    BY <2>4, Zenon DEF all
  <2>6. QED
    BY <2>5, Zenon DEF all
<1>9. A \cap B = {}
  BY <1>1, <1>7, Zenon
<1> HIDE DEF A, B
<1>10. Cardinality(A \cup B) = Cardinality(A) + Cardinality(B) - Cardinality(A \cap B)
  BY <1>2, <1>6, FS_Union
<1>11. Cardinality(A \cap B) = 0
  BY <1>9, FS_EmptySet, Zenon
<1>12. 2 ^ w \in Nat
  BY PowerIsPositive
<1> DEFINE p == 2 ^ w
           r == 2 ^ x
<1> HIDE DEF p, r
<1>13. r = p + p - 0 /\ p \in Nat
  BY <1>2, <1>3, <1>6, <1>8, <1>10, <1>11, <1>12, Zenon DEF p, r
<1>14. r = 2 * p
  BY <1>13
<1>15. QED
  BY <1>14 DEF p, r, x

\* An int is one of 2h, half of them negative.
IsHalf(h) == h \in Nat \ {0} /\ 2 ^ IntBits = 2 * h /\ IntMin = -h /\ Ints = -h .. h - 1

\* As many ints are negative as are not.
LEMMA IntsAre == \E h : IsHalf(h)
<1> DEFINE w == IntBits - 1
           h == 2 ^ w
<1>1. w \in Nat /\ w + 1 = IntBits
  BY LibraryAssumption
<1>2. IntMin = -h
  BY DEF IntMin
<1> HIDE DEF w
<1>3. h \in Nat \ {0} /\ 2 ^ (w + 1) = 2 * h
  BY <1>1, PowerIsPositive, PowerDoubles, Zenon
<1>4. 2 ^ IntBits = 2 * h
  BY <1>1, <1>3, Zenon
<1> HIDE DEF h
<1>5. Ints = -h .. h - 1
  BY <1>2, <1>3 DEF Ints
<1>6. QED
  BY <1>2, <1>3, <1>4, <1>5, Zenon DEF IsHalf

\* An int is kept as it is, and what is one more than the largest comes out as the
\* least (printf.c:55).
LEMMA WrappedAround ==
  ASSUME NEW h, IsHalf(h)
  PROVE  /\ \A x \in Ints : Wrapped(x) = x
         /\ Wrapped(h) = -h
<1>1. \A x \in Int : Wrapped(x) = ((x - (-h)) % (2 * h)) + (-h)
  BY Zenon DEF Wrapped, IsHalf
<1>2. h \in Nat \ {0} /\ Ints = -h .. h - 1
  BY DEF IsHalf
<1>3. ASSUME NEW x \in -h .. h - 1 PROVE ((x - (-h)) % (2 * h)) + (-h) = x
  <2>1. x - (-h) \in 0 .. 2 * h - 1 /\ 2 * h \in Nat \ {0}
    BY <1>2
  <2>2. \A m \in Nat \ {0} : \A y \in 0 .. m - 1 : y % m = y
    OBVIOUS
  <2>3. (x - (-h)) % (2 * h) = x - (-h)
    BY <2>1, <2>2, Zenon
  <2>4. QED
    BY <1>2, <2>3
<1>4. ((h - (-h)) % (2 * h)) + (-h) = -h
  <2>1. h - (-h) = 2 * h /\ 2 * h \in Nat \ {0}
    BY <1>2
  <2>2. \A m \in Nat \ {0} : m % m = 0
    OBVIOUS
  <2>3. (2 * h) % (2 * h) = 0
    BY <2>1, <2>2, Zenon
  <2>4. QED
    BY <1>2, <2>1, <2>3
<1>5. h \in Int /\ \A x \in Ints : x \in Int
  BY <1>2
<1>6. QED
  BY <1>1, <1>2, <1>3, <1>4, <1>5, Zenon

\* How far from 0.
Far(x) == IF x < 0 THEN -x ELSE x

\* A quotient is at most half as far from 0, on the same side, as is the remainder
\* (printf.c:58-60).
LEMMA Tens ==
  ASSUME NEW x \in Int
  PROVE  /\ Quotient(x, 10) \in Int /\ Remainder(x, 10) \in Int
         /\ x = 10 * Quotient(x, 10) + Remainder(x, 10)
         /\ 2 * Far(Quotient(x, 10)) <= Far(x)
         /\ x >= 0 => Quotient(x, 10) \in 0 .. x /\ Remainder(x, 10) \in 0 .. 9
         /\ x < 0 => Quotient(x, 10) \in x .. 0 /\ Remainder(x, 10) \in -9 .. 0
<1>1. CASE x >= 0
  <2> DEFINE y == x \div 10
             r == x % 10
  <2>1. y \in Int /\ r \in 0 .. 9 /\ x = 10 * y + r
    OBVIOUS
  <2>2. Quotient(x, 10) = y
    BY <1>1 DEF Quotient
  <2> HIDE DEF y, r
  <2>3. Remainder(x, 10) = r
    BY <2>1, <2>2 DEF Remainder
  <2>4. QED
    BY <1>1, <2>1, <2>2, <2>3 DEF Far
<1>2. CASE x < 0
  <2> DEFINE y == (-x) \div 10
             r == (-x) % 10
  <2>1. y \in Int /\ r \in 0 .. 9 /\ -x = 10 * y + r
    OBVIOUS
  <2>2. Quotient(x, 10) = -y
    BY <1>2 DEF Quotient
  <2> HIDE DEF y, r
  <2>3. Remainder(x, 10) = -r
    BY <2>1, <2>2 DEF Remainder
  <2>4. 2 * Far(-y) <= Far(x) /\ -y \in x .. 0 /\ -r \in -9 .. 0 /\ x = 10 * (-y) + (-r)
    BY <1>2, <2>1 DEF Far
  <2>5. QED
    BY <1>2, <2>1, <2>2, <2>3, <2>4
<1>3. QED
  BY <1>1, <1>2

IsQuotients(val, u) == u = [j \in 0 .. IntBits |-> IF j = 0 THEN val ELSE Quotient(u[j - 1], 10)]
QuotientsOf(val) == CHOOSE u : IsQuotients(val, u)

Divides(val, u) ==
  /\ u[0] = val /\ \A j \in 0 .. IntBits : u[j] \in Int
  /\ \A j \in 1 .. IntBits : u[j] = Quotient(u[j - 1], 10)

\* itoa divides by 10 over and over (printf.c:57-62).
LEMMA QuotientSteps ==
  ASSUME NEW val \in Int
  PROVE  Divides(val, QuotientsOf(val))
<1> DEFINE n == IntBits
           Step == [j \in 1 .. n |-> [x \in Int |-> Quotient(x, 10)]]
           u == QuotientsOf(val)
<1>1. n \in Nat
  BY LibraryAssumption
<1>2. \A x \in Int : Quotient(x, 10) \in Int
  BY Tens, Zenon
<1>3. Step \in [1 .. n -> [Int -> Int]] /\ \A j \in 1 .. n : \A x \in Int : Step[j][x] = Quotient(x, 10)
  <2>1. [x \in Int |-> Quotient(x, 10)] \in [Int -> Int]
    BY <1>2, Zenon
  <2>2. Step \in [1 .. n -> [Int -> Int]]
    BY <2>1, Zenon
  <2>3. QED
    BY <2>2, Zenon
<1> HIDE DEF Step, n
<1>4. PICK v : v \in [0 .. n -> Int] /\ v[0] = val /\ \A j \in 1 .. n : v[j] = Step[j][v[j - 1]]
  <2>1. \E v : IsLoop(v, Int, val, n, Step)
    BY <1>1, <1>3, LoopExists, Zenon
  <2>2. QED
    BY <2>1, Zenon DEF IsLoop
<1>5. IsQuotients(val, v)
  <2>1. \A j \in 1 .. n : j - 1 \in 0 .. n /\ j # 0
    BY <1>1
  <2>2. \A j \in 1 .. n : v[j] = Quotient(v[j - 1], 10)
    BY <1>3, <1>4, <2>1, Zenon
  <2>3. \A j \in 0 .. n : j = 0 \/ j \in 1 .. n
    BY <1>1
  <2>4. \A j \in 0 .. n : v[j] = IF j = 0 THEN val ELSE Quotient(v[j - 1], 10)
    BY <1>4, <2>1, <2>2, <2>3, Zenon
  <2>5. v = [j \in 0 .. n |-> v[j]]
    BY <1>4, Zenon
  <2>6. [j \in 0 .. n |-> v[j]] = [j \in 0 .. n |-> IF j = 0 THEN val ELSE Quotient(v[j - 1], 10)]
    BY <2>4, Zenon
  <2>7. QED
    BY <2>5, <2>6, Zenon DEF IsQuotients, n
<1>6. IsQuotients(val, u)
  BY <1>5, Zenon DEF QuotientsOf
<1> HIDE DEF u
<1>7. \A j \in 0 .. n : u[j] = IF j = 0 THEN val ELSE Quotient(u[j - 1], 10)
  BY <1>6, Zenon DEF IsQuotients, n
<1>8. u[0] = val /\ \A j \in 1 .. n : u[j] = Quotient(u[j - 1], 10)
  <2>1. 0 \in 0 .. n /\ \A j \in 1 .. n : j \in 0 .. n /\ j # 0
    BY <1>1
  <2>2. QED
    BY <1>7, <2>1, Zenon
<1>9. \A j \in 0 .. n : u[j] \in Int
  <2> DEFINE P == {j \in 0 .. n : u[j] \in Int}
  <2>1. 0 \in P
    BY <1>1, <1>8
  <2>2. ASSUME NEW j \in 1 .. n, j - 1 \in P PROVE j \in P
    <3>1. u[j - 1] \in Int /\ j \in 0 .. n
      BY <1>1, <2>2
    <3>2. QED
      BY <1>2, <1>8, <3>1, Zenon
  <2> HIDE DEF P
  <2>3. \A j \in 0 .. n : j \in P
    BY <1>1, <2>1, <2>2, UpTo
  <2>4. QED
    BY <2>3, Zenon DEF P
<1>10. QED
  BY <1>8, <1>9, Zenon DEF Divides, u, n

\* Every quotient is at least twice as near to 0 as the one before, so after as many
\* divisions as an int has bits nothing is left.
LEMMA NothingIsLeft ==
  ASSUME NEW h, IsHalf(h), NEW val \in Int, Far(val) <= h, NEW u, Divides(val, u)
  PROVE  u[IntBits] = 0
<1> DEFINE n == IntBits
           P == {j \in 0 .. n : 2 ^ j * Far(u[j]) <= h}
<1>1. n \in Nat /\ h \in Nat \ {0} /\ 2 ^ n = 2 * h
  BY LibraryAssumption DEF IsHalf
<1>2. /\ u[0] = val
      /\ \A j \in 0 .. n : u[j] \in Int
      /\ \A j \in 1 .. n : u[j] = Quotient(u[j - 1], 10)
  BY Zenon DEF Divides
<1>3. \A x \in Int : Far(x) \in Nat
  BY DEF Far
<1> HIDE DEF n
<1>4. 0 \in P
  <2>1. 2 ^ 0 = 1 /\ 0 \in 0 .. n
    BY <1>1
  <2>2. Far(val) \in Nat
    BY <1>3
  <2>3. 1 * Far(val) <= h
    BY <1>1, <2>2
  <2>4. 2 ^ 0 * Far(u[0]) <= h
    BY <1>2, <2>1, <2>3, Zenon
  <2>5. QED
    BY <2>1, <2>4, Zenon
<1>5. ASSUME NEW j \in 1 .. n, j - 1 \in P PROVE j \in P
  <2> DEFINE i == j - 1
             p == 2 ^ i
             a == Far(u[i])
             b == Far(u[j])
  <2>1. i \in Nat /\ i \in 0 .. n /\ i + 1 = j /\ j \in 0 .. n
    BY <1>1
  <2>2. p \in Nat \ {0} /\ 2 ^ (i + 1) = 2 * p
    BY <2>1, PowerIsPositive, PowerDoubles, Zenon
  <2>3. u[i] \in Int /\ u[j] \in Int /\ u[j] = Quotient(u[i], 10) /\ p * a <= h
    BY <1>2, <1>5, <2>1, Zenon
  <2>4. a \in Nat /\ b \in Nat /\ 2 * b <= a
    BY <1>3, <2>3, Tens, Zenon
  <2> HIDE DEF p, a, b, i
  <2>5. \A x \in Nat \ {0} : \A y, z \in Nat : 2 * z <= y /\ x * y <= h => (2 * x) * z <= h
    <3> SUFFICES ASSUME NEW x \in Nat \ {0}, NEW y \in Nat, NEW z \in Nat, 2 * z <= y, x * y <= h
                 PROVE  (2 * x) * z <= h
      OBVIOUS
    <3>1. x * (2 * z) <= x * y
      OBVIOUS
    <3>2. (2 * x) * z = x * (2 * z) /\ x * (2 * z) \in Nat /\ x * y \in Nat
      OBVIOUS
    <3>3. QED
      BY <1>1, <3>1, <3>2
  <2>6. (2 * p) * b <= h
    BY <2>2, <2>3, <2>4, <2>5, Zenon
  <2>7. 2 ^ j * Far(u[j]) <= h
    BY <2>1, <2>2, <2>6, Zenon DEF b
  <2>8. QED
    BY <2>1, <2>7, Zenon
<1> HIDE DEF P
<1>6. n \in P
  BY <1>1, <1>4, <1>5, UpTo
<1> DEFINE x == u[n]
<1>7. (2 * h) * Far(x) <= h /\ x \in Int
  <2>1. n \in 0 .. n
    BY <1>1
  <2>2. QED
    BY <1>1, <1>2, <1>6, <2>1, Zenon DEF P
<1> HIDE DEF x
<1>8. Far(x) = 0
  <2>1. Far(x) \in Nat
    BY <1>3, <1>7
  <2>2. \A y \in Nat \ {0} : ~((2 * h) * y <= h)
    <3> SUFFICES ASSUME NEW y \in Nat \ {0} PROVE ~((2 * h) * y <= h)
      OBVIOUS
    <3>1. (2 * h) * y >= 2 * h
      BY <1>1
    <3>2. QED
      BY <1>1, <3>1
  <2>3. QED
    BY <1>7, <2>1, <2>2
<1>9. x = 0
  BY <1>7, <1>8 DEF Far
<1>10. QED
  BY <1>9, Zenon DEF x, n

\* The digits d of val: with n of them, the n quotients before the first that is 0.
IsNumeral(val, u, n, d) ==
  /\ n \in 0 .. IntBits /\ u[n] = 0 /\ \A j \in 0 .. n - 1 : u[j] # 0
  /\ d = [i \in 1 .. n |-> Remainder(u[n - i], 10) + Zero]

\* itoa writes the remainders of the quotients, the last first (printf.c:57-65).
LEMMA DigitsAre ==
  ASSUME NEW h, IsHalf(h), NEW val \in Int, Far(val) <= h
  PROVE  /\ Divides(val, QuotientsOf(val))
         /\ \E n : IsNumeral(val, QuotientsOf(val), n, Digits(val))
<1> DEFINE u == QuotientsOf(val)
           T == {j \in 0 .. IntBits : u[j] = 0}
           n == Min(T)
<1>1. Divides(val, u)
  BY QuotientSteps
<1>2. Digits(val) = [i \in 1 .. n |-> Remainder(u[n - i], 10) + Zero]
  BY DEF Digits, QuotientsOf, IsQuotients
<1> HIDE DEF u
<1>3. u[IntBits] = 0 /\ IntBits \in Nat
  BY <1>1, NothingIsLeft, LibraryAssumption
<1>4. T \in SUBSET Nat /\ T # {}
  BY <1>3
<1>5. Min(T) \in T /\ \A k \in T : Min(T) <= k
  BY <1>4, MinIsLeast, Zenon
<1>6. n \in 0 .. IntBits /\ u[n] = 0
  BY <1>5, Zenon
<1>7. \A j \in 0 .. IntBits : u[j] = 0 => n <= j
  BY <1>5, Zenon
<1> HIDE DEF n, T
<1>8. \A j \in 0 .. n - 1 : u[j] # 0
  <2>1. \A j \in 0 .. n - 1 : j \in 0 .. IntBits /\ ~(n <= j)
    BY <1>3, <1>6
  <2>2. QED
    BY <1>7, <2>1, Zenon
<1>9. IsNumeral(val, u, n, Digits(val))
  BY <1>2, <1>6, <1>8, Zenon DEF IsNumeral
<1>10. QED
  BY <1>1, <1>9, Zenon DEF u

\* What the digits are: of a positive number, 0 to 9, and the number before the next
\* digit is ten times what it was; of a negative one, each is as far below 0.
LEMMA DigitsMean ==
  ASSUME NEW val \in Int, NEW u, NEW n, NEW d, Divides(val, u), IsNumeral(val, u, n, d), val # 0
  PROVE  /\ n \in Nat \ {0} /\ d \in Seq(Int) /\ Len(d) = n
         /\ \A i \in 1 .. n : u[n - i] = 10 * u[n - (i - 1)] + (d[i] - Zero)
         /\ val > 0 => \A i \in 1 .. n : d[i] \in Zero .. Zero + 9
         /\ val > 0 => \A j \in 0 .. n : u[j] \in 0 .. val
         /\ val < 0 => d[1] \in Zero - 9 .. Zero - 1
<1>1. n \in Nat /\ n <= IntBits /\ IntBits \in Nat
  BY LibraryAssumption DEF IsNumeral
<1>2. n # 0
  BY DEF IsNumeral, Divides
<1>3. /\ \A j \in 0 .. IntBits : u[j] \in Int
      /\ \A j \in 1 .. IntBits : u[j] = Quotient(u[j - 1], 10)
      /\ u[0] = val
  BY Zenon DEF Divides
<1>4. /\ d = [i \in 1 .. n |-> Remainder(u[n - i], 10) + Zero]
      /\ u[n] = 0 /\ \A j \in 0 .. n - 1 : u[j] # 0
  BY Zenon DEF IsNumeral
<1>5. \A i \in 1 .. n : d[i] = Remainder(u[n - i], 10) + Zero
  BY <1>4, Zenon
<1>6. ASSUME NEW i \in 1 .. n
      PROVE  /\ n - i \in 0 .. n - 1 /\ n - i \in 0 .. IntBits
             /\ n - (i - 1) \in 1 .. IntBits /\ (n - (i - 1)) - 1 = n - i
  BY <1>1
<1>7. ASSUME NEW i \in 1 .. n
      PROVE  /\ u[n - i] \in Int /\ u[n - (i - 1)] = Quotient(u[n - i], 10)
             /\ d[i] \in Int /\ d[i] - Zero = Remainder(u[n - i], 10)
  <2> DEFINE x == u[n - i]
  <2>1. x \in Int /\ u[n - (i - 1)] = Quotient(x, 10) /\ d[i] = Remainder(x, 10) + Zero
    BY <1>3, <1>5, <1>6, Zenon
  <2> HIDE DEF x
  <2>2. Remainder(x, 10) \in Int
    BY <2>1, Tens, Zenon
  <2> DEFINE r == Remainder(x, 10)
  <2> HIDE DEF r
  <2>3. r \in Int /\ d[i] = r + Zero
    BY <2>1, <2>2, Zenon DEF r
  <2>4. d[i] \in Int /\ d[i] - Zero = r
    BY <2>3 DEF Zero
  <2>5. QED
    BY <2>1, <2>4, Zenon DEF x, r
<1>8. d \in Seq(Int) /\ Len(d) = n
  BY <1>1, <1>4, <1>7
<1>9. ASSUME NEW i \in 1 .. n PROVE u[n - i] = 10 * u[n - (i - 1)] + (d[i] - Zero)
  <2>1. u[n - i] \in Int /\ u[n - (i - 1)] = Quotient(u[n - i], 10) /\ d[i] - Zero = Remainder(u[n - i], 10)
    BY <1>7, Zenon
  <2>2. u[n - i] = 10 * Quotient(u[n - i], 10) + Remainder(u[n - i], 10)
    BY <2>1, Tens, Zenon
  <2>3. QED
    BY <2>1, <2>2, Zenon
<1> DEFINE Above == {j \in 0 .. n : u[j] \in 0 .. val}
           Below == {j \in 0 .. n : u[j] <= 0}
<1>10. ASSUME NEW j \in 1 .. n
       PROVE  /\ j \in 0 .. n /\ j - 1 \in 0 .. n
              /\ u[j] \in Int /\ u[j - 1] \in Int
              /\ val > 0 /\ u[j - 1] \in 0 .. val => u[j] \in 0 .. val
              /\ u[j - 1] <= 0 => u[j] <= 0
  <2>1. j \in 1 .. IntBits /\ j - 1 \in 0 .. IntBits /\ j \in 0 .. IntBits /\ j \in 0 .. n /\ j - 1 \in 0 .. n
    BY <1>1
  <2> DEFINE x == u[j - 1]
             y == u[j]
  <2>2. x \in Int /\ y \in Int /\ y = Quotient(x, 10)
    BY <1>3, <2>1, Zenon
  <2> HIDE DEF x, y
  <2>3. (x >= 0 => y \in 0 .. x) /\ (x < 0 => y \in x .. 0)
    BY <2>2, Tens, Zenon
  <2>4. (val > 0 /\ x \in 0 .. val => y \in 0 .. val) /\ (x <= 0 => y <= 0)
    BY <2>2, <2>3
  <2>5. QED
    BY <2>1, <2>2, <2>4, Zenon DEF x, y
<1>11. val > 0 => \A j \in 0 .. n : u[j] \in 0 .. val
  <2> SUFFICES ASSUME val > 0 PROVE \A j \in 0 .. n : j \in Above
    BY Zenon
  <2>1. 0 \in Above
    BY <1>1, <1>3
  <2>2. ASSUME NEW j \in 1 .. n, j - 1 \in Above PROVE j \in Above
    BY <1>10, <2>2, Zenon
  <2> HIDE DEF Above
  <2>3. QED
    BY <1>1, <2>1, <2>2, UpTo
<1>12. val < 0 => \A j \in 0 .. n : u[j] <= 0
  <2> SUFFICES ASSUME val < 0 PROVE \A j \in 0 .. n : j \in Below
    BY Zenon
  <2>1. 0 \in Below
    BY <1>1, <1>3
  <2>2. ASSUME NEW j \in 1 .. n, j - 1 \in Below PROVE j \in Below
    BY <1>10, <2>2, Zenon
  <2> HIDE DEF Below
  <2>3. QED
    BY <1>1, <2>1, <2>2, UpTo
<1>13. ASSUME val > 0, NEW i \in 1 .. n PROVE d[i] \in Zero .. Zero + 9
  <2> DEFINE x == u[n - i]
             r == Remainder(x, 10)
  <2>1. n - i \in 0 .. n
    BY <1>1
  <2>2. x \in Int /\ x \in 0 .. val /\ d[i] \in Int /\ d[i] - Zero = r
    BY <1>7, <1>11, <1>13, <2>1, Zenon
  <2>3. r \in 0 .. 9
    <3>1. x >= 0
      BY <2>2
    <3>2. QED
      BY <2>2, <3>1, Tens, Zenon
  <2> HIDE DEF x, r
  <2>4. QED
    BY <2>2, <2>3 DEF Zero
<1>14. ASSUME val < 0 PROVE d[1] \in Zero - 9 .. Zero - 1
  <2> DEFINE x == u[n - 1]
             y == u[n]
             r == Remainder(x, 10)
  <2>1. 1 \in 1 .. n /\ n - 1 \in 0 .. n - 1 /\ n - 1 \in 0 .. n /\ n - (1 - 1) = n
    BY <1>1, <1>2
  <2>2. x \in Int /\ x <= 0 /\ x # 0 /\ y = 0 /\ y = Quotient(x, 10) /\ d[1] \in Int /\ d[1] - Zero = r
    BY <1>4, <1>7, <1>12, <1>14, <2>1, Zenon
  <2>3. r \in Int /\ x = 10 * Quotient(x, 10) + r /\ (x < 0 => r \in -9 .. 0)
    BY <2>2, Tens, Zenon
  <2> HIDE DEF x, y, r
  <2>4. x = 10 * 0 + r
    BY <2>2, <2>3, Zenon
  <2>5. x < 0 /\ x = r
    BY <2>2, <2>3, <2>4
  <2>6. r \in -9 .. -1
    BY <2>2, <2>3, <2>5
  <2>7. QED
    BY <2>2, <2>6 DEF Zero
<1>15. n \in Nat \ {0}
  BY <1>1, <1>2
<1>16. QED
  BY <1>8, <1>9, <1>11, <1>13, <1>14, <1>15, Zenon

\* KeSpanString counts the characters up to the first that is not accepted (memory.c:118-142).
LEMMA SpanIs ==
  ASSUME NEW s \in Seq(Int), NEW accept, NEW k \in 0 .. Len(s), NUL \notin accept,
         \A i \in 1 .. k : s[i] \in accept,
         k < Len(s) => s[k + 1] \notin accept
  PROVE  KeSpanString(s, accept) = k
<1> DEFINE T == {i \in 0 .. Len(s) : At(s, i + 1) \notin accept}
<1>1. KeSpanString(s, accept) = Min(T)
  BY DEF KeSpanString
<1>2. Len(s) \in Nat /\ DOMAIN s = 1 .. Len(s)
  OBVIOUS
<1>3. \A i \in 1 .. Len(s) : At(s, i) = s[i]
  BY <1>2 DEF At
<1>4. At(s, Len(s) + 1) = NUL
  BY <1>2 DEF At
<1>5. k \in T
  <2>1. CASE k < Len(s)
    <3>1. k + 1 \in 1 .. Len(s)
      BY <1>2, <2>1
    <3>2. At(s, k + 1) \notin accept
      BY <1>3, <2>1, <3>1, Zenon
    <3>3. QED
      BY <3>2
  <2>2. CASE k = Len(s)
    BY <1>4, <2>2
  <2>3. k < Len(s) \/ k = Len(s)
    <3>1. \A m \in Nat : \A j \in 0 .. m : j < m \/ j = m
      OBVIOUS
    <3>2. QED
      BY <1>2, <3>1, Zenon
  <2>4. QED
    BY <2>1, <2>2, <2>3, Zenon
<1>6. ASSUME NEW i \in T PROVE i >= k
  <2>1. i \in Nat /\ At(s, i + 1) \notin accept
    BY <1>2
  <2>2. ASSUME i < k PROVE FALSE
    <3>1. i + 1 \in 1 .. k /\ i + 1 \in 1 .. Len(s)
      BY <1>2, <2>1, <2>2
    <3>2. At(s, i + 1) \in accept
      BY <1>3, <3>1, Zenon
    <3>3. QED
      BY <2>1, <3>2
  <2>3. QED
    BY <1>2, <2>1, <2>2
<1>7. T \in SUBSET Nat
  BY <1>2
<1> HIDE DEF T
<1>8. Min(T) \in T /\ Min(T) \in Nat /\ \A j \in T : Min(T) <= j
  BY <1>5, <1>7, MinIsLeast
<1>9. Min(T) = k
  BY <1>5, <1>6, <1>8
<1>10. QED
  BY <1>1, <1>9, Zenon

IsRead(s, first, last, u) ==
  u = [i \in first - 1 .. last |-> IF i < first THEN 0 ELSE Wrapped(u[i - 1] * 10 + s[i] - Zero)]
ReadOf(s, first, last) == CHOOSE u : IsRead(s, first, last, u)

\* w[i] is what the first i of k digits from a place on make.
Makes(s, first, k, w) ==
  w[0] = 0 /\ \A i \in 1 .. k : w[i] = Wrapped(w[i - 1] * 10 + s[first - 1 + i] - Zero)

\* The number that k digits from the place `first' on are read as, one digit after the
\* other (memory.c:229-233), when it is w[i] after i of them.
LEMMA ReadSteps ==
  ASSUME NEW s, NEW first \in Nat \ {0}, NEW k \in Nat, NEW w, Makes(s, first, k, w)
  PROVE  ReadOf(s, first, first - 1 + k)[first - 1 + k] = w[k]
<1> DEFINE last == first - 1 + k
           v == [i \in first - 1 .. last |-> w[i - (first - 1)]]
           u == ReadOf(s, first, last)
           Next10(x, i) == Wrapped(x * 10 + s[i] - Zero)
<1>1. last \in Nat /\ first - 1 \in Nat /\ first - 1 <= last
  OBVIOUS
<1>2. w[0] = 0 /\ \A i \in 1 .. k : w[i] = Next10(w[i - 1], first - 1 + i)
  BY Zenon DEF Makes
<1> HIDE DEF Next10
<1>3. ASSUME NEW i \in first - 1 .. last
      PROVE  w[i - (first - 1)] = IF i < first THEN 0 ELSE Next10(v[i - 1], i)
  <2>1. CASE i < first
    <3>1. i - (first - 1) = 0
      BY <2>1
    <3>2. QED
      BY <1>2, <2>1, <3>1, Zenon
  <2>2. CASE ~(i < first)
    <3> DEFINE j == i - (first - 1)
    <3>1. /\ j \in 1 .. k /\ first - 1 + j = i /\ i - 1 \in first - 1 .. last
          /\ (i - 1) - (first - 1) = j - 1
      BY <1>1, <2>2
    <3> HIDE DEF j, last
    <3>2. w[j] = Next10(w[j - 1], i)
      BY <1>2, <3>1, Zenon
    <3>3. v[i - 1] = w[j - 1]
      <4>1. v[i - 1] = w[(i - 1) - (first - 1)]
        BY <3>1, Zenon
      <4>2. QED
        BY <3>1, <4>1, Zenon
    <3>4. QED
      BY <2>2, <3>2, <3>3, Zenon DEF j
  <2>3. QED
    BY <2>1, <2>2, Zenon
<1> HIDE DEF last
<1>4. IsRead(s, first, last, v)
  <2>1. v = [i \in first - 1 .. last |-> IF i < first THEN 0 ELSE Next10(v[i - 1], i)]
    <3>1. \A i \in first - 1 .. last : v[i] = IF i < first THEN 0 ELSE Next10(v[i - 1], i)
      BY <1>3, Zenon
    <3>2. v = [i \in first - 1 .. last |-> v[i]]
      BY Zenon
    <3> HIDE DEF v
    <3>3. [i \in first - 1 .. last |-> v[i]]
            = [i \in first - 1 .. last |-> IF i < first THEN 0 ELSE Next10(v[i - 1], i)]
      BY <3>1, Zenon
    <3>4. QED
      BY <3>2, <3>3, Zenon
  <2> HIDE DEF v
  <2>2. QED
    BY <2>1, Zenon DEF IsRead, Next10
<1> HIDE DEF v
<1>5. IsRead(s, first, last, u)
  BY <1>4, Zenon DEF ReadOf
<1> HIDE DEF u
<1>6. u = [i \in first - 1 .. last |-> IF i < first THEN 0 ELSE Next10(u[i - 1], i)]
  BY <1>5, Zenon DEF IsRead, Next10
<1>7. \A i \in first - 1 .. last : u[i] = IF i < first THEN 0 ELSE Next10(u[i - 1], i)
  BY <1>6, Zenon
<1> DEFINE P == {j \in 0 .. k : u[first - 1 + j] = w[j]}
<1>8. 0 \in P
  <2>1. first - 1 + 0 = first - 1 /\ first - 1 \in first - 1 .. last /\ first - 1 < first
    BY <1>1
  <2>2. u[first - 1 + 0] = w[0]
    BY <1>2, <1>7, <2>1, Zenon
  <2>3. QED
    BY <2>2
<1>9. ASSUME NEW j \in 1 .. k, j - 1 \in P PROVE j \in P
  <2> DEFINE i == first - 1 + j
  <2>1. i \in first - 1 .. last /\ ~(i < first) /\ i - 1 = first - 1 + (j - 1) /\ j \in 0 .. k
    BY <1>1 DEF last
  <2> HIDE DEF i
  <2>2. u[i] = Next10(u[i - 1], i) /\ u[i - 1] = w[j - 1]
    BY <1>7, <1>9, <2>1, Zenon
  <2>3. w[j] = Next10(w[j - 1], i)
    BY <1>2, Zenon DEF i
  <2>4. u[i] = w[j]
    BY <2>2, <2>3, Zenon
  <2>5. QED
    BY <2>1, <2>4, Zenon DEF i
<1> HIDE DEF P
<1>10. \A j \in 0 .. k : j \in P
  BY <1>8, <1>9, UpTo
<1>11. k \in P
  BY <1>10
<1>12. QED
  BY <1>11, Zenon DEF P, u, last

\* A sign and the digits behind it, behind what is blank.
Signed(neg, d) == IF neg THEN <<Minus>> \o d ELSE d
BlankStrings == {<< >>} \cup {<<b>> : b \in Blanks}

IsText(s, neg, d, first) ==
  /\ s \in Seq(Int) /\ first \in Nat \ {0}
  /\ \A i \in 1 .. Len(d) : s[first - 1 + i] = d[i]
  /\ Rest(s, first) = d
  /\ KeConvertStringToInt(s) =
       LET last == first - 1 + KeSpanString(d, Zero .. Zero + 9)
       IN Wrapped(IF neg THEN -ReadOf(s, first, last)[last] ELSE ReadOf(s, first, last)[last])

\* Where the parts are of what is joined.
LEMMA Joined ==
  ASSUME NEW p \in Seq(Int), NEW q \in Seq(Int)
  PROVE  /\ p \o q \in Seq(Int) /\ Len(p \o q) = Len(p) + Len(q)
         /\ \A i \in 1 .. Len(p) : (p \o q)[i] = p[i]
         /\ \A i \in 1 .. Len(q) : (p \o q)[Len(p) + i] = q[i]
  OBVIOUS

\* What is behind a place of a text.
LEMMA RestOfText ==
  ASSUME NEW s \in Seq(Int), NEW first \in Nat \ {0}, NEW m \in Nat \ {0}, Len(s) = first - 1 + m,
         NEW t, t = SubSeq(s, first, Len(s))
  PROVE  t \in Seq(Int) /\ Len(t) = m /\ \A i \in 1 .. m : t[i] = s[first - 1 + i]
  OBVIOUS

\* Blanks and the sign are skipped and the rest is read as digits, if it begins with
\* neither (memory.c:223-227).
LEMMA TextIs ==
  ASSUME NEW blanks \in BlankStrings, NEW neg \in BOOLEAN, NEW d \in Seq(Int), Len(d) >= 1,
         d[1] \notin Blanks \cup {Minus}
  PROVE  IsText(blanks \o Signed(neg, d), neg, d, Len(blanks) + (IF neg THEN 2 ELSE 1))
<1> DEFINE rest == Signed(neg, d)
           s == blanks \o rest
           b == Len(blanks)
           g == IF neg THEN 1 ELSE 0
           first == b + (IF neg THEN 2 ELSE 1)
<1>1. /\ blanks \in Seq(Int) /\ b \in 0 .. 1 /\ \A i \in 1 .. b : blanks[i] \in Blanks
      /\ NUL \notin Blanks /\ Minus \notin Blanks /\ Minus \in Int
  <2>1. blanks = << >> \/ \E x \in Blanks : blanks = <<x>>
    BY Zenon DEF BlankStrings
  <2>2. CASE blanks = << >>
    BY <2>2 DEF Blanks, NUL, Minus
  <2>3. ASSUME NEW x \in Blanks, blanks = <<x>>
        PROVE  blanks \in Seq(Int) /\ b = 1 /\ blanks[1] = x
    BY <2>3 DEF Blanks
  <2>4. NUL \notin Blanks /\ Minus \notin Blanks /\ Minus \in Int
    BY DEF Blanks, NUL, Minus
  <2>5. ASSUME NEW x \in Blanks, blanks = <<x>>
        PROVE  blanks \in Seq(Int) /\ b \in 0 .. 1 /\ \A i \in 1 .. b : blanks[i] \in Blanks
    <3>1. blanks \in Seq(Int) /\ b = 1 /\ blanks[1] = x
      BY <2>3, <2>5
    <3> HIDE DEF b
    <3>2. b \in 0 .. 1 /\ \A i \in 1 .. b : i = 1
      BY <3>1
    <3>3. QED
      BY <3>1, <3>2, Zenon
  <2>6. QED
    BY <2>1, <2>2, <2>4, <2>5, Zenon
<1>2. g \in 0 .. 1 /\ first = b + g + 1 /\ (neg <=> g = 1)
  BY <1>1
<1>3. /\ rest \in Seq(Int) /\ Len(rest) = g + Len(d)
      /\ \A i \in 1 .. Len(d) : rest[g + i] = d[i]
      /\ neg => rest[1] = Minus
  <2>1. CASE neg
    BY <1>1, <2>1 DEF Signed
  <2>2. CASE ~neg
    BY <2>2 DEF Signed
  <2>3. QED
    BY <2>1, <2>2
<1> DEFINE m == Len(d)
<1>4. m \in Nat \ {0} /\ m >= 1
  OBVIOUS
<1> HIDE DEF rest, b, g, first
<1>5. rest[1] \notin Blanks /\ (rest[1] = Minus <=> neg)
  <2>1. CASE neg
    BY <1>1, <1>3, <2>1
  <2>2. CASE ~neg
    <3>1. g = 0 /\ 1 \in 1 .. Len(d)
      BY <1>2, <1>4, <2>2
    <3>2. rest[g + 1] = d[1] /\ g + 1 = 1
      BY <1>3, <3>1
    <3>3. QED
      BY <2>2, <3>2
  <2>3. QED
    BY <2>1, <2>2
<1>6. /\ s \in Seq(Int) /\ Len(s) = b + (g + m)
      /\ \A i \in 1 .. b : s[i] = blanks[i]
      /\ \A i \in 1 .. g + m : s[b + i] = rest[i]
  <2>1. /\ s \in Seq(Int) /\ Len(s) = Len(blanks) + Len(rest)
        /\ \A i \in 1 .. Len(blanks) : s[i] = blanks[i]
        /\ \A i \in 1 .. Len(rest) : s[Len(blanks) + i] = rest[i]
    BY <1>1, <1>3, Joined, Zenon
  <2>2. Len(blanks) = b /\ Len(rest) = g + m
    BY <1>3, Zenon DEF b
  <2> HIDE DEF s, m
  <2>3. QED
    BY <2>1, <2>2, Zenon
<1> HIDE DEF s
<1>7. b \in 0 .. Len(s) /\ b + 1 \in 1 .. Len(s) /\ s[b + 1] = rest[1]
  <2>1. 1 \in 1 .. g + m
    BY <1>2, <1>4
  <2>2. s[b + 1] = rest[1]
    BY <1>6, <2>1, Zenon
  <2>3. QED
    BY <1>1, <1>2, <1>4, <1>6, <2>2
<1>8. KeSpanString(s, Blanks) = b
  <2>1. \A i \in 1 .. b : s[i] \in Blanks
    BY <1>1, <1>6, Zenon
  <2>2. s[b + 1] \notin Blanks
    BY <1>5, <1>7, Zenon
  <2> HIDE DEF m
  <2>3. QED
    BY <1>1, <1>6, <1>7, <2>1, <2>2, SpanIs, Zenon
<1>9. At(s, b + 1) = Minus <=> neg
  <2>1. At(s, b + 1) = s[b + 1]
    BY <1>6, <1>7 DEF At
  <2>2. QED
    BY <1>5, <1>7, <2>1, Zenon
<1>10. \A i \in 1 .. m : s[first - 1 + i] = d[i]
  <2> SUFFICES ASSUME NEW i \in 1 .. m PROVE s[first - 1 + i] = d[i]
    BY Zenon
  <2>1. first - 1 + i = b + (g + i) /\ g + i \in 1 .. g + m
    BY <1>1, <1>2, <1>4
  <2>2. s[b + (g + i)] = rest[g + i] /\ rest[g + i] = d[i]
    BY <1>3, <1>6, <2>1, Zenon DEF m
  <2>3. QED
    BY <2>1, <2>2, Zenon
<1>11. first \in Nat \ {0} /\ Len(s) = first - 1 + m /\ first <= Len(s)
  BY <1>1, <1>2, <1>4, <1>6
<1>12. Rest(s, first) = d
  <2>1. Rest(s, first) = SubSeq(s, first, Len(s))
    BY DEF Rest
  <2> DEFINE t == SubSeq(s, first, Len(s))
  <2>2. t \in Seq(Int) /\ Len(t) = m /\ \A i \in 1 .. m : t[i] = s[first - 1 + i]
    <3> HIDE DEF m
    <3>1. Len(s) = first - 1 + m
      BY <1>11, Zenon
    <3>2. first \in Nat \ {0}
      BY <1>11, Zenon
    <3>3. m \in Nat \ {0}
      BY <1>4, Zenon
    <3>4. s \in Seq(Int)
      BY <1>6, Zenon
    <3>5. t = SubSeq(s, first, Len(s))
      BY Zenon
    <3> HIDE DEF t
    <3>6. QED
      BY <3>1, <3>2, <3>3, <3>4, <3>5, RestOfText
  <2> HIDE DEF t
  <2>3. \A i \in 1 .. m : t[i] = d[i]
    BY <1>10, <2>2, Zenon
  <2>4. t = d
    BY <2>2, <2>3
  <2>5. QED
    BY <2>1, <2>4, Zenon DEF t
<1>13. (IF At(s, b + 1) = Minus THEN b + 2 ELSE b + 1) = first
  BY <1>9, Zenon DEF first
<1> DEFINE last == first - 1 + KeSpanString(d, Zero .. Zero + 9)
<1>14. KeConvertStringToInt(s) =
         Wrapped(IF At(s, b + 1) = Minus THEN -ReadOf(s, first, last)[last]
                 ELSE ReadOf(s, first, last)[last])
  <2>1. KeConvertStringToInt(s) =
          LET sign == At(s, KeSpanString(s, Blanks) + 1)
              from == IF sign = Minus THEN KeSpanString(s, Blanks) + 2 ELSE KeSpanString(s, Blanks) + 1
              to   == from - 1 + KeSpanString(Rest(s, from), Zero .. Zero + 9)
          IN Wrapped(IF sign = Minus THEN -ReadOf(s, from, to)[to] ELSE ReadOf(s, from, to)[to])
    BY DEF KeConvertStringToInt, ReadOf, IsRead
  <2>2. QED
    BY <1>8, <1>12, <1>13, <2>1, Zenon
<1>15. KeConvertStringToInt(s) =
         Wrapped(IF neg THEN -ReadOf(s, first, last)[last] ELSE ReadOf(s, first, last)[last])
  BY <1>9, <1>14, Zenon
<1>16. IsText(s, neg, d, first)
  BY <1>6, <1>10, <1>11, <1>12, <1>15, Zenon DEF IsText, m
<1>17. QED
  BY <1>16, Zenon DEF s, rest, first, b

\* The first k characters of d are digits, and no more.
HasDigits(d, k) ==
  /\ k \in 0 .. Len(d) /\ \A i \in 1 .. k : d[i] \in Zero .. Zero + 9
  /\ k < Len(d) => d[k + 1] \notin Zero .. Zero + 9

\* What a text is read as, when its first k characters behind the sign are digits and
\* w[i] is what i of them make.
LEMMA DigitsRead ==
  ASSUME NEW s, NEW neg \in BOOLEAN, NEW d \in Seq(Int), NEW first, IsText(s, neg, d, first),
         NEW k, HasDigits(d, k), NEW w, Makes(d, 1, k, w)
  PROVE  KeConvertStringToInt(s) = Wrapped(IF neg THEN -w[k] ELSE w[k])
<1> DEFINE last == first - 1 + k
<1>1. NUL \notin Zero .. Zero + 9
  BY DEF NUL, Zero
<1>2. KeSpanString(d, Zero .. Zero + 9) = k
  BY <1>1, SpanIs, Zenon DEF HasDigits
<1>3. /\ first \in Nat \ {0}
      /\ \A i \in 1 .. Len(d) : s[first - 1 + i] = d[i]
      /\ KeConvertStringToInt(s) =
           Wrapped(IF neg THEN -ReadOf(s, first, last)[last] ELSE ReadOf(s, first, last)[last])
  BY <1>2, Zenon DEF IsText
<1>4. k \in Nat /\ \A i \in 1 .. k : i \in 1 .. Len(d)
  <2>1. k \in 0 .. Len(d)
    BY DEF HasDigits
  <2>2. QED
    BY <2>1
<1>5. Makes(s, first, k, w)
  <2>1. \A i \in 1 .. k : d[1 - 1 + i] = s[first - 1 + i]
    <3>1. \A i \in 1 .. k : 1 - 1 + i = i
      OBVIOUS
    <3>2. QED
      BY <1>3, <1>4, <3>1, Zenon
  <2>2. QED
    BY <2>1, Zenon DEF Makes
<1>6. ReadOf(s, first, last)[last] = w[k]
  BY <1>3, <1>4, <1>5, ReadSteps
<1>7. QED
  BY <1>3, <1>6, Zenon

\* The digits of a positive int are read as that int.
LEMMA NumeralRead ==
  ASSUME NEW h, IsHalf(h), NEW x \in Ints, x > 0, NEW neg \in BOOLEAN, NEW blanks \in BlankStrings
  PROVE  KeConvertStringToInt(blanks \o Signed(neg, Digits(x))) = IF neg THEN -x ELSE x
<1> DEFINE u == QuotientsOf(x)
           d == Digits(x)
           s == blanks \o Signed(neg, d)
           first == Len(blanks) + (IF neg THEN 2 ELSE 1)
<1>1. h \in Nat \ {0} /\ Ints = -h .. h - 1 /\ x \in Int /\ Far(x) <= h /\ -x \in Ints /\ x # 0
  BY DEF IsHalf, Far
<1>2. PICK n : Divides(x, u) /\ IsNumeral(x, u, n, d)
  BY <1>1, DigitsAre, Zenon
<1>3. u[0] = x /\ u[n] = 0
  BY <1>2, Zenon DEF Divides, IsNumeral
<1> HIDE DEF u, d
<1>4. /\ n \in Nat \ {0} /\ d \in Seq(Int) /\ Len(d) = n
      /\ \A i \in 1 .. n : u[n - i] = 10 * u[n - (i - 1)] + (d[i] - Zero)
      /\ \A i \in 1 .. n : d[i] \in Zero .. Zero + 9
      /\ \A j \in 0 .. n : u[j] \in 0 .. x
  BY <1>1, <1>2, DigitsMean
<1>5. Len(d) >= 1 /\ d[1] \notin Blanks \cup {Minus}
  <2>1. 1 \in 1 .. n
    BY <1>4
  <2>2. d[1] \in Zero .. Zero + 9
    BY <1>4, <2>1, Zenon
  <2>3. QED
    <3>1. \A x1 \in Zero .. Zero + 9 : x1 \notin Blanks \cup {Minus}
      BY DEF Zero, Blanks, Minus
    <3>2. Len(d) >= 1
      BY <1>4
    <3>3. QED
      BY <2>2, <3>1, <3>2, Zenon
<1>6. IsText(s, neg, d, first)
  BY <1>4, <1>5, TextIs, Zenon
<1> HIDE DEF s, first
<1> DEFINE w == [i \in 0 .. n |-> u[n - i]]
<1>7. \A i \in 0 .. n : w[i] = u[n - i]
  BY Zenon
<1> HIDE DEF w
<1>8. w[0] = 0 /\ w[n] = x
  <2>1. 0 \in 0 .. n /\ n \in 0 .. n /\ n - 0 = n /\ n - n = 0
    BY <1>4
  <2>2. QED
    BY <1>3, <1>7, <2>1, Zenon
<1>9. ASSUME NEW i \in 1 .. n PROVE w[i] = Wrapped(w[i - 1] * 10 + d[i] - Zero)
  <2> DEFINE a == w[i]
             b == w[i - 1]
             e == d[i]
  <2>1. i \in 0 .. n /\ i - 1 \in 0 .. n /\ n - i \in 0 .. n /\ n - (i - 1) \in 0 .. n
    BY <1>4
  <2>2. a = u[n - i] /\ b = u[n - (i - 1)]
    BY <1>7, <2>1, Zenon
  <2>3. a = 10 * b + (e - Zero) /\ a \in 0 .. x /\ b \in 0 .. x /\ e \in Zero .. Zero + 9
    BY <1>4, <2>1, <2>2, Zenon
  <2> HIDE DEF a, b, e
  <2>4. a = b * 10 + e - Zero /\ a \in Ints
    BY <1>1, <2>3 DEF Zero
  <2>5. Wrapped(a) = a
    BY <2>4, WrappedAround, Zenon
  <2>6. a = Wrapped(b * 10 + e - Zero)
    BY <2>4, <2>5, Zenon
  <2>7. QED
    BY <2>6, Zenon DEF a, b, e
<1>10. n \in 0 .. Len(d) /\ ~(n < Len(d)) /\ \A i \in 1 .. n : 1 - 1 + i = i
  BY <1>4
<1>11. KeConvertStringToInt(s) = Wrapped(IF neg THEN -w[n] ELSE w[n])
  <2>1. Makes(d, 1, n, w)
    BY <1>8, <1>9, <1>10, Zenon DEF Makes
  <2>2. HasDigits(d, n)
    BY <1>4, <1>10, Zenon DEF HasDigits
  <2>3. d \in Seq(Int)
    BY <1>4, Zenon
  <2>4. QED
    BY <1>6, <2>1, <2>2, <2>3, DigitsRead, Zenon
<1>12. KeConvertStringToInt(s) = IF neg THEN -x ELSE x
  BY <1>1, <1>8, <1>11, WrappedAround, Zenon
<1>13. QED
  BY <1>12, Zenon DEF s, d

\* The digits of the least int are none, so nothing is read behind its sign.
LEMMA LeastRead ==
  ASSUME NEW h, IsHalf(h), NEW blanks \in BlankStrings
  PROVE  KeConvertStringToInt(blanks \o Signed(TRUE, Digits(-h))) = 0
<1> DEFINE x == -h
           u == QuotientsOf(x)
           d == Digits(x)
           s == blanks \o Signed(TRUE, d)
           first == Len(blanks) + (IF TRUE THEN 2 ELSE 1)
<1>1. h \in Nat \ {0} /\ Ints = -h .. h - 1 /\ x \in Int /\ Far(x) <= h /\ x < 0 /\ x # 0 /\ 0 \in Ints
  BY DEF IsHalf, Far
<1> HIDE DEF x
<1>2. PICK n : Divides(x, u) /\ IsNumeral(x, u, n, d)
  BY <1>1, DigitsAre, Zenon
<1> HIDE DEF u, d
<1>3. n \in Nat \ {0} /\ d \in Seq(Int) /\ Len(d) = n /\ d[1] \in Zero - 9 .. Zero - 1
  BY <1>1, <1>2, DigitsMean, Zenon
<1>4. /\ Len(d) >= 1 /\ d[1] \notin Blanks \cup {Minus}
      /\ d[0 + 1] \notin Zero .. Zero + 9 /\ 0 \in 0 .. Len(d) /\ \A i \in 1 .. 0 : FALSE
  <2>1. \A z \in Zero - 9 .. Zero - 1 : z \notin Blanks \cup {Minus} /\ z \notin Zero .. Zero + 9
    BY DEF Zero, Blanks, Minus
  <2>2. Len(d) >= 1 /\ 0 + 1 = 1 /\ 0 \in 0 .. Len(d) /\ \A i \in 1 .. 0 : FALSE
    BY <1>3
  <2>3. QED
    BY <1>3, <2>1, <2>2, Zenon
<1>5. IsText(s, TRUE, d, first)
  BY <1>3, <1>4, TextIs, Zenon
<1> HIDE DEF s, first
<1> DEFINE w == [i \in 0 .. 0 |-> 0]
<1>6. w[0] = 0
  OBVIOUS
<1> HIDE DEF w
<1>7. KeConvertStringToInt(s) = Wrapped(IF TRUE THEN -w[0] ELSE w[0])
  <2>1. Makes(d, 1, 0, w) /\ HasDigits(d, 0)
    BY <1>4, <1>6, Zenon DEF Makes, HasDigits
  <2>2. QED
    BY <1>3, <1>5, <2>1, DigitsRead, Zenon
<1>8. 0 \in Int /\ \A z \in Int : z = 0 => -z = 0
  <2>1. 0 \in Int /\ \A z \in Int : -z = 0 - z
    OBVIOUS
  <2>2. \A z \in Int : z = 0 => 0 - z = 0
    OBVIOUS
  <2>3. QED
    BY <2>1, <2>2, Zenon
<1>9. KeConvertStringToInt(s) = 0
  BY <1>1, <1>6, <1>7, <1>8, WrappedAround, Zenon
<1>10. QED
  BY <1>9, Zenon DEF s, d, x

\* 0 is one digit.
LEMMA NoughtRead ==
  ASSUME NEW h, IsHalf(h), NEW blanks \in BlankStrings
  PROVE  KeConvertStringToInt(blanks \o Signed(FALSE, <<Zero>>)) = 0
<1> DEFINE d == <<Zero>>
           s == blanks \o Signed(FALSE, d)
           first == Len(blanks) + (IF FALSE THEN 2 ELSE 1)
           w == [i \in 0 .. 1 |-> 0]
<1>1. /\ d \in Seq(Int) /\ Len(d) = 1 /\ d[1] = Zero
      /\ Zero \in Zero .. Zero + 9 /\ Zero \notin Blanks \cup {Minus}
  BY DEF Zero, Blanks, Minus
<1>2. Len(d) >= 1 /\ ~(1 < Len(d)) /\ 1 \in 0 .. Len(d) /\ \A i \in 1 .. 1 : i = 1 /\ 1 - 1 = 0 /\ 1 - 1 + 1 = 1
  BY <1>1
<1>3. 0 \in Ints /\ h \in Nat \ {0}
  BY DEF IsHalf
<1>4. w[0] = 0 /\ w[1] = 0
  OBVIOUS
<1> HIDE DEF d, w
<1>5. IsText(s, FALSE, d, first)
  BY <1>1, <1>2, TextIs, Zenon
<1>6. HasDigits(d, 1)
  BY <1>1, <1>2, Zenon DEF HasDigits
<1>7. Wrapped(0) = 0
  BY <1>3, WrappedAround, Zenon
<1>8. Makes(d, 1, 1, w)
  <2>1. \A z \in {0} : z * 10 + Zero - Zero = 0
    BY DEF Zero
  <2>2. Wrapped(w[0] * 10 + d[1] - Zero) = 0
    BY <1>1, <1>4, <1>7, <2>1, Zenon
  <2>3. QED
    BY <1>2, <1>4, <2>2, Zenon DEF Makes
<1> HIDE DEF s, first
<1>9. KeConvertStringToInt(s) = Wrapped(IF FALSE THEN -w[1] ELSE w[1])
  BY <1>1, <1>5, <1>6, <1>8, DigitsRead, Zenon
<1>10. QED
  BY <1>4, <1>7, <1>9, Zenon DEF s, d

\* Of any int, what itoa prints of it is read as it again, or as 0 if it is the least.
LEMMA ReadBack ==
  ASSUME NEW val \in Ints, NEW blanks \in BlankStrings
  PROVE  KeConvertStringToInt(blanks \o itoa(val)) = IF val = IntMin THEN 0 ELSE val
<1>1. PICK h : IsHalf(h)
  BY IntsAre
<1>2. h \in Nat \ {0} /\ Ints = -h .. h - 1 /\ IntMin = -h /\ val \in -h .. h - 1
  BY <1>1 DEF IsHalf
<1>3. CASE val = 0
  <2>1. itoa(val) = Signed(FALSE, <<Zero>>)
    BY <1>3, Zenon DEF itoa, Signed
  <2>2. val # IntMin
    BY <1>2, <1>3
  <2>3. QED
    BY <1>1, <1>3, <2>1, <2>2, NoughtRead, Zenon
<1>4. CASE val > 0
  <2>1. val # 0 /\ ~(val < 0) /\ val # IntMin
    BY <1>2, <1>4
  <2>2. itoa(val) = Signed(FALSE, Digits(val))
    BY <2>1, Zenon DEF itoa, Signed
  <2>3. KeConvertStringToInt(blanks \o Signed(FALSE, Digits(val))) = IF FALSE THEN -val ELSE val
    BY <1>1, <1>4, NumeralRead, Zenon
  <2>4. QED
    BY <2>1, <2>2, <2>3, Zenon
<1>5. CASE val < 0 /\ val # IntMin
  <2> DEFINE x == -val
  <2>1. val # 0 /\ x \in Ints /\ x > 0 /\ -x = val
    BY <1>2, <1>5
  <2>2. Wrapped(-val) = x
    BY <1>1, <2>1, WrappedAround, Zenon
  <2>3. itoa(val) = Signed(TRUE, Digits(x))
    BY <1>5, <2>1, <2>2, Zenon DEF itoa, Signed
  <2> HIDE DEF x
  <2>4. KeConvertStringToInt(blanks \o Signed(TRUE, Digits(x))) = IF TRUE THEN -x ELSE x
    BY <1>1, <2>1, NumeralRead, Zenon
  <2>5. QED
    BY <1>5, <2>1, <2>3, <2>4, Zenon
<1>6. CASE val = IntMin
  <2>1. val < 0 /\ val # 0 /\ -val = h /\ val = -h
    BY <1>2, <1>6
  <2>2. Wrapped(-val) = -h
    BY <1>1, <2>1, WrappedAround, Zenon
  <2>3. itoa(val) = Signed(TRUE, Digits(-h))
    BY <2>1, <2>2, Zenon DEF itoa, Signed
  <2>4. QED
    BY <1>1, <1>6, <2>3, LeastRead, Zenon
<1>7. val = 0 \/ val > 0 \/ (val < 0 /\ val # IntMin) \/ val = IntMin
  BY <1>2
<1>8. QED
  BY <1>3, <1>4, <1>5, <1>6, <1>7, Zenon

\* Only Convert says what was read.
LEMMA ReadsAlways ==
  ASSUME [Next]_vars, NumbersReadBack
  PROVE  NumbersReadBack'
<1>1. ASSUME NEW val \in Ints, NEW blanks \in BlankStrings, Convert(val, blanks) PROVE NumbersReadBack'
  <2>1. call' = [op |-> "convert", val |-> val]
    BY <1>1, Zenon DEF Convert
  <2>2. value' = KeConvertStringToInt(blanks \o itoa(val))
    BY <1>1, Zenon DEF Convert, RtlConvertStringToInt
  <2>3. call'.op = "convert" /\ call'.val = val
    BY <2>1
  <2>4. value' = IF val = IntMin THEN 0 ELSE val
    BY <2>2, ReadBack, Zenon
  <2>5. QED
    BY <2>3, <2>4, Zenon DEF NumbersReadBack
<1>2. ASSUME call'.op # "convert" PROVE NumbersReadBack'
  BY <1>2 DEF NumbersReadBack
<1>3. ASSUME NEW e \in Extents,
             KeCopyMemory(e) \/ KeMoveMemory(e) \/ RtlCopyMemory(e) \/ RtlMoveMemory(e)
      PROVE  call'.op # "convert"
  BY <1>3 DEF KeCopyMemory, KeMoveMemory, RtlCopyMemory, RtlMoveMemory
<1>4. ASSUME NEW e, NEW ends, KeCopyStringEx(e, ends) \/ KeConcatStringEx(e, ends)
      PROVE  call'.op # "convert"
  BY <1>4 DEF KeCopyStringEx, KeConcatStringEx, StringCall
<1>5. ASSUME NEW s, NEW t, Compare(s, t) \/ Find(s, t) PROVE call'.op # "convert"
  BY <1>5 DEF Compare, Find
<1>6. ASSUME NEW n, NEW fmt, Format(n, fmt) PROVE call'.op # "convert"
  BY <1>6 DEF Format
<1>7. ASSUME Return PROVE call'.op # "convert"
  BY <1>7 DEF Return, NoCall
<1>8. ASSUME UNCHANGED vars PROVE NumbersReadBack'
  BY <1>8 DEF vars, NumbersReadBack
<1>9. QED
  BY <1>1, <1>2, <1>3, <1>4, <1>5, <1>6, <1>7, <1>8 DEF Next, Halted, BlankStrings

\* Of any width of int, what itoa prints of an int is read as it again, whether blanks
\* are before it or not, but the least is read as 0 (printf.c:41-68, memory.c:218-240).
THEOREM NumbersSound == Spec => []NumbersReadBack
<1>1. Init => NumbersReadBack
  BY DEF Init, NoCall, NumbersReadBack
<1>2. QED
  BY <1>1, ReadsAlways, PTL DEF Spec

----------------------------------------------------------------------------
(* What is printed *)

Texts == Seq(Int)

\* What itoa prints is a text.
LEMMA NumeralIsText ==
  ASSUME NEW val \in Ints
  PROVE  itoa(val) \in Texts
<1>1. PICK h : IsHalf(h)
  BY IntsAre
<1>2. h \in Nat \ {0} /\ val \in -h .. h - 1 /\ val \in Int /\ Far(val) <= h /\ -val \in -h .. h
  BY <1>1 DEF IsHalf, Far
<1>3. ASSUME NEW x \in Int, Far(x) <= h, x # 0 PROVE Digits(x) \in Texts
  <2>1. PICK n : Divides(x, QuotientsOf(x)) /\ IsNumeral(x, QuotientsOf(x), n, Digits(x))
    BY <1>1, <1>3, DigitsAre, Zenon
  <2>2. QED
    BY <1>3, <2>1, DigitsMean DEF Texts
<1>4. Wrapped(-val) \in Int /\ Far(Wrapped(-val)) <= h /\ (val < 0 => Wrapped(-val) # 0)
  <2>1. CASE -val \in -h .. h - 1
    <3>1. Wrapped(-val) = -val
      BY <1>1, <2>1, WrappedAround DEF IsHalf
    <3>2. QED
      BY <1>2, <2>1, <3>1 DEF Far
  <2>2. CASE -val = h
    <3>1. Wrapped(-val) = -h
      BY <1>1, <2>2, WrappedAround, Zenon
    <3>2. QED
      BY <1>2, <2>2, <3>1 DEF Far
  <2>3. QED
    BY <1>2, <2>1, <2>2
<1>5. CASE val = 0
  <2>1. itoa(val) = <<Zero>>
    BY <1>5, Zenon DEF itoa
  <2>2. QED
    BY <2>1 DEF Texts, Zero
<1>6. CASE val < 0
  <2>1. val # 0
    BY <1>2, <1>6
  <2>2. itoa(val) = <<Minus>> \o Digits(Wrapped(-val))
    BY <1>6, <2>1, Zenon DEF itoa
  <2>3. Digits(Wrapped(-val)) \in Texts
    BY <1>3, <1>4, <1>6, Zenon
  <2>4. <<Minus>> \in Seq(Int)
    BY DEF Minus
  <2>5. QED
    BY <2>2, <2>3, <2>4 DEF Texts
<1>7. CASE val > 0
  <2>1. val # 0 /\ ~(val < 0)
    BY <1>2, <1>7
  <2>2. itoa(val) = Digits(val)
    BY <2>1, Zenon DEF itoa
  <2>3. QED
    BY <1>2, <1>3, <2>1, <2>2, Zenon
<1>8. QED
  BY <1>2, <1>5, <1>6, <1>7

\* Whatever it is, an item is printed as a text: its character, its string or the
\* digits of its value (printf.c:88-119).
LEMMA ItemPrints ==
  ASSUME NEW item \in Item
  PROVE  /\ Printed(item) \in Texts
         /\ \/ item \in [char : Nat] /\ Printed(item) = <<item.char>>
            \/ item \in [str : Seq(Nat)] /\ Printed(item) = item.str
            \/ item \in [val : Ints] /\ Printed(item) = itoa(item.val)
<1>1. CASE item \in [char : Nat]
  <2>1. /\ "char" \in DOMAIN item /\ "str" \notin DOMAIN item /\ "val" \notin DOMAIN item
        /\ item.char \in Nat
    BY <1>1
  <2>2. Printed(item) = <<item.char>>
    BY <2>1, Zenon DEF Printed
  <2>3. QED
    BY <1>1, <2>1, <2>2 DEF Texts
<1>2. CASE item \in [str : Seq(Nat)]
  <2>1. /\ "char" \notin DOMAIN item /\ "str" \in DOMAIN item /\ "val" \notin DOMAIN item
        /\ item.str \in Seq(Nat)
    BY <1>2
  <2>2. Printed(item) = item.str
    BY <2>1, Zenon DEF Printed
  <2>3. QED
    BY <1>2, <2>1, <2>2 DEF Texts
<1>3. CASE item \in [val : Ints]
  <2>1. "char" \notin DOMAIN item /\ "str" \notin DOMAIN item /\ "val" \in DOMAIN item /\ item.val \in Ints
    BY <1>3
  <2>2. Printed(item) = itoa(item.val)
    BY <2>1, Zenon DEF Printed
  <2>3. itoa(item.val) \in Texts
    BY <2>1, NumeralIsText
  <2>4. QED
    BY <1>3, <2>2, <2>3
<1>4. QED
  BY <1>1, <1>2, <1>3 DEF Item

\* v[i] is the first i texts in a row.
InARow(ps, v) ==
  /\ v[0] = << >> /\ \A i \in 0 .. Len(ps) : v[i] \in Texts
  /\ \A i \in 1 .. Len(ps) : v[i] = v[i - 1] \o ps[i]

IsFlat(ps, u) == u = [i \in 1 .. Len(ps) |-> IF i = 1 THEN ps[i] ELSE u[i - 1] \o ps[i]]
FlatOf(ps) == CHOOSE u : IsFlat(ps, u)

\* What the whole of a format prints is its items in a row.
LEMMA FlatSteps ==
  ASSUME NEW ps \in Seq(Texts)
  PROVE  \E v : InARow(ps, v) /\ v[Len(ps)] = FlattenSeq(ps)
<1> DEFINE n == Len(ps)
           Step == [i \in 1 .. n |-> [x \in Texts |-> x \o ps[i]]]
           u == FlatOf(ps)
<1>1. n \in Nat /\ \A i \in 1 .. n : ps[i] \in Texts
  BY ElementOfSeq
<1>2. << >> \in Texts /\ \A x, y \in Texts : x \o y \in Texts /\ << >> \o y = y
  <2>1. \A y \in Seq(Int) : << >> \o y = y
    OBVIOUS
  <2>2. \A x, y \in Seq(Int) : x \o y \in Seq(Int)
    OBVIOUS
  <2>3. << >> \in Seq(Int)
    OBVIOUS
  <2>4. QED
    BY <2>1, <2>2, <2>3, Zenon DEF Texts
<1>3. Step \in [1 .. n -> [Texts -> Texts]] /\ \A i \in 1 .. n : \A x \in Texts : Step[i][x] = x \o ps[i]
  <2>1. \A i \in 1 .. n : [x \in Texts |-> x \o ps[i]] \in [Texts -> Texts]
    BY <1>1, <1>2, Zenon
  <2>2. Step \in [1 .. n -> [Texts -> Texts]]
    BY <2>1, Zenon
  <2>3. QED
    BY <2>2, Zenon
<1> HIDE DEF Step, n
<1>4. PICK v : v \in [0 .. n -> Texts] /\ v[0] = << >> /\ \A i \in 1 .. n : v[i] = Step[i][v[i - 1]]
  <2> DEFINE empty == << >>
  <2>1. empty \in Texts
    BY <1>2, Zenon
  <2> HIDE DEF empty
  <2>2. \E v : IsLoop(v, Texts, empty, n, Step)
    BY <1>1, <1>3, <2>1, LoopExists, Zenon
  <2>3. QED
    BY <2>2, Zenon DEF IsLoop, empty
<1>5. /\ \A i \in 0 .. n : v[i] \in Texts
      /\ \A i \in 1 .. n : v[i] = v[i - 1] \o ps[i]
  <2>1. \A i \in 1 .. n : i - 1 \in 0 .. n
    BY <1>1
  <2>2. QED
    BY <1>3, <1>4, <2>1, Zenon
<1>6. InARow(ps, v)
  BY <1>4, <1>5, Zenon DEF InARow, n
<1>7. CASE n = 0
  <2>1. FlattenSeq(ps) = ps
    BY <1>7, Zenon DEF FlattenSeq, n
  <2>2. ps = << >>
    BY <1>7 DEF n
  <2>3. v[Len(ps)] = << >>
    BY <1>4, <1>7, Zenon DEF n
  <2>4. QED
    BY <1>6, <2>1, <2>2, <2>3, Zenon
<1>8. CASE n # 0
  <2> DEFINE w == [i \in 1 .. n |-> v[i]]
  <2>1. ASSUME NEW i \in 1 .. n PROVE v[i] = IF i = 1 THEN ps[i] ELSE w[i - 1] \o ps[i]
    <3>1. CASE i = 1
      <4>1. i - 1 = 0
        BY <3>1
      <4>2. v[i] = << >> \o ps[i]
        BY <1>4, <1>5, <4>1, Zenon
      <4>3. QED
        BY <1>1, <1>2, <3>1, <4>2, Zenon
    <3>2. CASE i # 1
      <4>1. i - 1 \in 1 .. n
        BY <1>1, <3>2
      <4>2. w[i - 1] = v[i - 1]
        BY <4>1, Zenon
      <4>3. QED
        BY <1>5, <3>2, <4>2, Zenon
    <3>3. QED
      BY <3>1, <3>2, Zenon
  <2>2. \A i \in 1 .. n : w[i] = IF i = 1 THEN ps[i] ELSE w[i - 1] \o ps[i]
    BY <2>1, Zenon
  <2>3. w = [i \in 1 .. n |-> w[i]]
    BY Zenon
  <2>4. \A i \in 1 .. n : w[i] = v[i]
    BY Zenon
  <2> HIDE DEF w
  <2>5. [i \in 1 .. n |-> w[i]] = [i \in 1 .. n |-> IF i = 1 THEN ps[i] ELSE w[i - 1] \o ps[i]]
    BY <2>2, Zenon
  <2>6. IsFlat(ps, w)
    BY <2>3, <2>5, Zenon DEF IsFlat, n
  <2>7. IsFlat(ps, u)
    BY <2>6, Zenon DEF FlatOf
  <2>8. FlattenSeq(ps) = u[n]
    BY <1>8, Zenon DEF FlattenSeq, FlatOf, IsFlat, n
  <2> HIDE DEF u
  <2>9. \A i \in 1 .. n : u[i] = IF i = 1 THEN ps[i] ELSE u[i - 1] \o ps[i]
    BY <2>7, Zenon DEF IsFlat, n
  <2> DEFINE P == {j \in 0 .. n : j # 0 => u[j] = v[j]}
  <2>10. 0 \in P
    BY <1>1
  <2>11. ASSUME NEW i \in 1 .. n, i - 1 \in P PROVE i \in P
    <3>1. i \in 0 .. n /\ i # 0 /\ (i # 1 => i - 1 # 0)
      BY <1>1
    <3>2. CASE i = 1
      <4>1. u[i] = v[i]
        BY <2>1, <2>9, <3>2, Zenon
      <4>2. QED
        BY <3>1, <4>1
    <3>3. CASE i # 1
      <4>1. u[i - 1] = v[i - 1]
        BY <2>11, <3>1, <3>3
      <4>2. u[i] = v[i]
        BY <1>5, <2>9, <3>3, <4>1, Zenon
      <4>3. QED
        BY <3>1, <4>2
    <3>4. QED
      BY <3>2, <3>3, Zenon
  <2> HIDE DEF P
  <2>12. n \in P
    <3>1. \A i \in 0 .. n : i \in P
      BY <1>1, <2>10, <2>11, UpTo
    <3>2. n \in 0 .. n
      BY <1>1
    <3>3. QED
      BY <3>1, <3>2, Zenon
  <2>13. u[n] = v[n]
    BY <1>8, <2>12, Zenon DEF P
  <2>14. QED
    BY <1>6, <2>8, <2>13, Zenon DEF n
<1>9. QED
  BY <1>7, <1>8, Zenon

\* A text is a beginning of another, the whole of it or at least n characters.
Begins(n, out, whole) ==
  /\ out \in Texts /\ whole \in Texts
  /\ \/ out = whole
     \/ Len(out) >= n /\ Len(whole) >= n /\ \A j \in 1 .. n : out[j] = whole[j]

\* A part of p is added, all of it unless the text is more than n long with it.
AddsTo(n, out, p, after) ==
  \E m \in 0 .. Len(p) : after = out \o SubSeq(p, 1, m) /\ (m = Len(p) \/ Len(out) + m > n)

\* What is joined holds its parts, of which the second may be cut off.
LEMMA JoinedPart ==
  ASSUME NEW out \in Texts, NEW p \in Texts, NEW m \in 0 .. Len(p)
  PROVE  LET after == out \o SubSeq(p, 1, m) IN
         /\ after \in Texts /\ Len(after) = Len(out) + m
         /\ \A j \in 1 .. Len(out) + m : after[j] = (out \o p)[j]
         /\ \A j \in 1 .. Len(out) : after[j] = out[j]
         /\ m = Len(p) => after = out \o p
<1> DEFINE b == SubSeq(p, 1, m)
           k == Len(out)
<1>1. out \in Seq(Int) /\ p \in Seq(Int) /\ k \in Nat /\ m \in Nat
  BY DEF Texts
<1>2. /\ b \in Seq(Int) /\ Len(b) = m /\ \A j \in 1 .. m : b[j] = p[j] /\ j \in 1 .. Len(p)
      /\ m = Len(p) => b = p
  BY <1>1
<1> HIDE DEF b
<1>3. /\ out \o b \in Seq(Int) /\ Len(out \o b) = k + m
      /\ \A j \in 1 .. k : (out \o b)[j] = out[j]
      /\ \A j \in 1 .. m : (out \o b)[k + j] = b[j]
  BY <1>1, <1>2, Joined, Zenon
<1>4. /\ \A j \in 1 .. k : (out \o p)[j] = out[j]
      /\ \A j \in 1 .. Len(p) : (out \o p)[k + j] = p[j]
  BY <1>1, Joined, Zenon
<1>5. ASSUME NEW j \in 1 .. k + m PROVE (out \o b)[j] = (out \o p)[j]
  <2>1. CASE j \in 1 .. k
    BY <1>3, <1>4, <2>1, Zenon
  <2>2. CASE j \notin 1 .. k
    <3> DEFINE l == j - k
    <3>1. l \in 1 .. m /\ k + l = j
      BY <1>1, <2>2
    <3> HIDE DEF l
    <3>2. (out \o b)[k + l] = (out \o p)[k + l]
      BY <1>2, <1>3, <1>4, <3>1, Zenon
    <3>3. QED
      BY <3>1, <3>2, Zenon
  <2>3. QED
    BY <2>1, <2>2, Zenon
<1>6. QED
  BY <1>2, <1>3, <1>5, Zenon DEF b, Texts

\* A beginning goes on being one, when more of the same is added to both.
LEMMA BeginsOn ==
  ASSUME NEW n \in Nat, NEW out, NEW whole, Begins(n, out, whole), NEW p \in Texts, NEW after,
         AddsTo(n, out, p, after)
  PROVE  Begins(n, after, whole \o p)
<1>1. PICK m \in 0 .. Len(p) : after = out \o SubSeq(p, 1, m) /\ (m = Len(p) \/ Len(out) + m > n)
  BY Zenon DEF AddsTo
<1>2. out \in Texts /\ whole \in Texts
  BY DEF Begins
<1>3. /\ after \in Texts /\ Len(after) = Len(out) + m
      /\ \A j \in 1 .. Len(out) + m : after[j] = (out \o p)[j]
      /\ \A j \in 1 .. Len(out) : after[j] = out[j]
      /\ m = Len(p) => after = out \o p
  BY <1>1, <1>2, JoinedPart, Zenon
<1>4. /\ whole \o p \in Texts /\ Len(whole \o p) = Len(whole) + Len(p)
      /\ \A j \in 1 .. Len(whole) : (whole \o p)[j] = whole[j]
  BY <1>2 DEF Texts
<1>5. Len(out) \in Nat /\ Len(whole) \in Nat /\ Len(p) \in Nat /\ m \in Nat /\ m <= Len(p)
  BY <1>2 DEF Texts
<1>6. CASE out = whole /\ m = Len(p)
  BY <1>3, <1>4, <1>6, Zenon DEF Begins
<1>7. CASE out = whole /\ Len(out) + m > n
  <2>1. \A j \in 1 .. n : j \in 1 .. Len(out) + m
    BY <1>5, <1>7
  <2>2. \A j \in 1 .. n : after[j] = (whole \o p)[j]
    BY <1>3, <1>7, <2>1, Zenon
  <2>3. Len(after) >= n /\ Len(whole \o p) >= n
    BY <1>3, <1>4, <1>5, <1>7
  <2>4. QED
    BY <1>3, <1>4, <2>2, <2>3, Zenon DEF Begins
<1>8. CASE Len(out) >= n /\ Len(whole) >= n /\ \A j \in 1 .. n : out[j] = whole[j]
  <2>1. \A j \in 1 .. n : j \in 1 .. Len(out) /\ j \in 1 .. Len(whole)
    BY <1>5, <1>8
  <2>2. \A j \in 1 .. n : after[j] = (whole \o p)[j]
    BY <1>3, <1>4, <1>8, <2>1, Zenon
  <2>3. Len(after) >= n /\ Len(whole \o p) >= n
    BY <1>3, <1>4, <1>5, <1>8
  <2>4. QED
    BY <1>3, <1>4, <2>2, <2>3, Zenon DEF Begins
<1>9. QED
  BY <1>1, <1>6, <1>7, <1>8, Zenon DEF Begins

\* What is long enough is a beginning, however the whole goes on.
LEMMA BeginsStill ==
  ASSUME NEW n \in Nat, NEW out, NEW whole, Begins(n, out, whole), NEW p \in Texts, Len(out) >= n
  PROVE  Begins(n, out, whole \o p)
<1>1. out \in Texts /\ whole \in Texts
  BY DEF Begins
<1>2. /\ whole \o p \in Texts /\ Len(whole \o p) = Len(whole) + Len(p)
      /\ \A j \in 1 .. Len(whole) : (whole \o p)[j] = whole[j]
  BY <1>1 DEF Texts
<1>3. Len(out) \in Nat /\ Len(whole) \in Nat /\ Len(p) \in Nat
  BY <1>1 DEF Texts
<1>4. Len(whole) >= n /\ \A j \in 1 .. n : out[j] = whole[j]
  BY Zenon DEF Begins
<1>5. Len(whole \o p) >= n /\ \A j \in 1 .. n : j \in 1 .. Len(whole)
  BY <1>2, <1>3, <1>4
<1>6. \A j \in 1 .. n : out[j] = (whole \o p)[j]
  BY <1>2, <1>4, <1>5, Zenon
<1>7. QED
  BY <1>1, <1>2, <1>5, <1>6, Zenon DEF Begins

Printing == [out : Texts, at : Nat]

\* A conversion adds an item to what is printed: a character or a number as it is, a
\* string as far as there is room (printf.c:88-119).
LEMMA PutAdds ==
  ASSUME NEW s \in Printing, NEW item \in Item, NEW n \in Sizes
  PROVE  LET t == Put(s.out, s.at, item, n) IN
         /\ t \in Printing /\ t.at <= Len(t.out)
         /\ AddsTo(n - 1, s.out, Printed(item), t.out)
<1> DEFINE out == s.out
           i == Len(out)
           p == Printed(item)
           t == Put(out, s.at, item, n)
           size == 2 ^ WordBits
           put(o, a) == [out |-> o, at |-> a]
<1>0. \A o \in Texts, a \in Nat : put(o, a) \in Printing
  BY DEF Printing
<1>1. out \in Texts /\ i \in Nat /\ p \in Texts /\ Len(p) \in Nat
  <2>1. out \in Texts /\ p \in Texts
    BY ItemPrints DEF Printing
  <2>2. QED
    BY <2>1 DEF Texts
<1>2. size \in Nat \ {0} /\ n \in 1 .. size - 1
  BY PowerIsPositive, LibraryAssumption
<1> HIDE DEF size
<1>3. /\ Len(p) \in 0 .. Len(p) /\ SubSeq(p, 1, Len(p)) = p
      /\ out \o p \in Texts /\ Len(out \o p) = i + Len(p)
  BY <1>1 DEF Texts
<1>4. AddsTo(n - 1, out, p, out \o p)
  BY <1>3, Zenon DEF AddsTo
<1>5. CASE item \in [char : Nat] /\ p = <<item.char>>
  <2>1. /\ "char" \in DOMAIN item /\ "str" \notin DOMAIN item /\ "val" \notin DOMAIN item
        /\ item.char \in Nat
    BY <1>5
  <2>2. t = [out |-> Append(out, item.char), at |-> i + 1]
    BY <2>1, Zenon DEF Put
  <2>3. Append(out, item.char) = out \o p /\ Len(p) = 1
    BY <1>1, <1>5, <2>1 DEF Texts
  <2>4. t.out = out \o p /\ t.at = i + 1 /\ t = [out |-> out \o p, at |-> i + 1]
    BY <2>2, <2>3
  <2>5. i + 1 \in Nat /\ i + 1 <= Len(out \o p)
    BY <1>1, <1>3, <2>3
  <2>6. t \in Printing
    BY <1>3, <2>4, <2>5, Zenon DEF Printing
  <2>7. QED
    BY <1>4, <2>4, <2>5, <2>6, Zenon
<1>6. CASE item \in [str : Seq(Nat)] /\ p = item.str
  <2> DEFINE m == Least(Len(p), (n - i) % size)
             after == out \o SubSeq(p, 1, m)
  <2>1. /\ "char" \notin DOMAIN item /\ "str" \in DOMAIN item /\ "val" \notin DOMAIN item
    BY <1>6
  <2>2. t = [out |-> after, at |-> i]
    BY <1>6, <2>1, Zenon DEF Put, size
  <2>3. m \in 0 .. Len(p) /\ (m = Len(p) \/ i + m > n - 1)
    <3> DEFINE room == (n - i) % size
    <3>1. room \in Nat
      <4>1. n - i \in Int /\ \A x \in Nat \ {0} : \A y \in Int : y % x \in Nat
        BY <1>1, <1>2
      <4>2. QED
        BY <1>2, <4>1, Zenon
    <3>2. i <= n => room = n - i
      <4>1. i <= n => n - i \in 0 .. size - 1
        BY <1>1, <1>2
      <4>2. \A x \in Nat \ {0} : \A y \in 0 .. x - 1 : y % x = y
        OBVIOUS
      <4>3. QED
        BY <1>2, <4>1, <4>2, Zenon
    <3> HIDE DEF room
    <3>3. n \in Nat
      BY <1>2
    <3> DEFINE l == Len(p)
    <3>4. l \in Nat
      BY <1>1
    <3> HIDE DEF i, l
    <3>5. i \in Nat
      BY <1>1, Zenon DEF i
    <3>6. Least(l, room) \in 0 .. l /\ (Least(l, room) = l \/ i + Least(l, room) > n - 1)
      BY <3>1, <3>2, <3>3, <3>4, <3>5 DEF Least
    <3>7. QED
      BY <3>6, Zenon DEF l, room
  <2> HIDE DEF m
  <2>4. after \in Texts /\ Len(after) = i + m
    BY <1>1, <2>3, JoinedPart, Zenon
  <2>5. AddsTo(n - 1, out, p, after)
    BY <2>3, Zenon DEF AddsTo
  <2> HIDE DEF after
  <2>6. t.out = after /\ t.at = i
    BY <2>2
  <2>7. i <= Len(after)
    BY <1>1, <2>3, <2>4
  <2>8. t \in Printing
    BY <1>0, <1>1, <2>2, <2>4, Zenon
  <2>9. QED
    BY <2>5, <2>6, <2>7, <2>8, Zenon
<1>7. CASE item \in [val : Ints] /\ p = itoa(item.val)
  <2>1. "char" \notin DOMAIN item /\ "str" \notin DOMAIN item /\ "val" \in DOMAIN item
    BY <1>7
  <2>2. t = [out |-> out \o p, at |-> i]
    BY <1>7, <2>1, Zenon DEF Put
  <2>3. t.out = out \o p /\ t.at = i
    BY <2>2
  <2>4. i <= Len(out \o p)
    BY <1>1, <1>3
  <2>5. t \in Printing
    BY <1>0, <1>1, <1>3, <2>2, Zenon
  <2>6. QED
    BY <1>4, <2>3, <2>4, <2>5, Zenon
<1>8. QED
  BY <1>5, <1>6, <1>7, ItemPrints, Zenon

\* What there is of a beginning is cut off like the whole.
LEMMA BeginningCut ==
  ASSUME NEW n \in Nat, NEW out, NEW whole, Begins(n, out, whole)
  PROVE  /\ Len(out) >= Least(n, Len(whole))
         /\ SubSeq(out, 1, Least(n, Len(whole))) = SubSeq(whole, 1, Least(n, Len(whole)))
<1>1. out \in Seq(Int) /\ whole \in Seq(Int) /\ Len(out) \in Nat /\ Len(whole) \in Nat
  BY DEF Begins, Texts
<1>2. CASE out = whole
  BY <1>1, <1>2 DEF Least
<1>3. CASE Len(out) >= n /\ Len(whole) >= n /\ \A j \in 1 .. n : out[j] = whole[j]
  <2>1. Least(n, Len(whole)) = n
    BY <1>1, <1>3 DEF Least
  <2>2. SubSeq(out, 1, n) = SubSeq(whole, 1, n)
    <3> DEFINE a == SubSeq(out, 1, n)
               b == SubSeq(whole, 1, n)
    <3>1. a \in Seq(Int) /\ Len(a) = n /\ \A j \in 1 .. n : a[j] = out[j]
      BY <1>1, <1>3
    <3>2. b \in Seq(Int) /\ Len(b) = n /\ \A j \in 1 .. n : b[j] = whole[j]
      BY <1>1, <1>3
    <3> HIDE DEF a, b
    <3>3. \A j \in 1 .. n : a[j] = b[j]
      BY <1>3, <3>1, <3>2, Zenon
    <3>4. a = b
      BY <3>1, <3>2, <3>3
    <3>5. QED
      BY <3>4, Zenon DEF a, b
  <2>3. QED
    BY <1>3, <2>1, <2>2, Zenon
<1>4. QED
  BY <1>2, <1>3, Zenon DEF Begins

PutOn(s, n, item) == IF s.at >= n - 1 THEN s ELSE Put(s.out, s.at, item, n)
IsPrint(n, fmt, u) ==
  u = [k \in 0 .. Len(fmt) |-> IF k = 0 THEN [out |-> << >>, at |-> 0]
                               ELSE IF u[k - 1].at >= n - 1 THEN u[k - 1]
                               ELSE Put(u[k - 1].out, u[k - 1].at, fmt[k], n)]
PrintOf(n, fmt) == CHOOSE u : IsPrint(n, fmt, u)

Prints(n, fmt, u) ==
  /\ u[0] = [out |-> << >>, at |-> 0] /\ \A k \in 1 .. Len(fmt) : u[k] = PutOn(u[k - 1], n, fmt[k])

\* kvsnprintf goes through the format one item after the other (printf.c:81-120).
LEMMA PrintSteps ==
  ASSUME NEW n \in Sizes, NEW fmt \in Seq(Item)
  PROVE  Prints(n, fmt, PrintOf(n, fmt)) /\ kvsnprintf(n, fmt) = PrintOf(n, fmt)[Len(fmt)].out
<1> DEFINE len == Len(fmt)
           Step == [k \in 1 .. len |-> [s \in Printing |-> PutOn(s, n, fmt[k])]]
           u == PrintOf(n, fmt)
           z == [out |-> << >>, at |-> 0]
<1>1. len \in Nat /\ \A k \in 1 .. len : fmt[k] \in Item
  BY ElementOfSeq
<1>2. z \in Printing
  BY DEF Printing, Texts
<1>3. ASSUME NEW k \in 1 .. len, NEW s \in Printing PROVE PutOn(s, n, fmt[k]) \in Printing
  <2>1. Put(s.out, s.at, fmt[k], n) \in Printing
    BY <1>1, PutAdds, Zenon
  <2>2. QED
    BY <2>1, Zenon DEF PutOn
<1>4. Step \in [1 .. len -> [Printing -> Printing]]
      /\ \A k \in 1 .. len : \A s \in Printing : Step[k][s] = PutOn(s, n, fmt[k])
  <2>1. \A k \in 1 .. len : [s \in Printing |-> PutOn(s, n, fmt[k])] \in [Printing -> Printing]
    BY <1>3, Zenon
  <2>2. Step \in [1 .. len -> [Printing -> Printing]]
    BY <2>1, Zenon
  <2>3. QED
    BY <2>2, Zenon
<1> HIDE DEF Step, len, z
<1>5. PICK v : v \in [0 .. len -> Printing] /\ v[0] = z /\ \A k \in 1 .. len : v[k] = Step[k][v[k - 1]]
  <2>1. \E v : IsLoop(v, Printing, z, len, Step)
    BY <1>1, <1>2, <1>4, LoopExists, Zenon
  <2>2. QED
    BY <2>1, Zenon DEF IsLoop
<1>6. \A k \in 1 .. len : k - 1 \in 0 .. len /\ k # 0
  BY <1>1
<1>7. \A k \in 1 .. len : v[k] = PutOn(v[k - 1], n, fmt[k])
  BY <1>4, <1>5, <1>6, Zenon
<1>8. IsPrint(n, fmt, v)
  <2>1. \A k \in 0 .. len : k = 0 \/ k \in 1 .. len
    BY <1>1
  <2>2. \A k \in 0 .. len : v[k] = IF k = 0 THEN z
                                   ELSE IF v[k - 1].at >= n - 1 THEN v[k - 1]
                                   ELSE Put(v[k - 1].out, v[k - 1].at, fmt[k], n)
    BY <1>5, <1>6, <1>7, <2>1, Zenon DEF PutOn
  <2>3. v = [k \in 0 .. len |-> v[k]]
    BY <1>5, Zenon
  <2>4. [k \in 0 .. len |-> v[k]]
          = [k \in 0 .. len |-> IF k = 0 THEN z
                                ELSE IF v[k - 1].at >= n - 1 THEN v[k - 1]
                                ELSE Put(v[k - 1].out, v[k - 1].at, fmt[k], n)]
    BY <2>2, Zenon
  <2>5. QED
    BY <2>3, <2>4, Zenon DEF IsPrint, len, z
<1>9. IsPrint(n, fmt, u)
  BY <1>8, Zenon DEF PrintOf
<1>10. kvsnprintf(n, fmt) = u[len].out
  BY DEF kvsnprintf, PrintOf, IsPrint, len
<1> HIDE DEF u
<1>11. \A k \in 0 .. len : u[k] = IF k = 0 THEN z
                                  ELSE IF u[k - 1].at >= n - 1 THEN u[k - 1]
                                  ELSE Put(u[k - 1].out, u[k - 1].at, fmt[k], n)
  BY <1>9, Zenon DEF IsPrint, len, z
<1>12. u[0] = z /\ \A k \in 1 .. len : u[k] = PutOn(u[k - 1], n, fmt[k])
  <2>1. 0 \in 0 .. len /\ \A k \in 1 .. len : k \in 0 .. len
    BY <1>1
  <2>2. QED
    BY <1>6, <1>11, <2>1, Zenon DEF PutOn
<1>13. QED
  BY <1>10, <1>12, Zenon DEF Prints, u, len, z

BeginsWhole(n, whole, out) ==
  LET kept == Least(n - 1, Len(whole))
  IN Len(out) >= kept /\ SubSeq(out, 1, kept) = SubSeq(whole, 1, kept)

\* However long the format and however small the buffer, what is in it begins the whole.
LEMMA PrintsBeginning ==
  ASSUME NEW n \in Sizes, NEW fmt \in Seq(Item)
  PROVE  BeginsWhole(n, FlattenSeq([k \in DOMAIN fmt |-> Printed(fmt[k])]), kvsnprintf(n, fmt))
<1> DEFINE len == Len(fmt)
           ps == [k \in DOMAIN fmt |-> Printed(fmt[k])]
           u == PrintOf(n, fmt)
           whole == FlattenSeq(ps)
           room == n - 1
<1>1. len \in Nat /\ DOMAIN fmt = 1 .. len /\ \A k \in 1 .. len : fmt[k] \in Item
  BY ElementOfSeq
<1>2. ps \in Seq(Texts) /\ Len(ps) = len /\ \A k \in 1 .. len : ps[k] = Printed(fmt[k])
  <2>1. \A k \in 1 .. len : Printed(fmt[k]) \in Texts
    BY <1>1, ItemPrints, Zenon
  <2> HIDE DEF len
  <2>2. QED
    BY <1>1, <2>1
<1> HIDE DEF ps
<1>3. PICK v : InARow(ps, v) /\ v[len] = whole
  BY <1>2, FlatSteps, Zenon
<1>4. /\ v[0] = << >> /\ \A k \in 0 .. len : v[k] \in Texts
      /\ \A k \in 1 .. len : v[k] = v[k - 1] \o Printed(fmt[k])
  BY <1>2, <1>3, Zenon DEF InARow
<1>5. /\ kvsnprintf(n, fmt) = u[len].out
      /\ u[0] = [out |-> << >>, at |-> 0]
      /\ \A k \in 1 .. len : u[k] = PutOn(u[k - 1], n, fmt[k])
  BY PrintSteps, Zenon DEF Prints
<1>6. room \in Nat
  BY LibraryAssumption, PowerIsPositive
<1> HIDE DEF u, whole, len
<1> DEFINE P == {k \in 0 .. len : u[k] \in Printing /\ u[k].at <= Len(u[k].out)
                                  /\ Begins(room, u[k].out, v[k])}
<1>7. 0 \in P
  <2>1. /\ u[0] \in Printing /\ u[0].at <= Len(u[0].out) /\ u[0].out = << >> /\ u[0].out \in Texts
    BY <1>5 DEF Printing, Texts
  <2>2. Begins(room, u[0].out, v[0]) /\ 0 \in 0 .. len
    BY <1>1, <1>4, <2>1 DEF Begins
  <2>3. QED
    BY <2>1, <2>2, Zenon
<1>8. ASSUME NEW k \in 1 .. len, k - 1 \in P PROVE k \in P
  <2> DEFINE s == u[k - 1]
             item == fmt[k]
             p == Printed(item)
  <2>1. k \in 0 .. len /\ item \in Item /\ p \in Texts
    BY <1>1, ItemPrints
  <2>2. s \in Printing /\ s.at <= Len(s.out) /\ Begins(room, s.out, v[k - 1])
    BY <1>8, Zenon
  <2>3. u[k] = PutOn(s, n, item) /\ v[k] = v[k - 1] \o p
    BY <1>4, <1>5, Zenon
  <2> HIDE DEF s, item, p
  <2>4. CASE s.at >= room
    <3>1. u[k] = s
      BY <2>3, <2>4, Zenon DEF PutOn
    <3>2. Len(s.out) >= room
      <4>1. s.at \in Nat /\ Len(s.out) \in Nat
        BY <2>2 DEF Printing, Texts
      <4>2. QED
        BY <1>6, <2>2, <2>4, <4>1
    <3>3. Begins(room, s.out, v[k - 1] \o p)
      BY <1>6, <2>1, <2>2, <3>2, BeginsStill, Zenon
    <3>4. QED
      BY <2>1, <2>2, <2>3, <3>1, <3>3, Zenon
  <2>5. CASE ~(s.at >= room)
    <3> DEFINE t == Put(s.out, s.at, item, n)
    <3>1. u[k] = t
      BY <2>3, <2>5, Zenon DEF PutOn
    <3>2. t \in Printing /\ t.at <= Len(t.out) /\ AddsTo(room, s.out, p, t.out)
      BY <2>1, <2>2, PutAdds, Zenon DEF p
    <3> HIDE DEF t
    <3>3. Begins(room, t.out, v[k - 1] \o p)
      BY <1>6, <2>1, <2>2, <3>2, BeginsOn, Zenon
    <3>4. QED
      BY <2>1, <2>3, <3>1, <3>2, <3>3, Zenon
  <2>6. QED
    BY <2>4, <2>5, Zenon
<1> HIDE DEF P, room
<1>9. \A k \in 0 .. len : k \in P
  BY <1>1, <1>7, <1>8, UpTo
<1> DEFINE out == u[len].out
<1>10. Begins(room, out, whole)
  <2>1. len \in 0 .. len
    BY <1>1
  <2>2. QED
    BY <1>3, <1>9, <2>1, Zenon DEF P
<1> HIDE DEF out
<1>11. /\ Len(out) >= Least(room, Len(whole))
       /\ SubSeq(out, 1, Least(room, Len(whole))) = SubSeq(whole, 1, Least(room, Len(whole)))
  BY <1>6, <1>10, BeginningCut, Zenon
<1>12. QED
  BY <1>5, <1>11, Zenon DEF BeginsWhole, out, whole, ps, room

\* Only Format says what was printed.
LEMMA PrintsAlways ==
  ASSUME [Next]_vars, PrintsABeginning
  PROVE  PrintsABeginning'
<1>1. ASSUME NEW n \in Sizes, NEW fmt \in Formats, Format(n, fmt) PROVE PrintsABeginning'
  <2>1. call' = [op |-> "print", n |-> n, fmt |-> fmt] /\ text' = kvsnprintf(n, fmt)
    BY <1>1, Zenon DEF Format
  <2>2. call'.op = "print" /\ call'.n = n /\ call'.fmt = fmt
    BY <2>1
  <2>3. fmt \in Seq(Item)
    BY LibraryAssumption
  <2>4. BeginsWhole(n, FlattenSeq([k \in DOMAIN fmt |-> Printed(fmt[k])]), text')
    BY <2>1, <2>3, PrintsBeginning, Zenon
  <2>5. BeginsWhole(call'.n, FlattenSeq([k \in DOMAIN call'.fmt |-> Printed(call'.fmt[k])]), text')
    BY <2>2, <2>4, Zenon
  <2>6. QED
    BY <2>5, Zenon DEF PrintsABeginning, BeginsWhole
<1>2. ASSUME call'.op # "print" PROVE PrintsABeginning'
  BY <1>2, Zenon DEF PrintsABeginning
<1>3. ASSUME NEW e \in Extents,
             KeCopyMemory(e) \/ KeMoveMemory(e) \/ RtlCopyMemory(e) \/ RtlMoveMemory(e)
      PROVE  call'.op # "print"
  BY <1>3 DEF KeCopyMemory, KeMoveMemory, RtlCopyMemory, RtlMoveMemory
<1>4. ASSUME NEW e, NEW ends, KeCopyStringEx(e, ends) \/ KeConcatStringEx(e, ends)
      PROVE  call'.op # "print"
  BY <1>4 DEF KeCopyStringEx, KeConcatStringEx, StringCall
<1>5. ASSUME NEW s, NEW t, Compare(s, t) \/ Find(s, t) PROVE call'.op # "print"
  BY <1>5 DEF Compare, Find
<1>6. ASSUME NEW val, NEW blanks, Convert(val, blanks) PROVE call'.op # "print"
  BY <1>6 DEF Convert
<1>7. ASSUME Return PROVE call'.op # "print"
  BY <1>7 DEF Return, NoCall
<1>8. ASSUME UNCHANGED vars PROVE PrintsABeginning'
  BY <1>8, Zenon DEF vars, PrintsABeginning
<1>9. QED
  BY <1>1, <1>2, <1>3, <1>4, <1>5, <1>6, <1>7, <1>8 DEF Next, Halted

\* Of any format and any size of the buffer below that of memory, the buffer holds the
\* beginning of what the whole format would print (printf.c:81-120).
THEOREM PrintsSound == Spec => []PrintsABeginning
<1>1. Init => PrintsABeginning
  BY DEF Init, NoCall, PrintsABeginning
<1>2. QED
  BY <1>1, PrintsAlways, PTL DEF Spec
=============================================================================
