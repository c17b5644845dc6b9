------------------------------ MODULE Library ------------------------------
(***************************************************************************)
(* The memory, string and number routines of the kernel (memory.c,         *)
(* printf.c) and the copies of them that programs are linked with          *)
(* (rtl/memory.c), one call at a time.                                     *)
(*                                                                         *)
(* A C string is the sequence of its characters before the NUL.  Memory is *)
(* a few cells that hold different values, so that a copy shows where      *)
(* each of them went.                                                      *)
(***************************************************************************)
EXTENDS Integers, SequencesExt

CONSTANTS
  Cells,        \* addresses 0..Cells - 1
  Words,        \* strings that are compared and searched
  IntBits,      \* width of int
  WordBits,     \* width of an address and of size_t
  Formats,      \* what kvsnprintf is asked to print, see Item
  Sizes         \* the sizes of its buffer

IntMin == -(2 ^ (IntBits - 1))
Ints == IntMin..-IntMin - 1

(***************************************************************************)
(* Of a format the model keeps its characters, the strings its %s stand    *)
(* for and the values its %i stand for.                                    *)
(***************************************************************************)
Item == [char : Nat] \cup [str : Seq(Nat)] \cup [val : Ints]

ASSUME LibraryAssumption ==
  /\ Cells \in Nat \ {0} /\ IntBits \in Nat \ {0} /\ WordBits \in Nat \ {0}
  /\ Words \subseteq Seq(Nat \ {0}) /\ Formats \subseteq Seq(Item)
  /\ Sizes \subseteq 1..2 ^ WordBits - 1

VARIABLES
  call,         \* the call made, or NoCall
  mem,          \* the cells
  value,        \* what it returned
  text,         \* the string it wrote
  panicked
vars == <<call, mem, value, text, panicked>>

NoCall == [op |-> "none"]
Addresses == 0..Cells - 1
Fresh == [a \in Addresses |-> a]
Extents == {e \in [dest : Addresses, src : Addresses, n : 0..Cells] :
              e.dest + e.n <= Cells /\ e.src + e.n <= Cells}
StringExtents == [dest : Addresses, src : Addresses, n : {0, 1, 2, Cells}]
Ends == {ends \in SUBSET Addresses : Cardinality(ends) \in {1, 2}}

Least(x, y) == IF x < y THEN x ELSE y
NUL == 0
At(s, i) == IF i \in DOMAIN s THEN s[i] ELSE NUL

----------------------------------------------------------------------------
(* Copies, cell after cell.  Those outside the model's memory are not seen. *)

Copied(m, from, to) == [m EXCEPT ![to] = IF from \in Addresses THEN m[from] ELSE Cells]

ForwardIn(before, e) ==
  LET m[i \in 0..e.n] == IF i = 0 THEN before ELSE Copied(m[i - 1], e.src + i - 1, e.dest + i - 1)
  IN m[e.n]
Forward(e) == ForwardIn(mem, e)

\* From the byte behind the last down to the second.
Backward(e) ==
  LET m[i \in 0..e.n] ==
        IF i = 0 THEN mem
        ELSE LET k == e.n + 1 - i IN
             IF e.dest + k \in Addresses THEN Copied(m[i - 1], e.src + k, e.dest + k)
             ELSE m[i - 1]
  IN m[e.n]

\* abs is a macro without parentheses: -x negates only the first address.
Distance(dest, src) ==
  (IF dest - src < 0 THEN -dest - src ELSE dest - src) % (2 ^ WordBits)

Overlaps(dest, src, n) == Distance(dest, src) < n

KeCopyMemory(e) ==
  /\ call = NoCall
  /\ call' = [op |-> "copy", e |-> e]
  /\ IF Overlaps(e.dest, e.src, e.n)
     THEN panicked' = TRUE /\ UNCHANGED mem
     ELSE mem' = Forward(e) /\ UNCHANGED panicked
  /\ UNCHANGED <<value, text>>

KeMoveMemory(e) ==
  /\ call = NoCall
  /\ call' = [op |-> "move", e |-> e]
  /\ mem' = IF e.dest < e.src THEN Forward(e) ELSE Backward(e)
  /\ UNCHANGED <<value, text, panicked>>

RtlMoveMemory(e) == KeMoveMemory(e)

\* The copy that has no assertion.
RtlCopyMemory(e) ==
  /\ call = NoCall
  /\ call' = [op |-> "rtlcopy", e |-> e]
  /\ mem' = Forward(e)
  /\ UNCHANGED <<value, text, panicked>>

(***************************************************************************)
(* Copies of strings, in memory that holds a NUL at each address of ends:  *)
(* up to n characters from src, and a NUL, to dest.  A destination inside  *)
(* the string overwrites its end before it is read, so the copy may leave  *)
(* the memory of the model ("stray").                                      *)
(***************************************************************************)
WithNULs(ends) == [a \in Addresses |-> IF a \in ends THEN NUL ELSE a + 1]

CharCopied(s, e) ==
  LET from == e.src + s.i
      to   == e.dest + s.i
  IN IF s.state # "copies" THEN s
     ELSE IF to \notin Addresses \/ (s.i < e.n /\ from \notin Addresses) THEN [s EXCEPT !.state = "stray"]
     ELSE IF s.i = e.n \/ s.mem[from] = NUL THEN [s EXCEPT !.mem[to] = NUL, !.state = "ends"]
     ELSE [s EXCEPT !.mem[to] = s.mem[from], !.i = @ + 1]

\* Mutant: the NUL takes the place of the last of n characters.
StringCopiedShort(m, e) ==
  LET s[k \in 0..Cells + 1] ==
        IF k = 0 THEN [mem |-> m, i |-> 0, state |-> "copies"]
        ELSE CharCopied(s[k - 1], [e EXCEPT !.n = IF e.n = 0 THEN 0 ELSE e.n - 1])
  IN s[Cells + 1]
StringCopied(m, e) ==
  LET s[k \in 0..Cells + 1] ==
        IF k = 0 THEN [mem |-> m, i |-> 0, state |-> "copies"] ELSE CharCopied(s[k - 1], e)
  IN s[Cells + 1]

EndFrom(m, a) ==
  LET ends == {z \in Addresses : z >= a /\ m[z] = NUL} IN IF ends = {} THEN Cells ELSE Min(ends)

StringCall(op, e, ends, done) ==
  /\ call = NoCall
  /\ call' = [op |-> op, e |-> e, ends |-> ends, state |-> done.state]
  /\ mem' = done.mem
  /\ UNCHANGED <<value, text, panicked>>

\* KeCopyString is without a limit, that is n = Cells.
KeCopyStringEx(e, ends) == StringCall("strcpy", e, ends, StringCopied(WithNULs(ends), e))
KeConcatStringEx(e, ends) ==
  LET m == WithNULs(ends)
  IN StringCall("strcat", e, ends, StringCopied(m, [e EXCEPT !.dest = EndFrom(m, e.dest)]))

----------------------------------------------------------------------------
(* Comparing and searching *)

SumOfDifferences(s, t, n) ==
  LET diff[i \in 0..n] == IF i = 0 THEN 0 ELSE diff[i - 1] + s[i] - t[i] IN diff[n]

\* At most n characters are compared; if they end before `limit', what stopped them
\* is compared too.  Mutant: it never is.
Compared(s, t, n, limit) ==
  LET k == Least(n, Least(Len(s), Len(t)))
  IN IF k < limit /\ At(s, k + 1) # At(t, k + 1) THEN -1 ELSE SumOfDifferences(s, t, k)
CompareWithoutEnd(s, t) == Compared(s, t, Len(s), 0)
KeCompareString(s, t) == Compared(s, t, Len(s), Len(s) + 1)
KeCompareStringEx(s, t, n) == Compared(s, t, n, n)

RtlCompareString(s, t) == KeCompareString(s, t)
RtlCompareStringEx(s, t, n) == Compared(s, t, n, n)

Compare(s, t) ==
  /\ call = NoCall
  /\ call' = [op |-> "compare", s |-> s, t |-> t]
  /\ value' \in {KeCompareString(s, t), RtlCompareString(s, t)}
  /\ UNCHANGED <<mem, text, panicked>>

Rest(s, i) == SubSeq(s, i, Len(s))

\* From i on, the place of the first character that is in `accept' or the end.
KeBreakCharPtrString(s, i, accept) ==
  Min({j \in i..Len(s) + 1 : At(s, j) \in accept \cup {NUL}})
UpToNUL(s) == SubSeq(s, 1, KeBreakCharPtrString(s, 1, {}) - 1)

\* The position of the first match, 0 for NULL.
KeFindStringString(s, needle) ==
  LET hits == {i \in 1..Len(s) :
                 s[i] = At(needle, 1) /\ KeCompareStringEx(Rest(s, i), needle, Len(needle)) = 0}
  IN IF hits = {} THEN 0 ELSE Min(hits)

RtlFindStringString(s, needle) ==
  LET hits == {i \in 1..Len(s) :
                 s[i] = At(needle, 1) /\ RtlCompareStringEx(Rest(s, i), needle, Len(needle)) = 0}
  IN IF hits = {} THEN 0 ELSE Min(hits)

Find(s, needle) ==
  /\ call = NoCall
  /\ call' = [op |-> "find", s |-> s, t |-> needle]
  /\ value' \in {KeFindStringString(s, needle), RtlFindStringString(s, needle)}
  /\ UNCHANGED <<mem, text, panicked>>

----------------------------------------------------------------------------
(* Numbers, in EBCDIC *)

Zero == 240
Minus == 96
Blanks == {64, 5}

Wrapped(x) == ((x - IntMin) % (2 ^ IntBits)) + IntMin

\* Division truncates towards 0, the remainder has the sign of the dividend.
Quotient(x, y) == IF x < 0 THEN -((-x) \div y) ELSE x \div y
Remainder(x, y) == x - y * Quotient(x, y)

Digits(val) ==
  LET q[j \in 0..IntBits] == IF j = 0 THEN val ELSE Quotient(q[j - 1], 10)
      n == Min({j \in 0..IntBits : q[j] = 0})
  IN [i \in 1..n |-> Remainder(q[n - i], 10) + Zero]

\* Base 10; the negative of the least int is itself.  Mutant: the digits in the
\* order they are found.
ItoaReversed(val) ==
  IF val = 0 THEN <<Zero>>
  ELSE IF val < 0 THEN <<Minus>> \o Reverse(Digits(Wrapped(-val)))
  ELSE Reverse(Digits(val))
itoa(val) ==
  IF val = 0 THEN <<Zero>>
  ELSE IF val < 0 THEN <<Minus>> \o Digits(Wrapped(-val))
  ELSE Digits(val)

KeSpanString(s, accept) ==
  Min({i \in 0..Len(s) : At(s, i + 1) \notin accept})

KeConvertStringToInt(s) ==
  LET blank   == KeSpanString(s, Blanks)
      first   == IF At(s, blank + 1) = Minus THEN blank + 2 ELSE blank + 1
      last    == first - 1 + KeSpanString(Rest(s, first), Zero..Zero + 9)
      num[i \in first - 1..last] ==
        IF i < first THEN 0 ELSE Wrapped(num[i - 1] * 10 + s[i] - Zero)
  IN Wrapped(IF At(s, blank + 1) = Minus THEN -num[last] ELSE num[last])

RtlConvertStringToInt(s) == KeConvertStringToInt(s)

\* A number is printed, and read again behind some blanks.
Convert(val, blanks) ==
  /\ call = NoCall
  /\ call' = [op |-> "convert", val |-> val]
  /\ text' = blanks \o itoa(val)
  /\ value' \in {KeConvertStringToInt(blanks \o itoa(val)), RtlConvertStringToInt(blanks \o itoa(val))}
  /\ UNCHANGED <<mem, panicked>>

----------------------------------------------------------------------------
(***************************************************************************)
(* kvsnprintf.  The size is checked before a conversion against the place  *)
(* where the one before it began, so what is written may pass the end of   *)
(* the buffer; the characters there are as they were written.              *)
(***************************************************************************)
Printed(item) ==
  CASE "char" \in DOMAIN item -> <<item.char>>
    [] "str" \in DOMAIN item -> item.str
    [] "val" \in DOMAIN item -> itoa(item.val)

\* Mutant: the place is not looked up again.
PutAtOldPlace(out, at, item, n) ==
  IF "char" \in DOMAIN item
  THEN [out |-> SubSeq(out, 1, at) \o Printed(item), at |-> at + 1]
  ELSE [out |-> SubSeq(out, 1, at) \o Printed(item), at |-> at]

Put(out, at, item, n) ==
  LET i == Len(out) IN
  CASE "char" \in DOMAIN item -> [out |-> Append(out, item.char), at |-> i + 1]
    [] "str" \in DOMAIN item ->
         [out |-> out \o SubSeq(item.str, 1, Least(Len(item.str), (n - i) % (2 ^ WordBits))), at |-> i]
    [] "val" \in DOMAIN item -> [out |-> out \o itoa(item.val), at |-> i]

kvsnprintf(n, fmt) ==
  LET s[k \in 0..Len(fmt)] ==
        IF k = 0 THEN [out |-> << >>, at |-> 0]
        ELSE IF s[k - 1].at >= n - 1 THEN s[k - 1]
        ELSE Put(s[k - 1].out, s[k - 1].at, fmt[k], n)
  IN s[Len(fmt)].out

Format(n, fmt) ==
  /\ call = NoCall
  /\ call' = [op |-> "print", n |-> n, fmt |-> fmt]
  /\ text' = kvsnprintf(n, fmt)
  /\ UNCHANGED <<mem, value, panicked>>

----------------------------------------------------------------------------
Init ==
  /\ call = NoCall /\ mem = Fresh /\ value = 0 /\ text = << >> /\ panicked = FALSE

Return ==
  /\ call # NoCall /\ ~panicked
  /\ call' = NoCall /\ mem' = Fresh /\ value' = 0 /\ text' = << >>
  /\ UNCHANGED panicked

Halted == panicked /\ UNCHANGED vars

Next ==
  \/ /\ call = NoCall
     /\ \/ \E e \in Extents :
             KeCopyMemory(e) \/ KeMoveMemory(e) \/ RtlCopyMemory(e) \/ RtlMoveMemory(e)
        \/ \E e \in StringExtents, ends \in Ends :
             KeCopyStringEx(e, ends) \/ KeConcatStringEx(e, ends)
        \/ \E s, t \in Words : Compare(s, t) \/ Find(s, t)
        \/ \E val \in Ints, blanks \in {<< >>} \cup {<<b>> : b \in Blanks} : Convert(val, blanks)
        \/ \E n \in Sizes, fmt \in Formats : Format(n, fmt)
  \/ Return
  \/ Halted

Spec == Init /\ [][Next]_vars

----------------------------------------------------------------------------
(* Properties *)

\* When a copy comes back, the destination holds what the source held, although the
\* assertion against overlaps (memory.c:12) misses every source behind the
\* destination; programs have no assertion (rtl/memory.c:4-13).
CopiesForward ==
  \/ call.op = "copy" /\ ~panicked
  \/ call.op = "rtlcopy" /\ call.e.dest - call.e.src \notin 1..call.e.n - 1
  =>
    \A i \in 0..call.e.n - 1 : mem[call.e.dest + i] = Fresh[call.e.src + i]

\* KeMoveMemory moves all bytes but the first, whichever way the areas overlap
\* (memory.c:31-38), and moving down, the first one too and nothing else.
MovesAllButTheFirst ==
  call.op = "move" =>
    /\ \A i \in 1..call.e.n - 1 : mem[call.e.dest + i] = Fresh[call.e.src + i]
    /\ call.e.dest < call.e.src =>
         \A a \in Addresses :
           mem[a] = IF a \in call.e.dest..call.e.dest + call.e.n - 1
                    THEN Fresh[a - call.e.dest + call.e.src] ELSE a

\* A string copied or appended is there up to the limit, ended by a NUL that takes the
\* place behind it, and nothing else is changed, unless the place is inside the string
\* or the string, or the result, has no end in memory (memory.c:158-202).
CopiesStrings ==
  call.op \in {"strcpy", "strcat"} =>
    LET before == WithNULs(call.ends)
        e    == call.e
        dest == IF call.op = "strcpy" THEN e.dest ELSE EndFrom(before, e.dest)
        len  == Least(e.n, EndFrom(before, e.src) - e.src)
        ends == e.src + len < Cells \/ (len = e.n /\ e.src + len = Cells)
    IN ends /\ dest \notin e.src + 1..e.src + len /\ dest + len < Cells =>
         /\ call.state = "ends"
         /\ mem = [a \in Addresses |->
                     IF a \in dest..dest + len - 1 THEN before[a - dest + e.src]
                     ELSE IF a = dest + len THEN NUL ELSE before[a]]

\* What the routines copy, move and append, compared with what they are for.
CopiesKeepTheBytes == CopiesForward /\ MovesAllButTheFirst /\ CopiesStrings

Differences(s, t) == {i \in 1..Least(Len(s), Len(t)) : s[i] # t[i]}

\* Strings that compare equal have one length and are not one character apart,
\* though they may be anagrams (memory.c:75-89), and equal strings do.  A string that
\* occurs is found, not behind its first occurrence; an anagram may be found in its
\* place (memory.c:204-216).
MatchesLengthAndSum ==
  /\ call.op = "compare" =>
       /\ call.s = call.t => value = 0
       /\ value = 0 => Len(call.s) = Len(call.t) /\ Cardinality(Differences(call.s, call.t)) # 1
  /\ call.op = "find" /\ call.t # << >> =>
       \A i \in 1..Len(call.s) :
         IsPrefix(call.t, Rest(call.s, i)) => value \in 1..i

\* What itoa prints KeConvertStringToInt reads back, except the least int
\* (printf.c:53-61): its negative has no digits.
NumbersReadBack ==
  call.op = "convert" => value = IF call.val = IntMin THEN 0 ELSE call.val

\* However a format is cut off by the size of the buffer, the buffer holds the
\* beginning of what the whole of it would print (printf.c:81-120).
PrintsABeginning ==
  call.op = "print" =>
    LET whole == FlattenSeq([k \in DOMAIN call.fmt |-> Printed(call.fmt[k])])
        kept  == Least(call.n - 1, Len(whole))
    IN Len(text) >= kept /\ SubSeq(text, 1, kept) = SubSeq(whole, 1, kept)
=============================================================================
