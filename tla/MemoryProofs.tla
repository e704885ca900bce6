---------------------------- MODULE MemoryProofs ----------------------------
(***************************************************************************)
(* Proofs about Memory, for any memory, any legal call and any lengths.    *)
(***************************************************************************)
EXTENDS Memory, SequenceTheorems, WellFoundedInduction, TLAPS

-----------------------------------------------------------------------------
(* The loop invariants *)

Types == /\ \E s \in Starts : call = s.call /\ before = s.memory
         /\ memory \in [Addresses -> Byte] /\ i \in Nat

\* Some functions only read.
ReadOnly ==
  call.function \notin {"memset", "memmove", "strncpy"} => memory = before

\* The first i bytes of the target are written.
MemsetLoop ==
  call.function = "memset" /\ part = 1 =>
    /\ i <= call.n
    /\ \A a \in Addresses :
         memory[a] = IF a \in Span(call.p, i) THEN call.q % 256 ELSE before[a]

\* Those already moved: the first or the last ones, which are not read again.
Moved == IF call.p < call.q THEN Span(call.p, i) ELSE Span(call.p + call.n - i, i)

MemmoveLoop ==
  call.function = "memmove" /\ part = 1 =>
    /\ i <= call.n
    /\ call.p = call.q => i = 0
    /\ \A a \in Addresses :
         memory[a] = IF a \in Moved THEN before[a - call.p + call.q] ELSE before[a]

MemcmpLoop ==
  call.function = "memcmp" /\ part = 1 =>
    /\ i <= call.n
    /\ \A k \in 0 .. i - 1 : before[call.p + k] = before[call.q + k]

StrlenLoop ==
  call.function = "strlen" /\ part = 1 =>
    \A k \in 0 .. i - 1 : before[call.p + k] # NUL

StrcmpLoop ==
  call.function = "strcmp" /\ part = 1 =>
    \A k \in 0 .. i - 1 : before[call.p + k] # NUL /\ before[call.p + k] = before[call.q + k]

\* A byte of the string, or a zero once it has ended.
EndedBy(k)     == \E j \in 0 .. k : before[call.q + j] = NUL
CopiedByte(a)  == IF EndedBy(a - call.p) THEN NUL ELSE before[a - call.p + call.q]

StrncpyLoop ==
  call.function = "strncpy" /\ part \in {1, 2} =>
    /\ i <= call.n
    /\ \A a \in Addresses :
         memory[a] = IF a \in Span(call.p, i) THEN CopiedByte(a) ELSE before[a]
    /\ part = 1 => \A k \in 0 .. i - 1 : before[call.q + k] # NUL
    /\ part = 2 /\ i < call.n => EndedBy(i)

\* A string of the dump.
Quoted(s) == s[2] = LengthOf(s[1]) /\ \A k \in 1 .. s[2] : isprint(StringAt(s[1])[k])

\* The rows shown are whole up to the end of the stack.
DumpInv ==
  call.function = "stack_dump" =>
    /\ reads \subseteq esp .. STACK_BASE
    /\ shown = [k \in 1 .. Len(shown) |-> esp + k - 1] /\ Len(shown) \in Nat
    /\ part = 1 => Len(shown) = 0
    /\ part = 2 => /\ ROW * i <= STACK_DUMP_BYTES
                   /\ Len(shown) = IF ROW * i <= STACK_BASE - esp THEN ROW * i ELSE STACK_BASE - esp
    /\ part \notin {1, 2} => Len(shown) = Min({STACK_DUMP_BYTES, STACK_BASE - esp})
    /\ \A s \in quoted : Quoted(s)

\* The stops of a walk that has come to an address, each an entry after the last.
EndingAt(end) ==
  /\ Stops(end)[1] = call.p
  /\ \A k \in 1 .. Len(shown) :
       Stops(end)[k + 1] = Stops(end)[k] + before[Stops(end)[k]] + WORD

Entries(entries) ==
  /\ {0, call.n} \subseteq entries
  /\ \A e \in entries \ {call.n} : /\ before[call.p + e] + WORD >= ENTRY_SIZE
                                   /\ e + before[call.p + e] + WORD \in entries

WalkInv ==
  call.function = "print_multiboot_info" =>
    /\ shown \in Seq(Nat) /\ reads \subseteq IF HasMap(call) THEN Target ELSE {}
    /\ part = 1 => i = 0 /\ shown = << >>
    /\ part = 2 => /\ HasMap(call) /\ EndingAt(call.p + i)
                   /\ \E entries \in SUBSET (0 .. call.n) : Entries(entries) /\ i \in entries
    /\ part = 0 /\ HasMap(call) => EndingAt(call.p + call.n)

HelperInv == /\ Types /\ ReadOnly /\ HelpersRight
             /\ MemsetLoop /\ MemmoveLoop /\ MemcmpLoop
             /\ StrlenLoop /\ StrcmpLoop /\ StrncpyLoop

-----------------------------------------------------------------------------
(* Facts *)

\* What is known of the call and of the memory it found.
LEMMA CallFacts ==
  ASSUME Types
  PROVE  /\ call \in CallType /\ call.p \in Nat /\ call.q \in Nat /\ call.n \in Nat
         /\ before \in [Addresses -> Byte] /\ Legal(call, before)
BY MemoryAssumption DEF Types, CallType

\* One byte is written.
LEMMA SetFacts ==
  ASSUME memory \in [Addresses -> Byte], NEW x \in Addresses, NEW b \in Byte, Set(x, b)
  PROVE  /\ memory' \in [Addresses -> Byte]
         /\ \A a \in Addresses : memory'[a] = IF a = x THEN b ELSE memory[a]
BY DEF Set

\* One byte more.
LEMMA SpanMore ==
  \A p, n, x \in Nat : /\ x \in Span(p, n + 1) <=> x = p + n \/ x \in Span(p, n)
                       /\ Span(p, 0) = {}
                       /\ x \in Span(p, n) <=> p <= x /\ x < p + n
BY DEF Span

LEMMA SpanInside ==
  ASSUME NEW p \in Nat, NEW n \in Nat, Span(p, n) \subseteq Addresses, NEW k \in Nat, k < n
  PROVE  p + k \in Addresses
<1>1. p + k \in Span(p, n)
  BY DEF Span
<1> QED BY <1>1

-----------------------------------------------------------------------------
(* mem.c *)

LEMMA MemsetInv == ASSUME HelperInv, Memset PROVE HelperInv'
<1> DEFINE p == call.p
           n == call.n
<1>1. /\ call.function = "memset" /\ part = 1 /\ call' = call /\ before' = before
      /\ Types /\ MemsetLoop
  BY DEF Memset, Turn, Step, Leave, HelperInv
<1>2. /\ p \in Nat /\ n \in Nat /\ call.q \in Nat /\ before \in [Addresses -> Byte]
      /\ Span(p, n) \subseteq Addresses
  BY <1>1, CallFacts DEF Legal
<1>3. /\ i \in Nat /\ i <= n
      /\ memory \in [Addresses -> Byte]
      /\ \A a \in Addresses : memory[a] = IF a \in Span(p, i) THEN call.q % 256 ELSE before[a]
  BY <1>1 DEF MemsetLoop, Types
<1>4. call.q % 256 \in Byte
  BY <1>2 DEF Byte
<1>5. \A a \in Addresses : a \in Nat
  BY DEF Addresses
<1> HIDE DEF p, n
<1>6. CASE i < n
  <2>1. Set(p + i, call.q % 256) /\ i' = i + 1 /\ part' = 1
    BY <1>1, <1>6 DEF Memset, Step, p, n
  <2>2. p + i \in Addresses
    BY <1>2, <1>3, <1>6, SpanInside
  <2>3. /\ memory' \in [Addresses -> Byte]
        /\ \A a \in Addresses : memory'[a] = IF a = p + i THEN call.q % 256 ELSE memory[a]
    BY <1>3, <1>4, <2>1, <2>2, SetFacts
  <2>4. \A a \in Addresses : a \in Span(p, i + 1) <=> a = p + i \/ a \in Span(p, i)
    BY <1>2, <1>3, <1>5, SpanMore
  <2>5. \A a \in Addresses : memory'[a] = IF a \in Span(p, i + 1) THEN call.q % 256 ELSE before[a]
    BY <1>3, <2>3, <2>4
  <2>6. i + 1 \in Nat /\ i + 1 <= n
    BY <1>2, <1>3, <1>6
  <2>7. MemsetLoop'
    BY <1>1, <2>1, <2>5, <2>6 DEF MemsetLoop, p, n
  <2>8. Types'
    BY <1>1, <2>1, <2>3, <2>6 DEF Types
  <2>9. HelpersRight'
    BY <2>1 DEF HelpersRight
  <2> QED BY <1>1, <2>7, <2>8, <2>9 DEF HelperInv, ReadOnly, MemmoveLoop, MemcmpLoop, StrlenLoop, StrcmpLoop, StrncpyLoop
<1>7. CASE ~(i < n)
  <2>1. part' = 0 /\ i' = 0 /\ memory' = memory /\ i = n /\ result' = call.p
    BY <1>1, <1>2, <1>3, <1>7 DEF Memset, Leave, p, n
  <2>2. memory' = [a \in DOMAIN before |-> IF a \in Target THEN call.q % 256 ELSE before[a]]
    BY <1>2, <1>3, <2>1 DEF Target, p, n
  <2>3. HelpersRight'
    BY <1>1, <2>1, <2>2 DEF HelpersRight, Target
  <2>4. Types'
    BY <1>1, <2>1 DEF Types
  <2> QED BY <1>1, <2>1, <2>3, <2>4 DEF HelperInv, ReadOnly, MemsetLoop, MemmoveLoop, MemcmpLoop, StrlenLoop, StrcmpLoop, StrncpyLoop
<1> QED BY <1>6, <1>7

LEMMA MemmoveInv == ASSUME HelperInv, Memmove PROVE HelperInv'
<1> DEFINE p == call.p
           q == call.q
           n == call.n
<1>1. /\ call.function = "memmove" /\ part = 1 /\ call' = call /\ before' = before
      /\ Types /\ MemmoveLoop
  BY DEF Memmove, Turn, Step, Leave, HelperInv
<1>2. /\ p \in Nat /\ n \in Nat /\ q \in Nat /\ before \in [Addresses -> Byte]
      /\ Span(p, n) \subseteq Addresses /\ Span(q, n) \subseteq Addresses
  BY <1>1, CallFacts DEF Legal
<1>3. /\ i \in Nat /\ i <= n /\ (p = q => i = 0)
      /\ memory \in [Addresses -> Byte]
      /\ \A a \in Addresses : memory[a] = IF a \in Moved THEN before[a - p + q] ELSE before[a]
  BY <1>1 DEF MemmoveLoop, Types
<1>4. \A a \in Addresses : a \in Nat
  BY DEF Addresses
<1> HIDE DEF p, q, n
<1>5. CASE i < n /\ p # q
  <2> DEFINE k == InOrder(i)
  <2>1. Set(p + k, memory[q + k]) /\ i' = i + 1 /\ part' = 1
    BY <1>1, <1>5 DEF Memmove, Step, p, q, n
  <2>2. k = (IF p < q THEN i ELSE n - 1 - i) /\ k \in Nat /\ k < n
    BY <1>2, <1>3, <1>5 DEF InOrder, p, q, n
  <2> HIDE DEF k
  <2>3. p + k \in Addresses /\ q + k \in Addresses
    BY <1>2, <2>2, SpanInside
  <2>4. memory[q + k] = before[q + k] /\ memory[q + k] \in Byte
    <3>1. q + k \notin Moved
      BY <1>2, <1>3, <1>5, <2>2, SMTT(30) DEF Moved, Span, p, q, n
    <3> QED BY <1>2, <1>3, <2>3, <3>1
  <2>5. /\ memory' \in [Addresses -> Byte]
        /\ \A a \in Addresses : memory'[a] = IF a = p + k THEN before[q + k] ELSE memory[a]
    BY <1>3, <2>1, <2>3, <2>4, SetFacts
  <2>6. \A a \in Addresses : a \in Moved' <=> a = p + k \/ a \in Moved
    <3> SUFFICES ASSUME NEW a \in Nat
                 PROVE  a \in Moved' <=> a = p + k \/ a \in Moved
      BY <1>4
    <3>1. Moved = IF p < q THEN Span(p, i) ELSE Span(p + n - i, i)
      BY DEF Moved, p, q, n
    <3>2. Moved' = IF p < q THEN Span(p, i + 1) ELSE Span(p + n - (i + 1), i + 1)
      BY <1>1, <2>1 DEF Moved, p, q, n
    <3>3. CASE p < q
      BY <1>2, <1>3, <2>2, <3>1, <3>2, <3>3 DEF Span
    <3>4. CASE ~(p < q)
      <4>1. a \in Span(p + n - (i + 1), i + 1) <=> p + n - i - 1 <= a /\ a < p + n
        BY <1>2, <1>3, <1>5 DEF Span
      <4>2. a \in Span(p + n - i, i) <=> p + n - i <= a /\ a < p + n
        BY <1>2, <1>3, <1>5 DEF Span
      <4>3. p + k = p + n - i - 1
        BY <1>2, <1>3, <2>2, <3>4
      <4> QED BY <1>2, <1>3, <1>5, <3>1, <3>2, <3>4, <4>1, <4>2, <4>3
    <3> QED BY <3>3, <3>4
  <2>7. \A a \in Addresses : memory'[a] = IF a \in Moved' THEN before[a - p + q] ELSE before[a]
    <3>1. (p + k) - p + q = q + k
      BY <1>2, <2>2
    <3> QED BY <1>3, <2>5, <2>6, <3>1
  <2>8. i + 1 \in Nat /\ i + 1 <= n
    BY <1>2, <1>3, <1>5
  <2>9. MemmoveLoop'
    BY <1>1, <1>5, <2>1, <2>7, <2>8 DEF MemmoveLoop, p, q, n
  <2>10. Types'
    BY <1>1, <2>1, <2>5, <2>8 DEF Types
  <2>11. HelpersRight'
    BY <2>1 DEF HelpersRight
  <2> QED BY <1>1, <2>9, <2>10, <2>11
          DEF HelperInv, ReadOnly, MemsetLoop, MemcmpLoop, StrlenLoop, StrcmpLoop, StrncpyLoop
<1>6. CASE ~(i < n /\ p # q)
  <2>1. part' = 0 /\ i' = 0 /\ memory' = memory /\ result' = p
    BY <1>1, <1>6 DEF Memmove, Leave, p, q, n
  <2>2. \A a \in Addresses : memory[a] = IF a \in Span(p, n) THEN before[a - p + q] ELSE before[a]
    <3>1. CASE p = q
      <4>1. \A a \in Addresses : a - p + q = a
        BY <1>2, <1>4, <3>1
      <4> QED BY <1>3, <3>1, <4>1
    <3>2. CASE p # q
      <4>1. i = n
        BY <1>2, <1>3, <1>6, <3>2
      <4>2. Moved = Span(p, n)
        BY <1>2, <4>1 DEF Moved, p, q, n
      <4> QED BY <1>3, <4>2
    <3> QED BY <3>1, <3>2
  <2>3. memory' = [a \in DOMAIN before |-> IF a \in Span(p, n) THEN before[a - p + q] ELSE before[a]]
    BY <1>2, <1>3, <2>1, <2>2
  <2>4. HelpersRight'
    BY <1>1, <2>1, <2>3 DEF HelpersRight, Target, p, q, n
  <2>5. Types'
    BY <1>1, <2>1 DEF Types
  <2> QED BY <1>1, <2>1, <2>4, <2>5
          DEF HelperInv, ReadOnly, MemsetLoop, MemmoveLoop, MemcmpLoop, StrlenLoop, StrcmpLoop, StrncpyLoop
<1> QED BY <1>5, <1>6

LEMMA SameBytes ==
  ASSUME NEW p \in Nat, NEW q \in Nat, NEW n \in Nat,
         \A k \in 0 .. n - 1 : before[p + k] = before[q + k]
  PROVE  Bytes(p, n) = Bytes(q, n)
<1>1. \A k \in 1 .. n : before[p + k - 1] = before[q + k - 1]
  <2> SUFFICES ASSUME NEW k \in 1 .. n PROVE before[p + k - 1] = before[q + k - 1]
    OBVIOUS
  <2>1. k - 1 \in 0 .. n - 1 /\ p + (k - 1) = p + k - 1 /\ q + (k - 1) = q + k - 1
    OBVIOUS
  <2> QED BY <2>1
<1> QED BY <1>1 DEF Bytes

\* The difference of the first bytes that differ has the sign of the comparison.
LEMMA FirstDifference ==
  ASSUME NEW p \in Nat, NEW q \in Nat, NEW n \in Nat, NEW m \in Nat,
         NEW k \in Nat, k < n, k < m,
         \A j \in 0 .. k - 1 : before[p + j] = before[q + j],
         before[p + k] \in Byte, before[q + k] \in Byte, before[p + k] # before[q + k]
  PROVE  Compares(before[p + k] - before[q + k], Bytes(p, n), Bytes(q, m))
<1> DEFINE s == Bytes(p, n)
           t == Bytes(q, m)
<1>1. /\ k + 1 \in DOMAIN s \cap DOMAIN t
      /\ s[k + 1] = before[p + k] /\ t[k + 1] = before[q + k]
  BY DEF Bytes
<1>2. \A j \in 1 .. (k + 1) - 1 : s[j] = t[j]
  <2> SUFFICES ASSUME NEW j \in 1 .. (k + 1) - 1 PROVE s[j] = t[j]
    OBVIOUS
  <2>1. s[j] = before[p + j - 1] /\ t[j] = before[q + j - 1]
    BY DEF Bytes
  <2>2. j - 1 \in 0 .. k - 1 /\ p + (j - 1) = p + j - 1 /\ q + (j - 1) = q + j - 1
    OBVIOUS
  <2> QED BY <2>1, <2>2
<1> HIDE DEF s, t
<1>3. /\ before[p + k] < before[q + k] <=> before[p + k] - before[q + k] < 0
      /\ before[q + k] < before[p + k] <=> before[p + k] - before[q + k] > 0
      /\ before[p + k] < before[q + k] \/ before[q + k] < before[p + k]
  <2>1. \A x, y \in Byte : /\ x < y <=> x - y < 0
                           /\ y < x <=> x - y > 0
                           /\ x # y => x < y \/ y < x
    BY DEF Byte
  <2> QED BY <2>1
<1>4. before[p + k] < before[q + k] => Before(s, t)
  BY <1>1, <1>2 DEF Before
<1>5. before[q + k] < before[p + k] => Before(t, s)
  BY <1>1, <1>2 DEF Before
<1> QED BY <1>3, <1>4, <1>5 DEF Compares, s, t

LEMMA MemcmpInv == ASSUME HelperInv, Memcmp PROVE HelperInv'
<1> DEFINE p == call.p
           q == call.q
           n == call.n
<1>1. /\ call.function = "memcmp" /\ part = 1 /\ call' = call /\ before' = before
      /\ Types /\ MemcmpLoop /\ memory = before /\ memory' = memory
  BY DEF Memcmp, Turn, Step, Leave, HelperInv, ReadOnly
<1>2. /\ p \in Nat /\ n \in Nat /\ q \in Nat /\ before \in [Addresses -> Byte]
      /\ Span(p, n) \subseteq Addresses /\ Span(q, n) \subseteq Addresses
  BY <1>1, CallFacts DEF Legal
<1>3. i \in Nat /\ i <= n /\ \A k \in 0 .. i - 1 : before[p + k] = before[q + k]
  BY <1>1 DEF MemcmpLoop, Types
<1> HIDE DEF p, q, n
<1>4. CASE i < n /\ before[p + i] = before[q + i]
  <2>1. i' = i + 1 /\ part' = 1
    BY <1>1, <1>4 DEF Memcmp, Step, p, q, n
  <2>2. i + 1 \in Nat /\ i + 1 <= n
    BY <1>2, <1>3, <1>4
  <2>3. \A k \in 0 .. (i + 1) - 1 : before[p + k] = before[q + k]
    BY <1>3, <1>4
  <2>4. MemcmpLoop'
    BY <1>1, <2>1, <2>2, <2>3 DEF MemcmpLoop, p, q, n
  <2>5. Types' /\ HelpersRight'
    BY <1>1, <2>1, <2>2 DEF Types, HelpersRight
  <2> QED BY <1>1, <2>4, <2>5
          DEF HelperInv, ReadOnly, MemsetLoop, MemmoveLoop, StrlenLoop, StrcmpLoop, StrncpyLoop
<1>5. CASE ~(i < n /\ before[p + i] = before[q + i])
  <2>1. /\ part' = 0 /\ i' = 0
        /\ result' = IF i < n THEN before[p + i] - before[q + i] ELSE 0
    BY <1>1, <1>5 DEF Memcmp, Leave, p, q, n
  <2>2. Compares(result', Bytes(p, n), Bytes(q, n))
    <3>1. CASE i < n
      <4>1. before[p + i] \in Byte /\ before[q + i] \in Byte /\ before[p + i] # before[q + i]
        BY <1>2, <1>3, <1>5, <3>1, SpanInside
      <4>2. result' = before[p + i] - before[q + i]
        BY <2>1, <3>1
      <4> QED BY <1>2, <1>3, <3>1, <4>1, <4>2, FirstDifference
    <3>2. CASE ~(i < n)
      <4>1. i = n
        BY <1>2, <1>3, <3>2
      <4>2. Bytes(p, n) = Bytes(q, n)
        BY <1>2, <1>3, <4>1, SameBytes
      <4> QED BY <2>1, <3>2, <4>2 DEF Compares
    <3> QED BY <3>1, <3>2
  <2>3. HelpersRight'
    <3>1. Bytes(call.p, call.n)' = Bytes(p, n) /\ Bytes(call.q, call.n)' = Bytes(q, n)
      BY <1>1 DEF Bytes, p, q, n
    <3> QED BY <1>1, <2>1, <2>2, <3>1 DEF HelpersRight
  <2>4. Types'
    BY <1>1, <2>1 DEF Types
  <2> QED BY <1>1, <2>1, <2>3, <2>4
          DEF HelperInv, ReadOnly, MemsetLoop, MemmoveLoop, MemcmpLoop, StrlenLoop, StrcmpLoop, StrncpyLoop
<1> QED BY <1>4, <1>5

-----------------------------------------------------------------------------
(* string.c *)

\* A set of numbers has a least one.
LEMMA LeastNumber == ASSUME NEW S \in SUBSET Nat, S # {} PROVE \E x \in S : \A y \in S : x <= y
<1> DEFINE R == OpToRel(<, Nat)
<1>1. IsWellFoundedOn(R, Nat)
  BY NatLessThanWellFounded
<1>2. \A x, y \in Nat : <<y, x>> \in R <=> y < x
  BY DEF OpToRel
<1> HIDE DEF R
<1>3. \E x \in S : \A y \in S : ~ (<<y, x>> \in R)
  BY <1>1, WFMin
<1>4. PICK x \in S : \A y \in S : ~ (<<y, x>> \in R)
  BY <1>3
<1>5. \A y \in S : ~(y < x)
  BY <1>2, <1>4
<1>6. \A y \in S : x <= y
  BY <1>5
<1> QED BY <1>6

LEMMA MinIs ==
  ASSUME NEW S \in SUBSET Nat, NEW x \in S, \A y \in S : x <= y
  PROVE  Min(S) = x
<1>1. Min(S) \in S /\ \A y \in S : Min(S) <= y
  BY DEF Min
<1>2. Min(S) \in Nat /\ x \in Nat /\ Min(S) <= x /\ x <= Min(S)
  BY <1>1
<1> QED BY <1>2

\* The length of a string.
LEMMA LengthFacts ==
  ASSUME NEW p \in Nat, Ended(before, p)
  PROVE  /\ LengthOf(p) \in Nat /\ p + LengthOf(p) \in Addresses
         /\ before[p + LengthOf(p)] = NUL
         /\ \A k \in 0 .. LengthOf(p) - 1 : before[p + k] # NUL
<1> DEFINE S == {k \in 0 .. MEMORY_SIZE - 1 - p : before[p + k] = NUL}
<1>1. MEMORY_SIZE \in Nat
  BY MemoryAssumption
<1>2. S # {}
  <2>1. PICK a \in Addresses : a >= p /\ before[a] = NUL
    BY DEF Ended
  <2>2. a - p \in 0 .. MEMORY_SIZE - 1 - p /\ p + (a - p) = a
    BY <1>1, <2>1 DEF Addresses
  <2> QED BY <2>1, <2>2
<1>3. S \in SUBSET Nat
  BY <1>1
<1> HIDE DEF S
<1>4. PICK x \in S : \A y \in S : x <= y
  BY <1>2, <1>3, LeastNumber
<1>5. LengthOf(p) = x
  BY <1>3, <1>4, MinIs DEF LengthOf, S
<1>6. x \in 0 .. MEMORY_SIZE - 1 - p /\ before[p + x] = NUL
  BY <1>4 DEF S
<1>7. \A k \in 0 .. x - 1 : before[p + k] # NUL
  <2> SUFFICES ASSUME NEW k \in 0 .. x - 1, before[p + k] = NUL PROVE FALSE
    OBVIOUS
  <2>1. k \in 0 .. MEMORY_SIZE - 1 - p /\ k < x
    BY <1>1, <1>6
  <2>2. k \in S
    BY <2>1 DEF S
  <2> QED BY <1>4, <1>6, <2>1, <2>2
<1> QED BY <1>1, <1>5, <1>6, <1>7 DEF Addresses

\* Where a string ends, its length does.
LEMMA LengthIs ==
  ASSUME NEW p \in Nat, Ended(before, p), NEW l \in Nat, before[p + l] = NUL,
         \A k \in 0 .. l - 1 : before[p + k] # NUL
  PROVE  LengthOf(p) = l
<1>1. /\ LengthOf(p) \in Nat /\ before[p + LengthOf(p)] = NUL
      /\ \A k \in 0 .. LengthOf(p) - 1 : before[p + k] # NUL
  BY LengthFacts
<1>2. ~(l < LengthOf(p))
  <2>1. l < LengthOf(p) => l \in 0 .. LengthOf(p) - 1
    BY <1>1
  <2> QED BY <1>1, <2>1
<1>3. ~(LengthOf(p) < l)
  <2>1. LengthOf(p) < l => LengthOf(p) \in 0 .. l - 1
    BY <1>1
  <2> QED BY <1>1, <2>1
<1> QED BY <1>1, <1>2, <1>3

\* What comes before the end of a string is in the memory.
LEMMA InString ==
  ASSUME NEW p \in Nat, Ended(before, p), NEW k \in Nat,
         \A j \in 0 .. k - 1 : before[p + j] # NUL
  PROVE  k <= LengthOf(p) /\ p + k \in Addresses
<1>1. /\ LengthOf(p) \in Nat /\ before[p + LengthOf(p)] = NUL /\ p + LengthOf(p) \in Addresses
  BY LengthFacts
<1>2. ~(LengthOf(p) < k)
  <2>1. LengthOf(p) < k => LengthOf(p) \in 0 .. k - 1
    BY <1>1
  <2> QED BY <1>1, <2>1
<1>3. k <= LengthOf(p)
  BY <1>1, <1>2
<1>4. p + k \in Addresses
  <2>1. MEMORY_SIZE \in Nat
    BY MemoryAssumption
  <2> HIDE DEF LengthOf
  <2> QED BY <1>1, <1>3, <2>1 DEF Addresses
<1> QED BY <1>3, <1>4

LEMMA StrlenInv == ASSUME HelperInv, Strlen PROVE HelperInv'
<1> DEFINE p == call.p
<1>1. /\ call.function = "strlen" /\ part = 1 /\ call' = call /\ before' = before
      /\ Types /\ StrlenLoop /\ memory = before /\ memory' = memory
  BY DEF Strlen, Turn, Step, Leave, HelperInv, ReadOnly
<1>2. p \in Nat /\ Ended(before, p)
  BY <1>1, CallFacts DEF Legal
<1>3. i \in Nat /\ \A k \in 0 .. i - 1 : before[p + k] # NUL
  BY <1>1 DEF StrlenLoop, Types
<1> HIDE DEF p
<1>4. CASE before[p + i] # NUL
  <2>1. i' = i + 1 /\ part' = 1
    BY <1>1, <1>4 DEF Strlen, Step, p
  <2>2. \A k \in 0 .. (i + 1) - 1 : before[p + k] # NUL
    BY <1>3, <1>4
  <2>3. StrlenLoop' /\ Types' /\ HelpersRight'
    BY <1>1, <1>3, <2>1, <2>2 DEF StrlenLoop, Types, HelpersRight, p
  <2> QED BY <1>1, <2>3
          DEF HelperInv, ReadOnly, MemsetLoop, MemmoveLoop, MemcmpLoop, StrcmpLoop, StrncpyLoop
<1>5. CASE before[p + i] = NUL
  <2>1. part' = 0 /\ i' = 0 /\ result' = i
    BY <1>1, <1>5 DEF Strlen, Leave, p
  <2>2. LengthOf(p) = i
    BY <1>2, <1>3, <1>5, LengthIs
  <2>3. LengthOf(p)' = LengthOf(p) /\ p' = p
    BY <1>1 DEF LengthOf, p
  <2>4. HelpersRight'
    BY <1>1, <2>1, <2>2, <2>3 DEF HelpersRight, p
  <2>5. Types'
    BY <1>1, <2>1 DEF Types
  <2> QED BY <1>1, <2>1, <2>4, <2>5
          DEF HelperInv, ReadOnly, MemsetLoop, MemmoveLoop, MemcmpLoop, StrlenLoop, StrcmpLoop, StrncpyLoop
<1> QED BY <1>4, <1>5

\* What a small number becomes in an unsigned type.
LEMMA Wraps ==
  ASSUME NEW u \in Nat, NEW v \in Int, -u < v, v < u
  PROVE  v % u = IF v < 0 THEN v + u ELSE v
<1>1. \A w \in Int : 0 <= w /\ w < u => w % u = w
  BY SMT
<1>2. \A w \in Int : 0 < w + u /\ w < 0 => w % u = w + u
  BY SMT
<1> QED BY <1>1, <1>2

\* The difference of two bytes comes back from a uint32_t.
LEMMA SignedDifference ==
  ASSUME NEW x \in Byte, NEW y \in Byte
  PROVE  Signed((x - y) % UINT_RANGE) = x - y
<1> DEFINE v == x - y
           u == UINT_RANGE
<1>1. u \in Nat /\ 512 <= u /\ v \in Int /\ -256 < v /\ v < 256
  BY MemoryAssumption DEF Byte
<1> HIDE DEF v, u
<1>2. -u < v /\ v < u
  BY <1>1
<1>3. v % u = IF v < 0 THEN v + u ELSE v
  BY <1>1, <1>2, Wraps
<1>4. Signed(v % u) = v
  BY <1>1, <1>3 DEF Signed, u
<1> QED BY <1>4 DEF v, u

LEMMA StrcmpInv == ASSUME HelperInv, Strcmp PROVE HelperInv'
<1> DEFINE p == call.p
           q == call.q
<1>1. /\ call.function = "strcmp" /\ part = 1 /\ call' = call /\ before' = before
      /\ Types /\ StrcmpLoop /\ memory = before /\ memory' = memory
  BY DEF Strcmp, Turn, Step, Leave, HelperInv, ReadOnly
<1>2. /\ p \in Nat /\ q \in Nat /\ Ended(before, p) /\ Ended(before, q)
      /\ before \in [Addresses -> Byte]
  BY <1>1, CallFacts DEF Legal
<1>3. /\ i \in Nat
      /\ \A k \in 0 .. i - 1 : before[p + k] # NUL
      /\ \A k \in 0 .. i - 1 : before[q + k] # NUL
      /\ \A k \in 0 .. i - 1 : before[p + k] = before[q + k]
  BY <1>1 DEF StrcmpLoop, Types
<1> HIDE DEF p, q
<1>4. CASE before[p + i] # NUL /\ before[p + i] = before[q + i]
  <2>1. i' = i + 1 /\ part' = 1
    BY <1>1, <1>4 DEF Strcmp, Step, p, q
  <2>2. \A k \in 0 .. (i + 1) - 1 : before[p + k] # NUL /\ before[p + k] = before[q + k]
    BY <1>3, <1>4
  <2>3. StrcmpLoop' /\ Types' /\ HelpersRight'
    BY <1>1, <1>3, <2>1, <2>2 DEF StrcmpLoop, Types, HelpersRight, p, q
  <2> QED BY <1>1, <2>3
          DEF HelperInv, ReadOnly, MemsetLoop, MemmoveLoop, MemcmpLoop, StrlenLoop, StrncpyLoop
<1>5. CASE ~(before[p + i] # NUL /\ before[p + i] = before[q + i])
  <2>1. /\ part' = 0 /\ i' = 0
        /\ result' = (before[p + i] - before[q + i]) % UINT_RANGE
    BY <1>1, <1>5 DEF Strcmp, Leave, p, q
  <2>2. before[p + i] \in Byte /\ before[q + i] \in Byte
    <3>1. p + i \in Addresses /\ q + i \in Addresses
      BY <1>2, <1>3, InString
    <3> QED BY <1>2, <3>1
  <2>3. Signed(result') = before[p + i] - before[q + i]
    BY <2>1, <2>2, SignedDifference
  <2>4. Compares(Signed(result'), StringAt(p), StringAt(q))
    <3>1. CASE before[p + i] = before[q + i]
      <4>1. before[p + i] = NUL /\ before[q + i] = NUL
        BY <1>5, <3>1
      <4>2. LengthOf(p) = i /\ LengthOf(q) = i
        BY <1>2, <1>3, <4>1, LengthIs
      <4>3. \A k \in 0 .. (i + 1) - 1 : before[p + k] = before[q + k]
        BY <1>3, <3>1
      <4>4. StringAt(p) = StringAt(q)
        <5>1. i + 1 \in Nat
          BY <1>3
        <5>2. Bytes(p, i + 1) = Bytes(q, i + 1)
          BY <1>2, <4>3, <5>1, SameBytes
        <5> QED BY <4>2, <5>2 DEF StringAt
      <4>5. Signed(result') = 0
        BY <2>2, <2>3, <3>1 DEF Byte
      <4> QED BY <4>4, <4>5 DEF Compares
    <3>2. CASE before[p + i] # before[q + i]
      <4>1. /\ LengthOf(p) \in Nat /\ LengthOf(q) \in Nat
            /\ i <= LengthOf(p) /\ i <= LengthOf(q)
        BY <1>2, <1>3, LengthFacts, InString
      <4>2. /\ LengthOf(p) + 1 \in Nat /\ LengthOf(q) + 1 \in Nat
            /\ i < LengthOf(p) + 1 /\ i < LengthOf(q) + 1
        BY <1>3, <4>1
      <4>3. /\ Compares(before[p + i] - before[q + i],
                        Bytes(p, LengthOf(p) + 1), Bytes(q, LengthOf(q) + 1))
        BY <1>2, <1>3, <2>2, <3>2, <4>2, FirstDifference
      <4> QED BY <2>3, <4>3 DEF StringAt
    <3> QED BY <3>1, <3>2
  <2>6. HelpersRight'
    <3>1. StringAt(call.p)' = StringAt(p) /\ StringAt(call.q)' = StringAt(q)
      BY <1>1 DEF StringAt, Bytes, LengthOf, p, q
    <3>2. Signed(result)' = Signed(result')
      OBVIOUS
    <3> QED BY <1>1, <2>1, <2>4, <3>1, <3>2 DEF HelpersRight
  <2>5. Types'
    BY <1>1, <2>1 DEF Types
  <2> QED BY <1>1, <2>1, <2>5, <2>6
          DEF HelperInv, ReadOnly, MemsetLoop, MemmoveLoop, MemcmpLoop, StrlenLoop, StrcmpLoop, StrncpyLoop
<1> QED BY <1>4, <1>5

\* strncpy() does not write what it has still to read.
LEMMA SourceKept ==
  ASSUME Types, StrncpyLoop, call.function = "strncpy", part = 1, i < call.n
  PROVE  /\ call.q + i \in Addresses /\ call.p + i \in Addresses
         /\ memory[call.q + i] = before[call.q + i]
<1> DEFINE p == call.p
           q == call.q
           n == call.n
<1>1. /\ p \in Nat /\ n \in Nat /\ q \in Nat /\ before \in [Addresses -> Byte]
      /\ Span(p, n) \subseteq Addresses
      /\ \E length \in 0 .. n :
             /\ length < n => before[q + length] = NUL
             /\ \A k \in 0 .. length : k < n => q + k \in Addresses \ Span(p, n)
  BY CallFacts DEF Legal
<1>2. /\ i \in Nat /\ i < n
      /\ \A a \in Addresses :
           memory[a] = IF a \in Span(p, i) THEN CopiedByte(a) ELSE before[a]
      /\ \A k \in 0 .. i - 1 : before[q + k] # NUL
  BY DEF StrncpyLoop, Types
<1> HIDE DEF p, q, n
<1>3. PICK length \in 0 .. n :
        /\ length < n => before[q + length] = NUL
        /\ \A k \in 0 .. length : k < n => q + k \in Addresses \ Span(p, n)
  BY <1>1
<1>4. i <= length
  <2>1. length < i => length \in 0 .. i - 1 /\ length < n
    BY <1>1, <1>2
  <2> QED BY <1>1, <1>2, <1>3, <2>1
<1>5. q + i \in Addresses /\ q + i \notin Span(p, n)
  BY <1>2, <1>3, <1>4
<1>6. q + i \notin Span(p, i)
  BY <1>1, <1>2, <1>5 DEF Span
<1>7. p + i \in Addresses
  BY <1>1, <1>2, SpanInside
<1> QED BY <1>2, <1>5, <1>6, <1>7 DEF p, q

\* One more byte of strncpy() is right.
LEMMA OneMoreCopied ==
  ASSUME Types, StrncpyLoop, call.function = "strncpy", part \in {1, 2}, i < call.n,
         NEW b \in Byte, Set(call.p + i, b), b = CopiedByte(call.p + i)
  PROVE  /\ memory' \in [Addresses -> Byte] /\ i + 1 \in Nat /\ i + 1 <= call.n
         /\ \A a \in Addresses :
              memory'[a] = IF a \in Span(call.p, i + 1) THEN CopiedByte(a) ELSE before[a]
<1> DEFINE p == call.p
           n == call.n
<1>1. p \in Nat /\ n \in Nat /\ Span(p, n) \subseteq Addresses
  BY CallFacts DEF Legal
<1>2. /\ i \in Nat /\ i < n /\ memory \in [Addresses -> Byte]
      /\ \A a \in Addresses : memory[a] = IF a \in Span(p, i) THEN CopiedByte(a) ELSE before[a]
  BY DEF StrncpyLoop, Types
<1>3. Set(p + i, b) /\ b = CopiedByte(p + i)
  OBVIOUS
<1> HIDE DEF p, n
<1>4. p + i \in Addresses
  BY <1>1, <1>2, SpanInside
<1>5. /\ memory' \in [Addresses -> Byte]
      /\ \A a \in Addresses : memory'[a] = IF a = p + i THEN b ELSE memory[a]
  BY <1>2, <1>3, <1>4, SetFacts
<1>6. \A a \in Addresses : a \in Span(p, i + 1) <=> a = p + i \/ a \in Span(p, i)
  BY <1>1, <1>2, SpanMore DEF Addresses
<1>7. \A a \in Addresses :
        memory'[a] = IF a \in Span(p, i + 1) THEN CopiedByte(a) ELSE before[a]
  BY <1>2, <1>3, <1>5, <1>6
<1> QED BY <1>1, <1>2, <1>5, <1>7 DEF p, n

LEMMA StrncpyCopyInv == ASSUME HelperInv, StrncpyCopy PROVE HelperInv'
<1> DEFINE p == call.p
           q == call.q
           n == call.n
<1>1. /\ call.function = "strncpy" /\ part = 1 /\ call' = call /\ before' = before
      /\ Types /\ StrncpyLoop
  BY DEF StrncpyCopy, Turn, Step, HelperInv
<1>2. p \in Nat /\ n \in Nat /\ q \in Nat /\ before \in [Addresses -> Byte]
  BY <1>1, CallFacts
<1>3. i \in Nat /\ i <= n /\ \A k \in 0 .. i - 1 : before[q + k] # NUL
  BY <1>1 DEF StrncpyLoop, Types
<1>4. i < n => q + i \in Addresses /\ memory[q + i] = before[q + i]
  BY <1>1, SourceKept
<1>5. CASE i < n /\ before[q + i] # NUL
  <2>1. Set(p + i, before[q + i]) /\ i' = i + 1 /\ part' = 1
    BY <1>1, <1>4, <1>5 DEF StrncpyCopy, Step
  <2>2. \A k \in 0 .. i : before[q + k] # NUL
    BY <1>3, <1>5
  <2>3. before[q + i] = CopiedByte(p + i) /\ before[q + i] \in Byte
    <3>1. (p + i) - p = i /\ (p + i) - p + q = q + i
      BY <1>2, <1>3
    <3> QED BY <1>2, <1>4, <1>5, <2>2, <3>1 DEF CopiedByte, EndedBy
  <2>4. /\ memory' \in [Addresses -> Byte] /\ i + 1 \in Nat /\ i + 1 <= n
        /\ \A a \in Addresses :
             memory'[a] = IF a \in Span(p, i + 1) THEN CopiedByte(a) ELSE before[a]
    BY <1>1, <1>5, <2>1, <2>3, OneMoreCopied
  <2>5. \A a : CopiedByte(a)' = CopiedByte(a)
    BY <1>1 DEF CopiedByte, EndedBy
  <2>6. (i + 1) - 1 = i
    BY <1>3
  <2>7. StrncpyLoop'
    BY <1>1, <2>1, <2>2, <2>4, <2>5, <2>6 DEF StrncpyLoop
  <2>8. Types' /\ HelpersRight'
    BY <1>1, <2>1, <2>4 DEF Types, HelpersRight
  <2> QED BY <1>1, <2>7, <2>8
          DEF HelperInv, ReadOnly, MemsetLoop, MemmoveLoop, MemcmpLoop, StrlenLoop, StrcmpLoop
<1>6. CASE ~(i < n /\ before[q + i] # NUL)
  <2>1. part' = 2 /\ i' = i /\ memory' = memory
    BY <1>1, <1>4, <1>6 DEF StrncpyCopy
  <2>2. i < n => EndedBy(i)
    BY <1>3, <1>6 DEF EndedBy
  <2>3. \A a : CopiedByte(a)' = CopiedByte(a) /\ EndedBy(a)' = EndedBy(a)
    BY <1>1 DEF CopiedByte, EndedBy
  <2>4. StrncpyLoop'
    BY <1>1, <2>1, <2>2, <2>3 DEF StrncpyLoop
  <2>5. Types' /\ HelpersRight'
    BY <1>1, <2>1 DEF Types, HelpersRight
  <2> QED BY <1>1, <2>4, <2>5
          DEF HelperInv, ReadOnly, MemsetLoop, MemmoveLoop, MemcmpLoop, StrlenLoop, StrcmpLoop
<1> QED BY <1>5, <1>6

LEMMA StrncpyPadInv == ASSUME HelperInv, StrncpyPad PROVE HelperInv'
<1> DEFINE p == call.p
           n == call.n
<1>1. /\ call.function = "strncpy" /\ part = 2 /\ call' = call /\ before' = before
      /\ Types /\ StrncpyLoop
  BY DEF StrncpyPad, Turn, Step, Leave, HelperInv
<1>2. p \in Nat /\ n \in Nat /\ before \in [Addresses -> Byte]
  BY <1>1, CallFacts
<1>3. /\ i \in Nat /\ i <= n /\ (i < n => EndedBy(i)) /\ memory \in [Addresses -> Byte]
      /\ \A a \in Addresses : memory[a] = IF a \in Span(p, i) THEN CopiedByte(a) ELSE before[a]
  BY <1>1 DEF StrncpyLoop, Types
<1>4. \A a : CopiedByte(a)' = CopiedByte(a) /\ EndedBy(a)' = EndedBy(a)
  BY <1>1 DEF CopiedByte, EndedBy
<1>5. CASE i < n
  <2>1. Set(p + i, NUL) /\ i' = i + 1 /\ part' = 2
    BY <1>1, <1>5 DEF StrncpyPad, Step
  <2>2. NUL = CopiedByte(p + i) /\ NUL \in Byte
    <3>1. (p + i) - p = i
      BY <1>2, <1>3
    <3> QED BY <1>3, <1>5, <3>1 DEF CopiedByte, NUL, Byte
  <2>3. /\ memory' \in [Addresses -> Byte] /\ i + 1 \in Nat /\ i + 1 <= n
        /\ \A a \in Addresses :
             memory'[a] = IF a \in Span(p, i + 1) THEN CopiedByte(a) ELSE before[a]
    BY <1>1, <1>5, <2>1, <2>2, OneMoreCopied
  <2>4. EndedBy(i + 1)
    BY <1>3, <1>5 DEF EndedBy
  <2>5. StrncpyLoop'
    BY <1>1, <1>4, <2>1, <2>3, <2>4 DEF StrncpyLoop
  <2>6. Types' /\ HelpersRight'
    BY <1>1, <2>1, <2>3 DEF Types, HelpersRight
  <2> QED BY <1>1, <2>5, <2>6
          DEF HelperInv, ReadOnly, MemsetLoop, MemmoveLoop, MemcmpLoop, StrlenLoop, StrcmpLoop
<1>6. CASE ~(i < n)
  <2>1. part' = 0 /\ i' = 0 /\ memory' = memory /\ i = n /\ result' = call.p
    BY <1>1, <1>2, <1>3, <1>6 DEF StrncpyPad, Leave
  <2>2. memory' = [a \in DOMAIN before |->
                      IF a \notin Target THEN before[a]
                      ELSE IF \E k \in 0 .. a - call.p : before[call.q + k] = NUL THEN NUL
                      ELSE before[a - call.p + call.q]]
    BY <1>2, <1>3, <2>1 DEF Target, CopiedByte, EndedBy
  <2>3. HelpersRight'
    BY <1>1, <2>1, <2>2 DEF HelpersRight, Target
  <2>4. Types'
    BY <1>1, <2>1 DEF Types
  <2> QED BY <1>1, <2>1, <2>3, <2>4
          DEF HelperInv, ReadOnly, MemsetLoop, MemmoveLoop, MemcmpLoop, StrlenLoop, StrcmpLoop, StrncpyLoop
<1> QED BY <1>5, <1>6

-----------------------------------------------------------------------------
(* stack.c and multiboot.c *)

\* A length that is a number of words ends with one.
LEMMA Multiples ==
  ASSUME NEW w \in Nat, w # 0, NEW m \in Nat, m % w = 0, NEW k \in Nat
  PROVE  /\ w * k \in Nat /\ w * (k + 1) = w * k + w
         /\ w * k < m => w * k + w <= m
<1>1. PICK d \in Nat : m = w * d
  <2>1. w \in Int /\ w > 0 /\ m \in Int
    OBVIOUS
  <2>2. m \div w \in Nat
    BY <2>1
  <2>3. m = w * (m \div w)
    BY <2>1
  <2> QED BY <2>2, <2>3
<1>2. w * k \in Nat /\ w * (k + 1) = w * k + w
  OBVIOUS
<1>3. ASSUME w * k < m PROVE w * k + w <= m
  <2>1. k < d
    <3> SUFFICES ASSUME k >= d PROVE FALSE
      OBVIOUS
    <3>1. PICK e \in Nat : k = d + e
      <4>1. k - d \in Nat /\ k = d + (k - d)
        OBVIOUS
      <4> QED BY <4>1
    <3>2. w * k = w * d + w * e /\ w * e \in Nat /\ w * d \in Nat
      BY <3>1
    <3> QED BY <1>1, <1>3, <3>2
  <2>2. PICK e \in Nat : d = (k + 1) + e
    <3>1. d - (k + 1) \in Nat /\ d = (k + 1) + (d - (k + 1))
      BY <2>1
    <3> QED BY <3>1
  <2>3. w * d = w * (k + 1) + w * e /\ w * e \in Nat /\ w * (k + 1) \in Nat
    BY <2>2
  <2> QED BY <1>1, <1>2, <2>3
<1> QED BY <1>2, <1>3

\* The lesser of two numbers.
LEMMA MinOfTwo ==
  ASSUME NEW a \in Nat, NEW b \in Nat
  PROVE  Min({a, b}) = IF a <= b THEN a ELSE b
<1>1. {a, b} \in SUBSET Nat
  OBVIOUS
<1>2. CASE a <= b
  BY <1>1, <1>2, MinIs
<1>3. CASE ~(a <= b)
  <2>1. b \in {a, b} /\ \A y \in {a, b} : b <= y
    BY <1>3
  <2> QED BY <1>1, <1>3, <2>1, MinIs
<1> QED BY <1>2, <1>3

LEMMA Sizes ==
  /\ MEMORY_SIZE \in Nat /\ STACK_BASE \in Nat /\ STACK_BASE < MEMORY_SIZE
  /\ STACK_DUMP_BYTES \in Nat /\ ROW \in Nat /\ ROW # 0 /\ WORD \in Nat /\ WORD # 0
  /\ STACK_DUMP_BYTES % ROW = 0 /\ ENTRY_SIZE \in Nat /\ ENTRY_SIZE # 0
BY MemoryAssumption

\* A step that only reads is nothing to the helpers.
LEMMA OnlyReads ==
  ASSUME HelperInv, call.function \in {"stack_dump", "print_multiboot_info"},
         UNCHANGED <<call, before, memory>>, i' \in Nat
  PROVE  HelperInv'
<1>1. memory = before
  BY DEF HelperInv, ReadOnly
<1>2. Types' /\ HelpersRight'
  BY <1>1 DEF HelperInv, Types, HelpersRight
<1> QED BY <1>2 DEF HelperInv, ReadOnly, MemsetLoop, MemmoveLoop, MemcmpLoop, StrlenLoop, StrcmpLoop, StrncpyLoop

\* A string of the dump stays one.
LEMMA QuotedStays == ASSUME before' = before PROVE \A s : Quoted(s)' <=> Quoted(s)
BY DEF Quoted, LengthOf, StringAt, Bytes

\* What stack_dump() needs of its caller.
LEMMA StackFacts ==
  ASSUME Types, call.function = "stack_dump"
  PROVE  /\ esp \in Nat /\ esp <= STACK_BASE /\ (STACK_BASE - esp) % WORD = 0
         /\ STACK_BASE - esp \in Nat
         /\ before \in [Addresses -> Byte] /\ i \in Nat
BY CallFacts, Sizes DEF Legal, esp, Types

\* A word of the stack is in the stack.
LEMMA WordInStack ==
  ASSUME Types, call.function = "stack_dump", esp + WORD * i < STACK_BASE
  PROVE  WordAt(esp + WORD * i) \subseteq esp .. STACK_BASE
<1>1. /\ esp \in Nat /\ esp <= STACK_BASE /\ (STACK_BASE - esp) % WORD = 0 /\ STACK_BASE - esp \in Nat
      /\ i \in Nat /\ WORD \in Nat /\ WORD # 0 /\ STACK_BASE \in Nat
  BY StackFacts, Sizes
<1> DEFINE m == STACK_BASE - esp
           o == WORD * i
<1>2. o \in Nat /\ (o < m => o + WORD <= m)
  BY <1>1, Multiples
<1>3. esp + o < STACK_BASE
  OBVIOUS
<1> HIDE DEF o
<1>4. esp + o + WORD <= STACK_BASE
  BY <1>1, <1>2, <1>3
<1>5. WordAt(esp + o) \subseteq esp .. STACK_BASE
  BY <1>1, <1>2, <1>4 DEF WordAt
<1> QED BY <1>5 DEF o

LEMMA PrintReturnAddressesInv ==
  ASSUME HelperInv, DumpInv, PrintReturnAddresses PROVE HelperInv' /\ DumpInv'
<1>1. call.function = "stack_dump" /\ part = 1 /\ Types
  BY DEF PrintReturnAddresses, Turn, HelperInv
<1>2. UNCHANGED <<call, before, memory, shown, quoted>>
  BY DEF PrintReturnAddresses, Read, Step, Leave, Unshown
<1>3. /\ reads \subseteq esp .. STACK_BASE /\ Len(shown) = 0
      /\ shown = [k \in 1 .. Len(shown) |-> esp + k - 1]
      /\ \A s \in quoted : Quoted(s)
  BY <1>1 DEF DumpInv
<1>4. \A s \in quoted' : Quoted(s)'
  BY <1>2, <1>3, QuotedStays
<1>5. esp' = esp
  BY <1>2 DEF esp
<1> DEFINE ptr == esp + WORD * i
<1>6. CASE ptr < STACK_BASE /\ ptr < esp + STACK_RETURN_SEARCH
  <2>1. reads' = reads \cup WordAt(ptr) /\ i' = i + 1 /\ part' = 1
    BY <1>1, <1>6 DEF PrintReturnAddresses, Read, Step
  <2>2. reads' \subseteq esp .. STACK_BASE
    BY <1>1, <1>3, <1>6, <2>1, WordInStack
  <2>3. i' \in Nat
    BY <1>1, <2>1 DEF Types
  <2>4. HelperInv'
    BY <1>1, <1>2, <2>3, OnlyReads
  <2>5. DumpInv'
    BY <1>2, <1>3, <1>4, <1>5, <2>1, <2>2 DEF DumpInv
  <2> QED BY <2>4, <2>5
<1>7. CASE ~(ptr < STACK_BASE /\ ptr < esp + STACK_RETURN_SEARCH)
  <2>1. reads' = reads /\ i' = 0 /\ part' = 2
    BY <1>1, <1>7 DEF PrintReturnAddresses, Leave, Unshown
  <2>2. HelperInv'
    BY <1>1, <1>2, <2>1, OnlyReads
  <2>3. ROW * 0 = 0 /\ 0 <= STACK_DUMP_BYTES /\ 0 <= STACK_BASE - esp
    BY <1>1, Sizes, StackFacts
  <2>4. DumpInv'
    BY <1>2, <1>3, <1>4, <1>5, <2>1, <2>3 DEF DumpInv
  <2> QED BY <2>2, <2>4
<1> QED BY <1>6, <1>7

LEMMA PrintWordsInv ==
  ASSUME HelperInv, DumpInv, PrintWords PROVE HelperInv' /\ DumpInv'
<1> DEFINE word == esp + WORD * i
<1>1. call.function = "stack_dump" /\ part = 3 /\ Types
  BY DEF PrintWords, Turn, HelperInv
<1>2. UNCHANGED <<call, before, memory, shown, quoted>>
  BY DEF PrintWords, Read, Step, Leave, Unshown
<1>3. /\ reads \subseteq esp .. STACK_BASE
      /\ Len(shown) = Min({STACK_DUMP_BYTES, STACK_BASE - esp}) /\ Len(shown) \in Nat
      /\ shown = [k \in 1 .. Len(shown) |-> esp + k - 1]
      /\ \A s \in quoted : Quoted(s)
  BY <1>1 DEF DumpInv
<1>4. \/ word < STACK_BASE /\ reads' = reads \cup WordAt(word) /\ i' = i + 1 /\ part' = 3
      \/ reads' = reads /\ i' = 0 /\ part' = 0
  BY <1>1 DEF PrintWords, Read, Step, Leave, Unshown
<1>5. esp' = esp
  BY <1>2 DEF esp
<1>6. reads' \subseteq esp' .. STACK_BASE
  BY <1>1, <1>3, <1>4, <1>5, WordInStack
<1>7. shown' = [k \in 1 .. Len(shown') |-> esp' + k - 1]
  BY <1>2, <1>3, <1>5
<1>8. Len(shown') = Min({STACK_DUMP_BYTES, STACK_BASE - esp'}) /\ Len(shown') \in Nat
  BY <1>2, <1>3, <1>5
<1>9. part' \notin {1, 2} /\ i' \in Nat
  BY <1>1, <1>4 DEF Types
<1>10. \A s \in quoted' : Quoted(s)'
  BY <1>2, <1>3, QuotedStays
<1>11. DumpInv'
  BY <1>6, <1>7, <1>8, <1>9, <1>10 DEF DumpInv
<1>12. HelperInv'
  BY <1>1, <1>2, <1>9, OnlyReads
<1> QED BY <1>11, <1>12

\* A row ends with the stack, and the printable bytes with the row.
LEMMA RowFacts ==
  ASSUME Types, call.function = "stack_dump",
         NEW address \in Nat, address < STACK_BASE
  PROVE  /\ RowLength(address) \in Nat
         /\ RowLength(address) = IF ROW <= STACK_BASE - address THEN ROW ELSE STACK_BASE - address
         /\ PrintableRun(address) \in 0 .. RowLength(address)
         /\ \A k \in 0 .. PrintableRun(address) - 1 : isprint(memory[address + k])
<1> DEFINE r == RowLength(address)
           S == {k \in 0 .. r : k = r \/ ~isprint(memory[address + k])}
<1>1. STACK_BASE - address \in Nat /\ ROW \in Nat
  BY Sizes
<1>2. r \in Nat /\ r = IF ROW <= STACK_BASE - address THEN ROW ELSE STACK_BASE - address
  BY <1>1, MinOfTwo DEF RowLength
<1> HIDE DEF r
<1>3. S \in SUBSET Nat /\ r \in S
  BY <1>2
<1> HIDE DEF S
<1>4. PICK x \in S : \A y \in S : x <= y
  BY <1>3, LeastNumber
<1>5. PrintableRun(address) = x
  BY <1>3, <1>4, MinIs DEF PrintableRun, S, r
<1>6. x \in 0 .. r
  BY <1>4 DEF S
<1>7. \A k \in 0 .. x - 1 : isprint(memory[address + k])
  <2> SUFFICES ASSUME NEW k \in 0 .. x - 1, ~isprint(memory[address + k]) PROVE FALSE
    OBVIOUS
  <2>1. k \in 0 .. r /\ k < x
    BY <1>2, <1>6
  <2>2. k \in S
    BY <2>1 DEF S
  <2> QED BY <1>2, <1>4, <1>6, <2>1, <2>2
<1> QED BY <1>2, <1>5, <1>6, <1>7 DEF r

\* What the dump quotes is a string: its length is the one to its NUL, and it is printable.
LEMMA QuotedIsString ==
  ASSUME Types, memory = before,
         NEW address \in Nat, NEW length \in Nat, address + length \in Addresses,
         \A k \in 0 .. length - 1 : isprint(memory[address + k]),
         memory[address + length] = NUL
  PROVE  Quoted(<<address, length>>)
<1>1. \A k \in 0 .. length - 1 : before[address + k] # NUL
  BY DEF isprint, NUL
<1>2. Ended(before, address)
  <2>1. address + length >= address
    OBVIOUS
  <2> QED BY <2>1 DEF Ended
<1>3. LengthOf(address) = length
  BY <1>1, <1>2, LengthIs
<1>4. \A k \in 1 .. length : isprint(before[address + k - 1])
  <2> SUFFICES ASSUME NEW k \in 1 .. length PROVE isprint(before[address + k - 1])
    OBVIOUS
  <2>1. k - 1 \in 0 .. length - 1 /\ address + (k - 1) = address + k - 1
    OBVIOUS
  <2> QED BY <2>1
<1>5. \A k \in 1 .. length : StringAt(address)[k] = before[address + k - 1]
  <2>1. \A k \in 1 .. length : k \in 1 .. length + 1
    OBVIOUS
  <2> QED BY <1>3, <2>1 DEF StringAt, Bytes
<1> QED BY <1>3, <1>4, <1>5 DEF Quoted

\* The bytes shown go on where they stopped.
LEMMA ShownGoesOn ==
  ASSUME NEW e \in Nat, NEW l \in Nat, NEW r \in Nat, NEW s, s = [k \in 1 .. l |-> e + k - 1]
  PROVE  /\ s \o [k \in 1 .. r |-> e + l + k - 1] = [k \in 1 .. l + r |-> e + k - 1]
         /\ Len(s \o [k \in 1 .. r |-> e + l + k - 1]) = l + r
<1> DEFINE t == [k \in 1 .. r |-> e + l + k - 1]
<1>1. s \in Seq(Int) /\ Len(s) = l /\ t \in Seq(Int) /\ Len(t) = r
  OBVIOUS
<1>2. Len(s \o t) = l + r /\ DOMAIN (s \o t) = 1 .. l + r
  BY <1>1
<1>3. \A k \in 1 .. l + r : (s \o t)[k] = e + k - 1
  <2> SUFFICES ASSUME NEW k \in 1 .. l + r PROVE (s \o t)[k] = e + k - 1
    OBVIOUS
  <2>1. CASE k <= l
    <3>1. (s \o t)[k] = s[k] /\ k \in 1 .. l
      BY <1>1, <2>1
    <3> QED BY <3>1
  <2>2. CASE ~(k <= l)
    <3>1. (s \o t)[k] = t[k - l] /\ k - l \in 1 .. r
      BY <1>1, <2>2
    <3>2. e + l + (k - l) - 1 = e + k - 1
      OBVIOUS
    <3> QED BY <3>1, <3>2
  <2> QED BY <2>1, <2>2
<1>4. s \o t = [k \in 1 .. l + r |-> (s \o t)[k]]
  BY <1>1, <1>2
<1> QED BY <1>2, <1>3, <1>4

LEMMA PrintBytesInv ==
  ASSUME HelperInv, DumpInv, PrintBytes PROVE HelperInv' /\ DumpInv'
<1> DEFINE o       == ROW * i
           address == esp + o
           length  == PrintableRun(address)
           r       == RowLength(address)
           left    == STACK_BASE - esp
<1>1. /\ call.function = "stack_dump" /\ part = 2 /\ Types /\ memory = before
  BY DEF PrintBytes, Turn, HelperInv, ReadOnly
<1>2. UNCHANGED <<call, before, memory>> /\ esp' = esp
  BY DEF PrintBytes, Step, Leave, Unshown, esp
<1>3. /\ reads \subseteq esp .. STACK_BASE /\ o <= STACK_DUMP_BYTES
      /\ Len(shown) = IF o <= left THEN o ELSE left
      /\ shown = [k \in 1 .. Len(shown) |-> esp + k - 1]
      /\ \A s \in quoted : Quoted(s)
  BY <1>1 DEF DumpInv
<1>4. /\ esp \in Nat /\ esp <= STACK_BASE /\ STACK_BASE \in Nat /\ left \in Nat
      /\ i \in Nat /\ STACK_BASE < MEMORY_SIZE /\ MEMORY_SIZE \in Nat
      /\ STACK_DUMP_BYTES \in Nat /\ ROW \in Nat
  BY <1>1, StackFacts, Sizes
<1>5. /\ o \in Nat /\ ROW * (i + 1) = o + ROW
      /\ o < STACK_DUMP_BYTES => o + ROW <= STACK_DUMP_BYTES
  BY <1>4, Sizes, Multiples
<1>6. CASE o < STACK_DUMP_BYTES /\ address < STACK_BASE
  <2>1. /\ reads' = reads \cup (address .. address + r - 1
                        \cup IF length >= STACK_STRING_MIN_LEN THEN {address + length} ELSE {})
        /\ shown' = shown \o [k \in 1 .. r |-> address + k - 1]
        /\ quoted' = IF length >= STACK_STRING_MIN_LEN /\ memory[address + length] = NUL
                     THEN quoted \cup {<<address, length>>} ELSE quoted
        /\ i' = i + 1 /\ part' = 2
    BY <1>1, <1>6 DEF PrintBytes, Read, Step
  <2>2. address \in Nat /\ Len(shown) = o
    BY <1>3, <1>4, <1>5, <1>6
  <2>3. /\ r \in Nat /\ r = (IF ROW <= STACK_BASE - address THEN ROW ELSE STACK_BASE - address)
        /\ length \in 0 .. r
        /\ \A k \in 0 .. length - 1 : isprint(memory[address + k])
    BY <1>1, <1>6, <2>2, RowFacts
  <2> HIDE DEF o, length, r
  <2>4. Len(shown') = o + r /\ shown' = [k \in 1 .. o + r |-> esp + k - 1]
    <3>1. shown = [k \in 1 .. o |-> esp + k - 1]
      BY <1>3, <2>2
    <3>2. shown' = shown \o [k \in 1 .. r |-> esp + o + k - 1]
      BY <2>1
    <3> QED BY <1>4, <1>5, <2>3, <3>1, <3>2, ShownGoesOn
  <2>5. reads' \subseteq esp .. STACK_BASE
    <3>1. address + r <= STACK_BASE /\ address + length <= STACK_BASE
      BY <1>4, <1>5, <1>6, <2>3
    <3>2. address .. address + r - 1 \subseteq esp .. STACK_BASE
      BY <1>4, <1>5, <2>3, <3>1
    <3>3. address + length \in esp .. STACK_BASE
      BY <1>4, <1>5, <2>3, <3>1
    <3> QED BY <1>3, <2>1, <3>2, <3>3
  <2>6. \A s \in quoted' : Quoted(s)'
    <3>1. ASSUME memory[address + length] = NUL PROVE Quoted(<<address, length>>)
      <4>1. address + length \in Addresses /\ length \in Nat
        BY <1>4, <1>5, <1>6, <2>3 DEF Addresses
      <4> QED BY <1>1, <2>2, <2>3, <3>1, <4>1, QuotedIsString
    <3>2. \A s \in quoted' : Quoted(s)
      BY <1>3, <2>1, <3>1
    <3> QED BY <1>2, <3>2, QuotedStays
  <2>7. (ROW * i)' = o + ROW /\ o + ROW <= STACK_DUMP_BYTES
    BY <1>5, <1>6, <2>1
  <2>8. Len(shown') = IF o + ROW <= left THEN o + ROW ELSE left
    BY <1>4, <1>5, <1>6, <2>3, <2>4
  <2>9. shown' = [k \in 1 .. Len(shown') |-> esp' + k - 1] /\ Len(shown') \in Nat
    BY <1>2, <1>5, <2>3, <2>4
  <2>10. reads' \subseteq esp' .. STACK_BASE
    BY <1>2, <2>5
  <2>11. /\ part' = 2 /\ part' # 1 /\ (ROW * i)' <= STACK_DUMP_BYTES
         /\ Len(shown') = IF (ROW * i)' <= STACK_BASE - esp' THEN (ROW * i)' ELSE STACK_BASE - esp'
    <3>1. part' = 2
      BY <2>1
    <3>2. STACK_BASE - esp' = left
      BY <1>2
    <3> HIDE DEF left
    <3> QED BY <2>7, <2>8, <3>1, <3>2
  <2>12. DumpInv'
    BY <2>6, <2>9, <2>10, <2>11 DEF DumpInv
  <2>13. HelperInv'
    BY <1>1, <1>2, <1>4, <2>1, OnlyReads
  <2> QED BY <2>12, <2>13
<1>7. CASE ~(o < STACK_DUMP_BYTES /\ address < STACK_BASE)
  <2>1. UNCHANGED <<reads, shown, quoted>> /\ i' = 0 /\ part' = 3
    BY <1>1, <1>7 DEF PrintBytes, Leave, Unshown
  <2> HIDE DEF o
  <2>2. Len(shown) = IF STACK_DUMP_BYTES <= left THEN STACK_DUMP_BYTES ELSE left
    BY <1>3, <1>4, <1>5, <1>7
  <2>3. Len(shown') = Min({STACK_DUMP_BYTES, STACK_BASE - esp'}) /\ Len(shown') \in Nat
    BY <1>2, <1>4, <2>1, <2>2, MinOfTwo
  <2>4. \A s \in quoted' : Quoted(s)'
    BY <1>2, <1>3, <2>1, QuotedStays
  <2>5. shown' = [k \in 1 .. Len(shown') |-> esp' + k - 1] /\ reads' \subseteq esp' .. STACK_BASE
    BY <1>2, <1>3, <2>1
  <2>6. part' \notin {1, 2}
    BY <2>1
  <2>7. DumpInv'
    BY <2>3, <2>4, <2>5, <2>6 DEF DumpInv
  <2>8. HelperInv'
    BY <1>1, <1>2, <2>1, OnlyReads
  <2> QED BY <2>7, <2>8
<1> QED BY <1>6, <1>7

\* The walk over the map starts at its first entry, if there is a map.
LEMMA TestFlagsInv ==
  ASSUME HelperInv, WalkInv, TestFlags PROVE HelperInv' /\ WalkInv'
<1>1. call.function = "print_multiboot_info" /\ part = 1 /\ Types
  BY DEF TestFlags, Turn, HelperInv
<1>2. UNCHANGED <<call, before, memory, reads, shown>> /\ i' = 0
  BY DEF TestFlags, Leave, Unshown
<1>3. part' = IF HasMap(call) THEN 2 ELSE 0
  BY DEF TestFlags, Leave
<1>4. shown = << >> /\ reads \subseteq IF HasMap(call) THEN Target ELSE {}
  BY <1>1 DEF WalkInv
<1>5. HelperInv'
  BY <1>1, <1>2, OnlyReads
<1>6. CASE HasMap(call)
  <2>1. call.p \in Nat /\ \E entries \in SUBSET (0 .. call.n) : Entries(entries)
    BY <1>1, <1>6, CallFacts DEF Legal, Entries
  <2>2. \A entries \in SUBSET (0 .. call.n) : Entries(entries) => 0 \in entries
    BY DEF Entries
  <2>3. call.p + 0 = call.p
    BY <2>1
  <2>4. EndingAt(call.p + 0)
    BY <1>4, <2>3 DEF EndingAt, Stops
  <2>5. EndingAt(call.p + i)' /\ (\A entries : Entries(entries)' <=> Entries(entries))
    BY <1>2, <2>4 DEF EndingAt, Stops, Entries
  <2>6. \E entries \in SUBSET (0 .. call.n) : Entries(entries)' /\ i' \in entries
    BY <1>2, <2>1, <2>2, <2>5
  <2> QED BY <1>2, <1>3, <1>4, <1>5, <1>6, <2>5, <2>6 DEF WalkInv, Target, HasMap
<1>7. CASE ~HasMap(call)
  BY <1>2, <1>3, <1>4, <1>5, <1>7 DEF WalkInv, Target, HasMap
<1> QED BY <1>6, <1>7

\* One more entry is one more stop.
LEMMA OneMoreStop ==
  ASSUME NEW end \in Nat, NEW next, shown \in Seq(Nat), EndingAt(end),
         next = end + before[end] + WORD, shown' = Append(shown, end),
         UNCHANGED <<call, before>>
  PROVE  /\ shown' \in Seq(Nat) /\ Stops(next)'[1] = call.p
         /\ \A k \in 1 .. Len(shown') :
              Stops(next)'[k + 1] = Stops(next)'[k] + before[Stops(next)'[k]] + WORD
<1> DEFINE l == Len(shown)
           s == Stops(end)
           t == Append(s, next)
<1>1. l \in Nat /\ shown' \in Seq(Nat) /\ Len(shown') = l + 1
  OBVIOUS
<1>2. Stops(next)' = t /\ s = shown'
  BY DEF Stops
<1>3. s \in Seq(Nat) /\ Len(s) = l + 1 /\ s[l + 1] = end
  BY DEF Stops
<1>4. /\ s[1] = call.p
      /\ \A k \in 1 .. l : s[k + 1] = s[k] + before[s[k]] + WORD
  BY DEF EndingAt
<1> HIDE DEF l, s
<1>5. (\A k \in 1 .. l + 1 : t[k] = s[k]) /\ t[l + 2] = next
  BY <1>1, <1>3
<1> HIDE DEF t
<1>6. ASSUME NEW k \in 1 .. l + 1 PROVE t[k + 1] = t[k] + before[t[k]] + WORD
  <2>1. CASE k = l + 1
    <3>1. t[k] = end /\ t[k + 1] = next
      BY <1>1, <1>3, <1>5, <2>1
    <3> QED BY <3>1
  <2>2. CASE k \in 1 .. l
    <3>1. k + 1 \in 1 .. l + 1
      BY <1>1, <2>2
    <3>2. t[k] = s[k] /\ t[k + 1] = s[k + 1]
      BY <1>5, <3>1
    <3> QED BY <1>4, <2>2, <3>2
  <2> QED BY <1>1, <2>1, <2>2
<1>7. t[1] = call.p
  BY <1>1, <1>4, <1>5
<1> QED BY <1>1, <1>2, <1>6, <1>7

LEMMA PrintEntryInv ==
  ASSUME HelperInv, WalkInv, PrintEntry PROVE HelperInv' /\ WalkInv'
<1> DEFINE p == call.p
           n == call.n
<1>1. /\ call.function = "print_multiboot_info" /\ part = 2 /\ Types /\ memory = before
      /\ HasMap(call)
  BY DEF PrintEntry, Turn, HelperInv, ReadOnly, WalkInv
<1>2. UNCHANGED <<call, before, memory>>
  BY DEF PrintEntry, Leave
<1>3. /\ p \in Nat /\ n \in Nat /\ before \in [Addresses -> Byte]
      /\ Span(p, n) \subseteq Addresses /\ i \in Nat /\ WORD \in Nat /\ ENTRY_SIZE \in Nat
  BY <1>1, CallFacts, Sizes DEF Legal, Types
<1>4. PICK entries \in SUBSET (0 .. n) : Entries(entries) /\ i \in entries
  BY <1>1 DEF WalkInv
<1>5. reads \subseteq Span(p, n) /\ shown \in Seq(Nat) /\ EndingAt(p + i)
  BY <1>1 DEF WalkInv, Target
<1>6. CASE i < n
  <2> DEFINE size == before[p + i]
  <2>1. /\ reads' = reads \cup Span(p + i, ENTRY_SIZE) /\ shown' = Append(shown, p + i)
        /\ i' = i + (size + WORD) /\ part' = 2
    BY <1>1, <1>6 DEF PrintEntry, Read, EntryStep
  <2>2. size + WORD >= ENTRY_SIZE /\ i + size + WORD \in entries
    BY <1>3, <1>4, <1>6 DEF Entries
  <2>3. size \in Nat /\ p + i \in Nat
    <3>1. p + i \in Addresses
      BY <1>3, <1>6, SpanInside
    <3>2. size \in Byte
      BY <1>3, <3>1
    <3> QED BY <1>3, <3>2 DEF Byte
  <2>4. p + i + size + WORD = p + i'
    BY <1>3, <2>1, <2>3
  <2>5. shown' \in Seq(Nat) /\ EndingAt(p + i)'
    BY <1>2, <1>5, <2>1, <2>3, <2>4, OneMoreStop DEF EndingAt
  <2> HIDE DEF size
  <2>6. i' \in Nat /\ i' \in entries /\ i + ENTRY_SIZE <= n
    <3>1. i + (size + WORD) = i + size + WORD /\ i + size + WORD \in Nat
      BY <1>3, <2>3
    <3>2. i + size + WORD <= n
      <4>1. \A e \in entries : e <= n
        BY <1>4
      <4> QED BY <2>2, <4>1
    <3> QED BY <1>3, <2>1, <2>2, <2>3, <3>1, <3>2
  <2>7. reads' \subseteq Span(p, n)
    <3>1. Span(p + i, ENTRY_SIZE) \subseteq Span(p, n)
      BY <1>3, <2>6 DEF Span
    <3> QED BY <1>5, <2>1, <3>1
  <2>8. Entries(entries)'
    BY <1>2, <1>4 DEF Entries
  <2>9. WalkInv'
    BY <1>1, <1>2, <2>1, <2>5, <2>6, <2>7, <2>8 DEF WalkInv, Target, HasMap
  <2> QED BY <1>1, <1>2, <2>6, <2>9, OnlyReads
<1>7. CASE ~(i < n)
  <2>1. UNCHANGED <<reads, shown>> /\ i' = 0 /\ part' = 0
    BY <1>1, <1>7 DEF PrintEntry, Leave, Unshown
  <2>2. i = n
    BY <1>3, <1>4, <1>7
  <2>3. EndingAt(p + n)'
    BY <1>2, <1>5, <2>1, <2>2 DEF EndingAt, Stops
  <2>4. WalkInv'
    BY <1>1, <1>2, <1>5, <2>1, <2>3 DEF WalkInv, Target, HasMap
  <2> QED BY <1>1, <1>2, <2>1, <2>4, OnlyReads
<1> QED BY <1>6, <1>7

-----------------------------------------------------------------------------
(* The theorems *)

IInv == HelperInv /\ DumpInv /\ WalkInv

LEMMA InitInv == Init => IInv
<1> SUFFICES ASSUME Init PROVE IInv
  OBVIOUS
<1>1. /\ memory = before /\ part = 1 /\ i = 0 /\ reads = {} /\ shown = << >> /\ quoted = {}
  BY DEF Init
<1>2. Types
  BY <1>1, MemoryAssumption DEF Init, Types
<1>3. /\ call.p \in Nat /\ call.q \in Nat /\ call.n \in Nat /\ before \in [Addresses -> Byte]
      /\ Legal(call, before)
  BY <1>2, CallFacts
<1>4. \A a \in Addresses : a \notin Span(call.p, 0) /\ a \notin Moved
  BY <1>1, <1>3 DEF Span, Moved, Addresses
<1>5. HelperInv
  BY <1>1, <1>2, <1>3, <1>4
     DEF HelperInv, ReadOnly, HelpersRight, MemsetLoop, MemmoveLoop, MemcmpLoop, StrlenLoop, StrcmpLoop, StrncpyLoop
<1>6. DumpInv
  BY <1>1 DEF DumpInv
<1>7. WalkInv
  BY <1>1 DEF WalkInv
<1> QED BY <1>5, <1>6, <1>7 DEF IInv

LEMMA NextInv == IInv /\ [Next]_vars => IInv'
<1> SUFFICES ASSUME IInv, [Next]_vars PROVE IInv'
  OBVIOUS
<1>1. HelperInv /\ DumpInv /\ WalkInv
  BY DEF IInv
<1>2. ASSUME Memset \/ Memmove \/ Memcmp \/ Strlen \/ Strcmp \/ StrncpyCopy \/ StrncpyPad
      PROVE  IInv'
  <2>1. HelperInv'
    BY <1>1, <1>2, MemsetInv, MemmoveInv, MemcmpInv, StrlenInv, StrcmpInv, StrncpyCopyInv, StrncpyPadInv
  <2>2. call' = call /\ call.function \notin {"stack_dump", "print_multiboot_info"}
    BY <1>2 DEF Memset, Memmove, Memcmp, Strlen, Strcmp, StrncpyCopy, StrncpyPad, Turn, Step, Leave
  <2> QED BY <2>1, <2>2 DEF IInv, DumpInv, WalkInv
<1>3. ASSUME PrintReturnAddresses \/ PrintBytes \/ PrintWords
      PROVE  IInv'
  <2>1. HelperInv' /\ DumpInv'
    BY <1>1, <1>3, PrintReturnAddressesInv, PrintBytesInv, PrintWordsInv
  <2>2. call' = call /\ call.function # "print_multiboot_info"
    BY <1>3 DEF PrintReturnAddresses, PrintBytes, PrintWords, Turn, Step, Leave
  <2> QED BY <2>1, <2>2 DEF IInv, WalkInv
<1>4. ASSUME TestFlags \/ PrintEntry PROVE IInv'
  <2>1. HelperInv' /\ WalkInv'
    BY <1>1, <1>4, TestFlagsInv, PrintEntryInv
  <2>2. call' = call /\ call.function # "stack_dump"
    BY <1>4 DEF TestFlags, PrintEntry, Turn, Leave
  <2> QED BY <2>1, <2>2 DEF IInv, DumpInv
<1>5. ASSUME UNCHANGED vars PROVE IInv'
  <2>1. UNCHANGED <<call, before, memory, part, i, result, reads, shown, quoted>>
    BY <1>5 DEF vars
  <2>2. Types' /\ ReadOnly' /\ MemsetLoop' /\ MemcmpLoop' /\ StrlenLoop' /\ StrcmpLoop'
    BY <1>1, <2>1 DEF HelperInv, Types, ReadOnly, MemsetLoop, MemcmpLoop, StrlenLoop, StrcmpLoop
  <2>3. MemmoveLoop'
    BY <1>1, <2>1 DEF HelperInv, MemmoveLoop, Moved
  <2>4. StrncpyLoop'
    BY <1>1, <2>1 DEF HelperInv, StrncpyLoop, CopiedByte, EndedBy
  <2>5. HelpersRight'
    <3>1. \A p, n \in Nat : Bytes(p, n)' = Bytes(p, n)
      BY <2>1 DEF Bytes
    <3> QED BY <1>1, <2>1 DEF HelperInv, HelpersRight, StringAt, Bytes, LengthOf, Target
  <2>6. \A s : Quoted(s)' <=> Quoted(s)
    BY <2>1, QuotedStays
  <2>7. DumpInv'
    BY <1>1, <2>1, <2>6 DEF DumpInv, esp
  <2>8. WalkInv'
    BY <1>1, <2>1 DEF WalkInv, EndingAt, Stops, Entries, Target, HasMap
  <2> QED BY <2>2, <2>3, <2>4, <2>5, <2>7, <2>8 DEF IInv, HelperInv
<1> QED BY <1>2, <1>3, <1>4, <1>5 DEF Next, Returned

\* Every loop of the helpers, of the dump and of the walk keeps its invariant, for
\* every call its callers may make (mem.c, string.c, stack.c, multiboot.c).
THEOREM Invariant == Spec => []IInv
<1>1. Init => IInv
  BY InitInv
<1>2. IInv /\ [Next]_vars => IInv'
  BY NextInv
<1> QED BY <1>1, <1>2, PTL DEF Spec

\* The functions of mem.c and string.c write and return what the standard says and
\* change nothing else, and a comparison has its sign (strcmp()'s once taken for an
\* int), for a memory of any size, overlapping ranges and strings of any length.
THEOREM HelpersCorrect == Spec => []HelpersRight
<1>1. IInv => HelpersRight
  BY DEF IInv, HelperInv
<1> QED BY <1>1, Invariant, PTL

\* The dump of the stack reads and shows what it should and nothing else, whatever
\* the stack holds (stack.c 29-130).  So does the walk over GRUB's memory map if no
\* entry is shorter than the structure it is read by, and without the flag it reads
\* nothing (multiboot.c 20-57).
THEOREM DumpAndWalkInBounds == Spec => []WalksInBounds
<1>1. IInv => WalksInBounds
  <2> SUFFICES ASSUME IInv PROVE WalksInBounds
    OBVIOUS
  <2>1. DumpInv /\ WalkInv
    BY DEF IInv
  <2>2. ASSUME call.function = "stack_dump"
        PROVE  /\ reads \subseteq esp .. STACK_BASE
               /\ shown = [k \in 1 .. Len(shown) |-> esp + k - 1]
               /\ part \notin {1, 2} => Len(shown) = Min({STACK_DUMP_BYTES, STACK_BASE - esp})
               /\ \A s \in quoted : Quoted(s)
    BY <2>1, <2>2 DEF DumpInv
  <2>3. ASSUME call.function = "print_multiboot_info"
        PROVE  /\ reads \subseteq IF HasMap(call) THEN Target ELSE {}
               /\ part = 0 /\ HasMap(call) => EndingAt(call.p + call.n)
    BY <2>1, <2>3 DEF WalkInv
  <2> QED BY <2>2, <2>3 DEF WalksInBounds, Quoted, EndingAt
<1> QED BY <1>1, Invariant, PTL
=============================================================================
