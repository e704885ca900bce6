------------------------------ MODULE MCMemory ------------------------------
(***************************************************************************)
(* An instance of Memory for TLC.                                          *)
(***************************************************************************)
EXTENDS Memory

Call(function, p, q, n) == [function |-> function, p |-> p, q |-> q, n |-> n]
StartsOf(calls, memories) == {[call |-> c, memory |-> m] : c \in calls, m \in memories}

\* Six bytes and zeros after them: overlapping and empty ranges.
Small == {[a \in Addresses |-> IF a < 5 THEN m[a] ELSE 0] : m \in [0 .. 4 -> {0, 1, 200}]}

MemoryCalls ==
  {Call(f, p, q, n) : f \in {"memmove", "memcmp"}, p \in 0 .. 3, q \in 0 .. 3, n \in {0, 1, 3}} \cup
  {Call("memset", p, 456, n) : p \in {0, 2}, n \in {0, 3}}
StringCalls ==
  {Call(f, p, q, 0) : f \in {"strlen", "strcmp"}, p \in {0, 2}, q \in {1, 3}} \cup
  {Call("strncpy", 0, 3, n) : n \in 0 .. 3}

\* A stack of ten bytes, with bytes of something else above it.
Stacks    == {[a \in Addresses |-> IF a > 10 THEN 65 ELSE m[a]] : m \in [0 .. 10 -> {0, 65}]}
Unquoted  == {[m EXCEPT ![4] = 200] : m \in Stacks}
DumpCalls == {Call("stack_dump", p, 0, 0) : p \in {0, 2, 4, 6, 8, 10}}

\* Memory maps with entries of different sizes, and flags without a map.
Map(sizes) == [a \in Addresses |-> IF a \in DOMAIN sizes THEN sizes[a] ELSE 0]
Maps == {<<[a \in {0, 5} |-> IF a = 0 THEN 3 ELSE 4], 11>>,
         <<[a \in {0, 5} |-> IF a = 0 THEN 3 ELSE 6], 13>>,
         <<[a \in {0} |-> 6], 8>>, <<[a \in {} |-> 0], 0>>}

MCStarts ==
  StartsOf(MemoryCalls \cup StringCalls, Small) \cup StartsOf(DumpCalls, Stacks \cup Unquoted) \cup
  {[call |-> Call("print_multiboot_info", 0, flags, m[2]), memory |-> Map(m[1])] :
     flags \in {64, 65}, m \in Maps} \cup
  {[call |-> Call("print_multiboot_info", 7, flags, 99), memory |-> Map([a \in {0} |-> 6])] :
     flags \in {0, 1, 128}}
=============================================================================
