------------------------------- MODULE Memory -------------------------------
(***************************************************************************)
(* The code of the kernel that walks over memory on its own: the helpers   *)
(* of mem.c and string.c, the dump of the stack (stack.c) and the walk     *)
(* over GRUB's memory map (multiboot.c).  An action is one turn of a loop. *)
(* What a dump reads and shows is recorded.                                *)
(***************************************************************************)
EXTENDS Integers, Sequences, FiniteSetsExt

CONSTANTS
  Starts,               \* what may be called: [call, memory], see CallType
  MEMORY_SIZE,          \* bytes of the memory
  STACK_BASE,           \* the end of the stack
  STACK_DUMP_BYTES, STACK_DUMP_WORDS, STACK_RETURN_SEARCH, STACK_STRING_MIN_LEN,
  ROW, WORD,            \* bytes of a row of the dump, of a word of the stack
  ENTRY_SIZE,           \* bytes of a struct multiboot_mmap_entry: 24
  UINT_RANGE            \* the values of a uint32_t: 2^32

Functions == {"memset", "memmove", "memcmp", "strlen", "strcmp", "strncpy",
              "stack_dump", "print_multiboot_info"}

\* Two pointers or a value, and a length.
CallType == [function : Functions, p : Nat, q : Nat, n : Nat]

NUL == 0
Byte      == 0 .. 255
Addresses == 0 .. MEMORY_SIZE - 1
Span(p, n) == p .. p + n - 1

\* There is a string at p.
Ended(memory, p) == \E a \in Addresses : a >= p /\ memory[a] = NUL

\* print_multiboot_info(): q is the flags of the structure GRUB leaves, p and n its
\* mmap_addr and mmap_length.
MULTIBOOT_INFO_MEM_MAP == 64
HasMap(call) == (call.q \div MULTIBOOT_INFO_MEM_MAP) % 2 = 1

\* What a caller has to see to: the ranges are in the memory and the strings have
\* an end; what strncpy() reads is not what it writes; ESP is in the stack; the
\* entries of GRUB's memory map fill it, and none is shorter than the structure
\* they are read by (of their size, which does not count itself, only the low
\* byte is not zero).
Legal(call, memory) ==
  LET p == call.p
      q == call.q
      n == call.n
  IN  /\ call.function \in {"memset", "memmove", "memcmp", "strncpy"} =>
           Span(p, n) \subseteq Addresses
      /\ call.function \in {"memmove", "memcmp"} => Span(q, n) \subseteq Addresses
      /\ call.function \in {"strlen", "strcmp"} => Ended(memory, p)
      /\ call.function = "strcmp" => Ended(memory, q)
      /\ call.function = "strncpy" =>
           \E length \in 0 .. n :
             /\ length < n => memory[q + length] = NUL
             /\ \A k \in 0 .. length : k < n => q + k \in Addresses \ Span(p, n)
      /\ call.function = "stack_dump" => p <= STACK_BASE /\ (STACK_BASE - p) % WORD = 0
      /\ call.function = "print_multiboot_info" /\ HasMap(call) =>
           /\ Span(p, n) \subseteq Addresses
           /\ \E entries \in SUBSET (0 .. n) :
                /\ {0, n} \subseteq entries
                /\ \A e \in entries \ {n} :
                     /\ \A k \in 1 .. WORD - 1 : memory[p + e + k] = 0
                     /\ memory[p + e] + WORD >= ENTRY_SIZE
                     /\ e + memory[p + e] + WORD \in entries

ASSUME MemoryAssumption ==
  /\ {MEMORY_SIZE, STACK_BASE, STACK_DUMP_BYTES, STACK_DUMP_WORDS, STACK_RETURN_SEARCH,
      STACK_STRING_MIN_LEN, ROW, WORD, ENTRY_SIZE, UINT_RANGE} \subseteq Nat \ {0}
  /\ WORD <= ENTRY_SIZE /\ 512 <= UINT_RANGE
  /\ STACK_DUMP_BYTES % ROW = 0 /\ STACK_BASE < MEMORY_SIZE
  /\ \A s \in Starts : /\ s.call \in CallType /\ s.memory \in [Addresses -> Byte]
                       /\ Legal(s.call, s.memory)

VARIABLES call, before,   \* the call and the memory it found
          memory,
          part, i,        \* the loop of the function, its turn
          result,         \* what is returned
          reads,          \* the addresses a dump has read
          shown, quoted   \* the addresses shown in order, the strings shown

vars == <<call, before, memory, part, i, result, reads, shown, quoted>>

isprint(byte) == byte \in 32 .. 126

Turn(function, p) == call.function = function /\ part = p
Read(addresses)   == reads' = reads \cup addresses
Step              == i' = i + 1 /\ UNCHANGED <<call, before, part, result>>
Unshown           == UNCHANGED <<reads, shown, quoted>>
Leave(p, value)   == /\ part' = p /\ i' = 0 /\ result' = value
                     /\ Unshown /\ UNCHANGED <<call, before, memory>>
Set(address, byte) == memory' = [memory EXCEPT ![address] = byte]

-----------------------------------------------------------------------------
(* mem.c *)

Memset ==
  /\ Turn("memset", 1)
  /\ IF i < call.n
     THEN Set(call.p + i, call.q % 256) /\ Step /\ Unshown
     ELSE Leave(0, call.p)

\* Bug variant: always from the first byte to the last.
Upwards(k) == k
InOrder(k) == IF call.p < call.q THEN k ELSE call.n - 1 - k

Memmove ==
  /\ Turn("memmove", 1)
  /\ IF i < call.n /\ call.p # call.q
     THEN Set(call.p + InOrder(i), memory[call.q + InOrder(i)]) /\ Step /\ Unshown
     ELSE Leave(0, call.p)

Memcmp ==
  /\ Turn("memcmp", 1)
  /\ IF i < call.n /\ memory[call.p + i] = memory[call.q + i]
     THEN Step /\ Unshown /\ UNCHANGED memory
     ELSE Leave(0, IF i < call.n THEN memory[call.p + i] - memory[call.q + i] ELSE 0)

-----------------------------------------------------------------------------
(* string.c *)

Strlen ==
  /\ Turn("strlen", 1)
  /\ IF memory[call.p + i] # NUL
     THEN Step /\ Unshown /\ UNCHANGED memory
     ELSE Leave(0, i)

\* It returns the difference of two bytes as a uint32_t.
Strcmp ==
  /\ Turn("strcmp", 1)
  /\ IF memory[call.p + i] # NUL /\ memory[call.p + i] = memory[call.q + i]
     THEN Step /\ Unshown /\ UNCHANGED memory
     ELSE Leave(0, (memory[call.p + i] - memory[call.q + i]) % UINT_RANGE)

\* The source, and once it has ended a loop of its own for the zeros.
StrncpyCopy ==
  /\ Turn("strncpy", 1)
  /\ IF i < call.n /\ memory[call.q + i] # NUL
     THEN Set(call.p + i, memory[call.q + i]) /\ Step /\ Unshown
     ELSE part' = 2 /\ Unshown /\ UNCHANGED <<call, before, memory, i, result>>

StrncpyPad ==
  /\ Turn("strncpy", 2)
  /\ IF i < call.n
     THEN Set(call.p + i, NUL) /\ Step /\ Unshown
     ELSE Leave(0, call.p)

-----------------------------------------------------------------------------
(* stack_dump(): p is esp.  Its words, its bytes in rows, its words again *)

WordAt(address) == address .. address + WORD - 1
esp             == call.p

PrintReturnAddresses ==
  /\ Turn("stack_dump", 1)
  /\ LET ptr == esp + WORD * i
     IN  IF ptr < STACK_BASE /\ ptr < esp + STACK_RETURN_SEARCH
         THEN Read(WordAt(ptr)) /\ Step /\ UNCHANGED <<memory, shown, quoted>>
         ELSE Leave(2, result)

\* Bug variant: a row is always whole.
WholeRow(address)  == ROW
RowLength(address) == Min({ROW, STACK_BASE - address})

\* The printable bytes from an address to the end of its row.
PrintableRun(address) ==
  Min({k \in 0 .. RowLength(address) :
         k = RowLength(address) \/ ~isprint(memory[address + k])})

\* A run that is long enough is a string if a NUL ends it: the test may read the
\* byte after the row, or after the stack.
PrintBytes ==
  /\ Turn("stack_dump", 2)
  /\ LET address == esp + ROW * i
         length  == PrintableRun(address)
     IN  IF ROW * i < STACK_DUMP_BYTES /\ address < STACK_BASE
         THEN /\ Read(address .. address + RowLength(address) - 1
                        \cup IF length >= STACK_STRING_MIN_LEN THEN {address + length} ELSE {})
              /\ shown' = shown \o [k \in 1 .. RowLength(address) |-> address + k - 1]
              /\ quoted' = IF length >= STACK_STRING_MIN_LEN /\ memory[address + length] = NUL
                           THEN quoted \cup {<<address, length>>} ELSE quoted
              /\ Step /\ UNCHANGED memory
         ELSE Leave(3, result)

PrintWords ==
  /\ Turn("stack_dump", 3)
  /\ LET word == esp + WORD * i
     IN  IF i < STACK_DUMP_WORDS /\ word < STACK_BASE
         THEN Read(WordAt(word)) /\ Step /\ UNCHANGED <<memory, shown, quoted>>
         ELSE Leave(0, result)

-----------------------------------------------------------------------------
(* print_multiboot_info(): i is the offset of an entry in the map          *)

TestFlags == Turn("print_multiboot_info", 1) /\ Leave(IF HasMap(call) THEN 2 ELSE 0, result)

EntryStep(size) == size + WORD

\* Of an entry all is read: its size, base_addr, length and type.
PrintEntry ==
  /\ Turn("print_multiboot_info", 2)
  /\ IF i < call.n
     THEN /\ Read(Span(call.p + i, ENTRY_SIZE))
          /\ shown' = Append(shown, call.p + i)
          /\ i' = i + EntryStep(memory[call.p + i])
          /\ UNCHANGED <<call, before, memory, part, result, quoted>>
     ELSE Leave(0, result)

-----------------------------------------------------------------------------
(* The specification *)

Init == /\ \E s \in Starts : call = s.call /\ memory = s.memory
        /\ before = memory
        /\ part = 1 /\ i = 0 /\ result = 0
        /\ reads = {} /\ shown = << >> /\ quoted = {}

Returned == part = 0 /\ UNCHANGED vars

Next == \/ Memset \/ Memmove \/ Memcmp
        \/ Strlen \/ Strcmp \/ StrncpyCopy \/ StrncpyPad
        \/ PrintReturnAddresses \/ PrintBytes \/ PrintWords
        \/ TestFlags \/ PrintEntry
        \/ Returned

Spec == Init /\ [][Next]_vars

-----------------------------------------------------------------------------
(* Properties *)

\* The bytes from one address to another, and a string with its NUL.
Bytes(p, n)  == [k \in 1 .. n |-> before[p + k - 1]]
LengthOf(p)  == Min({k \in 0 .. MEMORY_SIZE - 1 - p : before[p + k] = NUL})
StringAt(p)  == Bytes(p, LengthOf(p) + 1)
Target       == Span(call.p, call.n)

\* The first difference decides which of two byte sequences is before the other,
\* and the sign of a comparison says so.
Before(s, t) ==
  \E k \in DOMAIN s \cap DOMAIN t : s[k] < t[k] /\ \A j \in 1 .. k - 1 : s[j] = t[j]
Compares(value, s, t) ==
  \/ value = 0 /\ s = t
  \/ value < 0 /\ Before(s, t)
  \/ value > 0 /\ Before(t, s)

\* A uint32_t that is taken for an int.
Signed(value) == IF 2 * value < UINT_RANGE THEN value ELSE value - UINT_RANGE

\* What the standard says of a function, in one step.  Those that write return
\* their target, write all of it and nothing else, and read the bytes as they were,
\* also when the ranges overlap, as the scrolling of a screen needs; those that
\* read write nothing, and a comparison has the sign of the first difference, as
\* unsigned bytes (strcmp()'s once its uint32_t is taken for an int).  mem.c,
\* string.c, terminal.c 142-156.
HelpersRight ==
  part = 0 =>
    CASE call.function = "memset" ->
           /\ result = call.p
           /\ memory = [a \in DOMAIN before |-> IF a \in Target THEN call.q % 256 ELSE before[a]]
      [] call.function = "memmove" ->
           /\ result = call.p
           /\ memory = [a \in DOMAIN before |->
                          IF a \in Target THEN before[a - call.p + call.q] ELSE before[a]]
      [] call.function = "strncpy" ->
           /\ result = call.p
           /\ memory = [a \in DOMAIN before |->
                          IF a \notin Target THEN before[a]
                          ELSE IF \E k \in 0 .. a - call.p : before[call.q + k] = NUL THEN NUL
                          ELSE before[a - call.p + call.q]]
      [] call.function = "memcmp" ->
           memory = before /\ Compares(result, Bytes(call.p, call.n), Bytes(call.q, call.n))
      [] call.function = "strcmp" ->
           memory = before /\ Compares(Signed(result), StringAt(call.p), StringAt(call.q))
      [] call.function = "strlen" -> memory = before /\ result = LengthOf(call.p)
      [] OTHER -> memory = before

\* The entries of the map, and the end of the walk over them.
Stops(end) == Append(shown, end)

\* A dump shows the bytes of the stack one by one and in order, reads nothing but
\* the stack and the one byte that may end a string at its top, and quotes
\* strings only (stack.c 29-130).  The walk over the memory map reads nothing but
\* the map, and without the flag nothing at all; it goes from the first entry to
\* the end by the size of each (multiboot.c 20-57).
WalksInBounds ==
  /\ call.function = "stack_dump" =>
       /\ reads \subseteq esp .. STACK_BASE
       /\ shown = [k \in 1 .. Len(shown) |-> esp + k - 1]
       /\ part \notin {1, 2} => Len(shown) = Min({STACK_DUMP_BYTES, STACK_BASE - esp})
       /\ \A s \in quoted : s[2] = LengthOf(s[1]) /\ \A k \in 1 .. s[2] : isprint(StringAt(s[1])[k])
  /\ call.function = "print_multiboot_info" =>
       /\ reads \subseteq IF HasMap(call) THEN Target ELSE {}
       /\ part = 0 /\ HasMap(call) =>
            LET stops == Stops(call.p + call.n)
            IN  /\ stops[1] = call.p
                /\ \A k \in 1 .. Len(shown) : stops[k + 1] = stops[k] + before[stops[k]] + WORD
=============================================================================
