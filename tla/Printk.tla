------------------------------- MODULE Printk -------------------------------
(***************************************************************************)
(* printk() (printk.c): a format, whose conversions take their arguments   *)
(* off the stack word by word and write them padded to a width.  It runs   *)
(* to its end in the main loop; an action is one turn of its loop.         *)
(*                                                                         *)
(* A word has WordBits bits, so that its limits are near: the least        *)
(* integer, the longest numbers.  The pointer to a string is the number of *)
(* the string, 0 is the null pointer.                                      *)
(***************************************************************************)
EXTENDS Integers, Sequences, FiniteSetsExt, SequencesExt

CONSTANTS WordBits,
          Strings,   \* the strings that arguments point to
          Calls      \* the calls: [format, words], the arguments as words

Word == 0 .. 2^WordBits - 1

ASSUME PrintkAssumption ==
  /\ WordBits \in 2 .. 15
  /\ \A c \in Calls : c.words \in Seq(Word)

VARIABLES call, i, next,  \* the format, where the loop is in it, the next argument
          out, count,     \* what was written, what will be returned
          last            \* the last number written, see NumberType

vars == <<call, i, next, out, count, last>>

Numerals == <<"0", "1", "2", "3", "4", "5", "6", "7", "8", "9",
              "a", "b", "c", "d", "e", "f">>
Decimals == {Numerals[k] : k \in 1 .. 10}
Digit(char) == CHOOSE d \in 0 .. 15 : Numerals[d + 1] = char

-----------------------------------------------------------------------------
(* What the helpers write, and the count they return *)

Put(text) == [text |-> text, count |-> Len(text)]
Then(first, second) == [text  |-> first.text \o second.text,
                        count |-> first.count + second.count]

\* nbrlen() and hexlen(): the digits of a number in a base.
Length(number, base) ==
  CHOOSE k \in 1 .. 2 * WordBits : number < base^k /\ (k > 1 => base^(k - 1) <= number)

\* putunbr() and puthex().
PutNumber(number, base) ==
  LET length == Length(number, base)
  IN  Put([k \in 1 .. length |-> Numerals[((number \div base^(length - k)) % base) + 1]])

PutPadding(length, width, pad) == Put([k \in 1 .. width - length |-> pad])

Signed(word) == IF word < 2^(WordBits - 1) THEN word ELSE word - 2^WordBits

\* Bug variant: the opposite of the least integer is itself.
Negated(number)  == IF number < 0 THEN Signed((-number) % 2^WordBits) ELSE number
Absolute(number) == IF number < 0 THEN (-(number + 1)) + 1 ELSE number

Unsigned(number, base, width, pad) ==
  Then(PutPadding(Length(number, base), width, pad), PutNumber(number, base))

\* The sign goes before the zeros and after the spaces.
Integer(number, width, pad) ==
  LET sign    == IF number < 0 THEN Put(<<"-">>) ELSE Put(<< >>)
      digits  == PutNumber(Absolute(number), 10)
      padding == PutPadding(digits.count + sign.count, width, pad)
  IN  IF pad = "0" THEN Then(Then(sign, padding), digits)
                   ELSE Then(Then(padding, sign), digits)

\* Addresses have eight digits.
Pointer(word) == Then(Put(<<"0", "x">>), Unsigned(word, 16, 8, "0"))

String(word) == Put(IF word = 0 THEN <<"(", "n", "u", "l", "l", ")">> ELSE Strings[word])

-----------------------------------------------------------------------------
(* A conversion of the format, from its % at index i *)

NUL == "NUL"
At(k) == IF k <= Len(call.format) THEN call.format[k] ELSE NUL

Pad       == IF At(i + 1) = "0" THEN "0" ELSE " "
WidthFrom == IF At(i + 1) = "0" THEN i + 2 ELSE i + 1
WidthEnd  == Min({k \in WidthFrom .. Len(call.format) + 1 : At(k) \notin Decimals})
Width     == FoldLeft(LAMBDA width, char : width * 10 + Digit(char), 0,
                      SubSeq(call.format, WidthFrom, WidthEnd - 1))

HasLongLong  == At(WidthEnd) = "l" /\ At(WidthEnd + 1) = "l"
ConversionAt == IF HasLongLong THEN WidthEnd + 2 ELSE WidthEnd
Conversion   == At(ConversionAt)

Conversions == {"c", "s", "d", "i", "u", "%", "x", "p"}

\* va_arg(): the words a conversion takes.  Only x looks at ll.
\* Bug variant: a word for each conversion.
OneWord(conversion)    == 1
WordsTaken(conversion) == CASE conversion = "%" -> 0
                            [] conversion = "x" /\ HasLongLong -> 2
                            [] OTHER -> 1

\* Past the arguments the stack holds other words, here 0.
Argument(k) == IF k <= Len(call.words) THEN call.words[k] ELSE 0
LongLong    == Argument(next) + 2^WordBits * Argument(next + 1)

-----------------------------------------------------------------------------
(* The loop *)

Write(piece, k) == /\ out' = out \o piece.text
                   /\ count' = count + piece.count
                   /\ i' = k
                   /\ UNCHANGED call

OrdinaryCharacter ==
  /\ At(i) \notin {"%", NUL}
  /\ Write(Put(<<At(i)>>), i + 1)
  /\ UNCHANGED <<next, last>>

Convert ==
  /\ At(i) = "%" /\ Conversion \in Conversions
  /\ LET word  == Argument(next)
         value == CASE Conversion \in {"d", "i"} -> Signed(word)
                    [] Conversion = "x" /\ HasLongLong -> LongLong
                    [] OTHER -> word
         base  == IF Conversion = "x" THEN 16 ELSE 10
         piece == CASE Conversion \in {"d", "i"} -> Integer(value, Width, Pad)
                    [] Conversion \in {"u", "x"} -> Unsigned(value, base, Width, Pad)
                    [] Conversion = "p" -> Pointer(value)
                    [] Conversion = "s" -> String(value)
                    [] Conversion = "c" -> Put(<<value>>)
                    [] OTHER -> Put(<<"%">>)
     IN  /\ Write(piece, ConversionAt + 1)
         /\ last' = IF Conversion \in {"d", "i", "u", "x"}
                    THEN {[text |-> piece.text, value |-> value, base |-> base, width |-> Width]}
                    ELSE {}
  /\ next' = next + WordsTaken(Conversion)

\* An unknown conversion is printed as it is written.
UnknownConversion ==
  /\ At(i) = "%" /\ Conversion \notin Conversions
  /\ Write(Put([k \in 1 .. ConversionAt - i + 1 |-> At(i + k - 1)]), ConversionAt + 1)
  /\ UNCHANGED <<next, last>>

Returned == At(i) = NUL
Return   == Returned /\ UNCHANGED vars

Init == /\ call \in Calls
        /\ i = 1 /\ next = 1 /\ out = << >> /\ count = 0 /\ last = {}

Next == OrdinaryCharacter \/ Convert \/ UnknownConversion \/ Return

Spec == Init /\ [][Next]_vars

-----------------------------------------------------------------------------
(* Properties *)

\* A text read as a number, without the padding.
Significant(text) == SelectSeq(text, LAMBDA char : char \notin {" ", "-"})
ReadBack(text, base) ==
  LET value == FoldLeft(LAMBDA v, char : v * base + Digit(char), 0, Significant(text))
  IN  IF "-" \in Range(text) THEN -value ELSE value

\* A number reads back as the argument, the least integer and a padded negative
\* number too; it is as wide as asked, and wider only by its own digits.  printk
\* returns the count of the characters (printk.c 21-171 and 217-260).
PrintedRight ==
  /\ count = Len(out)
  /\ \A n \in last :
       /\ ReadBack(n.text, n.base) = n.value
       /\ Len(n.text) >= n.width
       /\ "-" \in Range(n.text) => n.text[1] \in {"-", " "}
       /\ Len(n.text) > n.width /\ n.value # 0 => Significant(n.text)[1] # "0"
       /\ Len(n.text) > n.width => n.text[1] # " "

\* printk never reads past its format, and its conversions take the words of the
\* arguments it was given, all of them and no other (printk.c 182-281).
ArgumentsInStep ==
  /\ i <= Len(call.format) + 1
  /\ next <= Len(call.words) + 1
  /\ Returned => next = Len(call.words) + 1
=============================================================================
