----------------------------- MODULE LogStream -----------------------------
(***************************************************************************)
(* base/LogStream.h and .cpp: the line of a log message, put together in a *)
(* FixedBuffer.  The body of FixedBuffer::append() is empty, so that text  *)
(* leaves no trace; numbers are written behind cur_, without a look at how *)
(* long they will be: there is room for kMaxNumericSize characters or the  *)
(* number is left out.                                                     *)
(***************************************************************************)
EXTENDS Integers, Sequences

CONSTANTS
  kSmallBuffer,    (* 4000 in the code                                     *)
  kMaxNumericSize, (* 32 in the code                                       *)
  Base,            (* of the numerals: 10                                  *)
  Digits,          (* that an integer of the widest type has at most       *)
  DoubleSize       (* characters of "%.12g" at most                        *)

ASSUME LogStreamAssumption ==
  /\ kSmallBuffer \in Nat /\ kMaxNumericSize \in Nat
  /\ Base \in Nat \ {0, 1} /\ Digits \in Nat \ {0} /\ DoubleSize \in Nat
  /\ Digits + 3 <= kMaxNumericSize /\ DoubleSize < kMaxNumericSize

VARIABLES
  data_,   (* what the buffer holds before cur_                            *)
  beyond,  (* how far behind data_ has been written, ever                  *)
  last     (* history: the last integer put, and where                     *)

lineVars == <<data_, beyond, last>>

(* A digit is its number, and other characters are these. *)
Minus == -1
LetterX == -2
Other == -3

Power[k \in Nat] == IF k = 0 THEN 1 ELSE Base * Power[k - 1]
Integer == 1 - Power[Digits] .. Power[Digits] - 1

LineInit == data_ = <<>> /\ beyond = 0 /\ last = [value |-> 0, from |-> 1, to |-> 0]

---------------------------------------------------------------------------
(* convert(): C's division rounds to zero, and the table of digits is read *)
(* in both directions from its middle.                                     *)
Quotient(i) == IF i < 0 THEN -((-i) \div Base) ELSE i \div Base
Remainder(i) == i - Base * Quotient(i)
Digit(lsd) == IF lsd < 0 THEN -lsd ELSE lsd

Backwards[i \in Int] ==
  <<Digit(Remainder(i))>> \o IF Quotient(i) = 0 THEN <<>> ELSE Backwards[Quotient(i)]

Reversed(s) == [k \in 1 .. Len(s) |-> s[Len(s) + 1 - k]]

(* Mutant: the sign is that of what the division has left. *)
ConvertUnsigned(value) == Reversed(Backwards[value])

Convert(value) == Reversed(Backwards[value] \o IF value < 0 THEN <<Minus>> ELSE <<>>)

---------------------------------------------------------------------------
Avail == kSmallBuffer - Len(data_)

(* What convert() and snprintf() write, with the zero byte they end it by, *)
(* and add() to what is there.                                             *)
Put(text) ==
  /\ data_' = data_ \o text
  /\ beyond' = IF Len(data_') + 1 > beyond THEN Len(data_') + 1 ELSE beyond

(* Mutant: one character more is enough. *)
PutIfAny(n) ==
  /\ Avail > 0
  /\ Put(Convert(n))
  /\ last' = [value |-> n, from |-> Len(data_) + 1, to |-> Len(data_')]

(* formatInteger() *)
FormatInteger(n) ==
  /\ Avail >= kMaxNumericSize
  /\ Put(Convert(n))
  /\ last' = [value |-> n, from |-> Len(data_) + 1, to |-> Len(data_')]

FormatPointer(p) ==
  /\ Avail > kMaxNumericSize
  /\ Put(<<0, LetterX>> \o Convert(p))
  /\ last' = [value |-> p, from |-> Len(data_) + 3, to |-> Len(data_')]

(* Of a double only the length of its text matters. *)
FormatDouble(length) ==
  /\ Avail > kMaxNumericSize
  /\ Put([i \in 1 .. length |-> Other])
  /\ UNCHANGED last

ResetBuffer ==
  /\ data_' = <<>> /\ last' = [value |-> 0, from |-> 1, to |-> 0]
  /\ UNCHANGED beyond

(* One operator<<, or resetBuffer(); those of bool, characters and text      *)
(* append() and leave the line as it is, so they are stuttering steps.       *)
LineNext ==
  \/ \E n \in Integer : FormatInteger(n)
  \/ \E p \in Integer \intersect Nat : FormatPointer(p)
  \/ \E length \in 1 .. DoubleSize : FormatDouble(length)
  \/ ResetBuffer

LineSpec == LineInit /\ [][LineNext]_lineVars

---------------------------------------------------------------------------
(* What a numeral stands for. *)
Value(digits) ==
  LET value[k \in 0 .. Len(digits)] ==
        IF k = 0 THEN 0 ELSE Base * value[k - 1] + digits[k]
  IN  value[Len(digits)]

ValueOf(s) == IF s # <<>> /\ s[1] = Minus THEN -Value(Tail(s)) ELSE Value(s)

(* LogStream.cpp:13-30, 92-127, 178-183: nothing is ever written behind    *)
(* the array, though nobody knows a number's length before it is there;    *)
(* and the last integer in the line reads as the one that was put, the     *)
(* least one of its type too, for which there is no positive counterpart.  *)
LineHoldsTheNumber ==
  /\ beyond <= kSmallBuffer
  /\ ValueOf(SubSeq(data_, last.from, last.to)) = last.value
===========================================================================
