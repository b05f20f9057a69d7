------------------------------ MODULE Buffer ------------------------------
(***************************************************************************)
(* The buffer of a connection: one vector and two indices that divide it   *)
(* into a prependable, a readable and a writable region.                   *)
(*                                                                         *)
(*     prependable        readable           writable                      *)
(*   0 ----------- readerIndex_ ------ writerIndex_ ------ Len(buffer_)    *)
(*                                                                         *)
(* Operators on a buffer b = [buffer_, readerIndex_, writerIndex_], one    *)
(* per member function.  Index i of the code is place i + 1 of the         *)
(* sequence.  prepend(), shrink(), findEOL() and the integers have no      *)
(* caller in the program.                                                  *)
(***************************************************************************)
EXTENDS Integers, Sequences, FiniteSetsExt

CONSTANTS
  kCheapPrepend,  \* 8 in the code
  kInitialSize,   \* 1024 in the code
  ExtraSize,      \* sizeof(extrabuf) of readFd(): 65536 in the code
  Zero            \* what the vector puts into a place nobody has written

ASSUME SizesAssumption ==
  /\ kCheapPrepend \in Nat
  /\ kInitialSize \in Nat
  /\ ExtraSize \in Nat \ {0}

kCRLF == <<"\r", "\n">>

NewBuffer ==
  [buffer_      |-> [i \in 1 .. kCheapPrepend + kInitialSize |-> Zero],
   readerIndex_ |-> kCheapPrepend,
   writerIndex_ |-> kCheapPrepend]

(* The regions are in order, and the vector has the bytes that are to be   *)
(* reserved in front (Buffer.h:281-283).                                   *)
IsBuffer(b, S) ==
  /\ b \in [buffer_ : Seq(S), readerIndex_ : Nat, writerIndex_ : Nat]
  /\ kCheapPrepend <= Len(b.buffer_)
  /\ b.readerIndex_ <= b.writerIndex_
  /\ b.writerIndex_ <= Len(b.buffer_)

ReadableBytes(b)    == b.writerIndex_ - b.readerIndex_
WritableBytes(b)    == Len(b.buffer_) - b.writerIndex_
PrependableBytes(b) == b.readerIndex_

(* toString(), and what lies between peek() and beginWrite() *)
Contents(b) == SubSeq(b.buffer_, b.readerIndex_ + 1, b.writerIndex_)

(***************************************************************************)
(* Where the first CRLF begins in the readable region, 0 for nullptr.      *)
(***************************************************************************)
FindCRLF(b) ==
  LET s    == Contents(b)
      hits == {k \in 1 .. Len(s) - 1 : s[k] = kCRLF[1] /\ s[k + 1] = kCRLF[2]}
  IN  IF hits = {} THEN 0 ELSE Min(hits)

(* From start on, counted from peek(). *)
FindCRLFFrom(b, start) ==
  LET found == FindCRLF([b EXCEPT !.readerIndex_ = @ + start])
  IN  IF found = 0 THEN 0 ELSE start + found

FindEOL(b) ==
  LET hits == {k \in DOMAIN Contents(b) : Contents(b)[k] = kCRLF[2]}
  IN  IF hits = {} THEN 0 ELSE Min(hits)

---------------------------------------------------------------------------
(* Taking from the front. *)

RetrieveAll(b) ==
  [b EXCEPT !.readerIndex_ = kCheapPrepend, !.writerIndex_ = kCheapPrepend]

(* retrieve() and retrieveUntil(): the indices go back to the start when   *)
(* nothing is left.                                                        *)
Retrieve(b, len) ==
  IF len < ReadableBytes(b)
  THEN [b EXCEPT !.readerIndex_ = @ + len]
  ELSE RetrieveAll(b)

(* What retrieveAsString() returns, and leaves. *)
RetrieveAsString(b, len) == <<SubSeq(Contents(b), 1, len), Retrieve(b, len)>>

---------------------------------------------------------------------------
(* Adding at the end. *)

(* std::copy(data, data + Len(data), begin() + at) *)
CopyTo(vector, at, data) ==
  [i \in 1 .. Len(vector) |->
     IF i \in at + 1 .. at + Len(data) THEN data[i - at] ELSE vector[i]]

(* std::vector::resize() *)
Resize(vector, size) ==
  [i \in 1 .. size |-> IF i <= Len(vector) THEN vector[i] ELSE Zero]

(* The bytes go behind the readable region, which grows: the copy and      *)
(* hasWritten().                                                           *)
Write(b, data) ==
  [b EXCEPT !.buffer_      = CopyTo(@, b.writerIndex_, data),
            !.writerIndex_ = @ + Len(data)]

(* The vector grows, or the readable region moves to the front of it.      *)
MakeSpace(b, len) ==
  IF WritableBytes(b) + PrependableBytes(b) < len + kCheapPrepend
  THEN [b EXCEPT !.buffer_ = Resize(@, b.writerIndex_ + len)]
  ELSE [buffer_      |-> CopyTo(b.buffer_, kCheapPrepend, Contents(b)),
        readerIndex_ |-> kCheapPrepend,
        writerIndex_ |-> kCheapPrepend + ReadableBytes(b)]

EnsureWritableBytes(b, len) ==
  IF WritableBytes(b) < len THEN MakeSpace(b, len) ELSE b

AppendData(b, data) == Write(EnsureWritableBytes(b, Len(data)), data)

---------------------------------------------------------------------------
(* Mutant: writerIndex_ is not put at the end before the rest is appended. *)
ReadFdForgetsFirstPart(b, data) ==
  LET writable == WritableBytes(b)
  IN  IF Len(data) <= writable
      THEN Write(b, data)
      ELSE AppendData(b, SubSeq(data, writable + 1, Len(data)))

(***************************************************************************)
(* One readv(2) of readFd(), which has delivered data: first the writable  *)
(* region is filled, what does not fit was put into extrabuf and is        *)
(* appended.  When extrabuf was filled too, readFd() calls itself.         *)
(***************************************************************************)
ReadFd(b, data) ==
  LET writable == WritableBytes(b)
  IN  IF Len(data) <= writable
      THEN Write(b, data)
      ELSE AppendData(Write(b, SubSeq(data, 1, writable)),
                      SubSeq(data, writable + 1, Len(data)))

ReadsAgain(b, data) == Len(data) = WritableBytes(b) + ExtraSize

---------------------------------------------------------------------------
(* Adding in front, and making the vector small. *)

Prepend(b, data) ==
  [b EXCEPT !.buffer_      = CopyTo(@, b.readerIndex_ - Len(data), data),
            !.readerIndex_ = @ - Len(data)]

(* The new vector is swapped for the old one before anything is copied.    *)
Shrink(b, reserve) == EnsureWritableBytes(NewBuffer, ReadableBytes(b) + reserve)

---------------------------------------------------------------------------
(* Integers of 8, 16 and 32 bits, the highest byte first. *)

Byte  == 0 .. 255
Int8  == {x \in Int : -128 <= x /\ x < 128}
Int16 == {x \in Int : -32768 <= x /\ x < 32768}
Int32 == {x \in Int : -(32768 * 65536) <= x /\ x < 32768 * 65536}

Bytes8(x)  == <<x % 256>>
Bytes16(x) == <<(x \div 256) % 256, x % 256>>
Bytes32(x) == Bytes16(x \div 65536) \o Bytes16(x)

AppendInt8(b, x)   == AppendData(b, Bytes8(x))
AppendInt16(b, x)  == AppendData(b, Bytes16(x))
AppendInt32(b, x)  == AppendData(b, Bytes32(x))
PrependInt8(b, x)  == Prepend(b, Bytes8(x))
PrependInt16(b, x) == Prepend(b, Bytes16(x))
PrependInt32(b, x) == Prepend(b, Bytes32(x))

(* The cast back to a signed type of so many values. *)
Signed(u, values) == IF 2 * u < values THEN u ELSE u - values

PeekInt8(b) == Signed(Contents(b)[1], 256)
PeekInt16(b) ==
  LET c == Contents(b) IN Signed(256 * c[1] + c[2], 65536)
PeekInt32(b) ==
  LET c == Contents(b)
  IN  Signed(256 * (256 * (256 * c[1] + c[2]) + c[3]) + c[4], 65536 * 65536)

ReadInt8(b)  == <<PeekInt8(b), Retrieve(b, 1)>>
ReadInt16(b) == <<PeekInt16(b), Retrieve(b, 2)>>
ReadInt32(b) == <<PeekInt32(b), Retrieve(b, 4)>>

===========================================================================
