------------------------- MODULE HttpServer_proofs -------------------------
(***************************************************************************)
(* What the operations of Buffer do to its indices and to what can be read *)
(* from it, for buffers of every size over any set S of characters; and,   *)
(* for every set of streams and every size of the buffer: the parser reads *)
(* what was received, however it was cut, and the replies are those to the *)
(* requests in it.  Then, for every set of requests and every file: the    *)
(* client of web-5.11 gets the responses to its requests, however they are *)
(* cut.                                                                    *)
(***************************************************************************)
EXTENDS HttpServer, HttpConn, SequenceTheorems, WellFoundedInduction, TLAPS

(* Buffer. *)

(* A function on 1 .. n is a sequence of length n. *)
LEMMA FunctionIsSeq ==
  ASSUME NEW S, NEW n \in Nat, NEW f \in [1 .. n -> S]
  PROVE  f \in Seq(S) /\ Len(f) = n
OBVIOUS

(* std::copy() inside the vector changes the places it writes to and no    *)
(* other.                                                                  *)
LEMMA CopyToCorrect ==
  ASSUME NEW S, NEW vector \in Seq(S), NEW data \in Seq(S), NEW a \in Nat,
         a + Len(data) <= Len(vector)
  PROVE  /\ CopyTo(vector, a, data) \in Seq(S)
         /\ Len(CopyTo(vector, a, data)) = Len(vector)
         /\ \A i \in 1 .. Len(vector) :
              CopyTo(vector, a, data)[i] =
                IF i \in a + 1 .. a + Len(data) THEN data[i - a]
                                                  ELSE vector[i]
<1> DEFINE copy == CopyTo(vector, a, data)
<1>1. ASSUME NEW i \in 1 .. Len(vector)
      PROVE  (IF i \in a + 1 .. a + Len(data) THEN data[i - a]
                                                ELSE vector[i]) \in S
  <2>1. CASE i \in a + 1 .. a + Len(data)
    <3>1. i - a \in 1 .. Len(data)
      BY <2>1
    <3> QED
      BY <2>1, <3>1, ElementOfSeq
  <2>2. CASE ~(i \in a + 1 .. a + Len(data))
    BY <2>2, ElementOfSeq
  <2> QED
    BY <2>1, <2>2
<1>2. copy \in [1 .. Len(vector) -> S]
  BY <1>1 DEF CopyTo
<1>3. copy \in Seq(S) /\ Len(copy) = Len(vector)
  BY <1>2, FunctionIsSeq, LenProperties
<1> QED
  BY <1>3 DEF CopyTo

(* std::vector::resize() to a larger size keeps what is there. *)
LEMMA ResizeCorrect ==
  ASSUME NEW S, Zero \in S, NEW vector \in Seq(S),
         NEW size \in Nat, Len(vector) <= size
  PROVE  /\ Resize(vector, size) \in Seq(S)
         /\ Len(Resize(vector, size)) = size
         /\ \A i \in 1 .. Len(vector) : Resize(vector, size)[i] = vector[i]
<1>1. Len(vector) \in Nat
  BY LenProperties
<1>2. ASSUME NEW i \in 1 .. size
      PROVE  (IF i <= Len(vector) THEN vector[i] ELSE Zero) \in S
  BY <1>1, ElementOfSeq
<1>3. Resize(vector, size) \in [1 .. size -> S]
  BY <1>2 DEF Resize
<1>4. Resize(vector, size) \in Seq(S) /\ Len(Resize(vector, size)) = size
  BY <1>3, FunctionIsSeq
<1> QED
  BY <1>1, <1>4 DEF Resize

(* What can be read is as long as the indices say, place by place. *)
LEMMA ContentsProperties ==
  ASSUME NEW S, NEW b, IsBuffer(b, S)
  PROVE  /\ Contents(b) \in Seq(S)
         /\ Len(Contents(b)) = ReadableBytes(b)
         /\ ReadableBytes(b) \in Nat
         /\ WritableBytes(b) \in Nat
         /\ \A i \in 1 .. ReadableBytes(b) :
              Contents(b)[i] = b.buffer_[b.readerIndex_ + i]
<1> DEFINE r == b.readerIndex_
           w == b.writerIndex_
<1>1. b.buffer_ \in Seq(S) /\ r \in Nat /\ w \in Nat /\ Len(b.buffer_) \in Nat
  BY LenProperties DEF IsBuffer
<1>2. r <= w /\ w <= Len(b.buffer_)
  BY DEF IsBuffer
<1>3. \A i \in r + 1 .. w : b.buffer_[i] \in S
  BY <1>1, <1>2, ElementOfSeq
<1>4. /\ SubSeq(b.buffer_, r + 1, w) \in Seq(S)
      /\ Len(SubSeq(b.buffer_, r + 1, w)) =
           (IF r + 1 <= w THEN w - (r + 1) + 1 ELSE 0)
      /\ \A i \in 1 .. w - (r + 1) + 1 :
           SubSeq(b.buffer_, r + 1, w)[i] = b.buffer_[r + 1 + i - 1]
  <2>1. r + 1 \in Int /\ w \in Int
    BY <1>1
  <2> QED
    BY <1>3, <2>1, SubSeqProperties
<1> HIDE DEF r, w
<1>5. /\ Contents(b) = SubSeq(b.buffer_, r + 1, w)
      /\ ReadableBytes(b) = w - r
      /\ WritableBytes(b) = Len(b.buffer_) - w
  BY DEF Contents, ReadableBytes, WritableBytes, r, w
<1>6. (IF r + 1 <= w THEN w - (r + 1) + 1 ELSE 0) = w - r
  BY <1>1, <1>2
<1>7. w - r \in Nat /\ Len(b.buffer_) - w \in Nat
  BY <1>1, <1>2
<1>8. ASSUME NEW i \in 1 .. w - r
       PROVE  SubSeq(b.buffer_, r + 1, w)[i] = b.buffer_[r + i]
  <2>1. i \in 1 .. w - (r + 1) + 1
    BY <1>1
  <2>2. SubSeq(b.buffer_, r + 1, w)[i] = b.buffer_[r + 1 + i - 1]
    BY <2>1, <1>4
  <2>3. r + 1 + i - 1 = r + i
    BY <1>1
  <2> QED
    BY <2>2, <2>3
<1> QED
  BY <1>4, <1>5, <1>6, <1>7, <1>8 DEF r

(* A new buffer is one, with nothing in it (the assertions of the          *)
(* constructor, Buffer.cpp:18-20).                                         *)
LEMMA NewBufferIsEmpty ==
  ASSUME NEW S, Zero \in S
  PROVE  IsBuffer(NewBuffer, S) /\ Contents(NewBuffer) = <<>>
<1> DEFINE n == kCheapPrepend + kInitialSize
           f == [i \in 1 .. n |-> Zero]
<1>1. n \in Nat /\ kCheapPrepend \in Nat /\ kCheapPrepend <= n
  BY SizesAssumption
<1>2. f \in Seq(S) /\ Len(f) = n
  BY <1>1, FunctionIsSeq
<1>3. IsBuffer(NewBuffer, S)
  BY <1>1, <1>2 DEF IsBuffer, NewBuffer
<1>4. SubSeq(f, kCheapPrepend + 1, kCheapPrepend) = <<>>
  BY <1>1, SubSeqEmpty
<1> QED
  BY <1>3, <1>4 DEF NewBuffer, Contents

(* Writing behind the readable region, where there is room, appends to what *)
(* can be read.                                                             *)
LEMMA WriteCorrect ==
  ASSUME NEW S, NEW b, IsBuffer(b, S), NEW data \in Seq(S),
         Len(data) <= WritableBytes(b)
  PROVE  /\ IsBuffer(Write(b, data), S)
         /\ Contents(Write(b, data)) = Contents(b) \o data
         /\ WritableBytes(Write(b, data)) = WritableBytes(b) - Len(data)
<1> DEFINE v == b.buffer_
           r == b.readerIndex_
           w == b.writerIndex_
           d == Write(b, data)
           copy == CopyTo(v, w, data)
<1>1. v \in Seq(S) /\ r \in Nat /\ w \in Nat /\ Len(v) \in Nat
      /\ Len(data) \in Nat
  BY LenProperties DEF IsBuffer
<1>2. kCheapPrepend <= Len(v) /\ r <= w /\ w + Len(data) <= Len(v)
  BY <1>1 DEF IsBuffer, WritableBytes
<1>3. /\ copy \in Seq(S)
      /\ Len(copy) = Len(v)
      /\ \A i \in 1 .. Len(v) :
           copy[i] = IF i \in w + 1 .. w + Len(data) THEN data[i - w] ELSE v[i]
  BY <1>1, <1>2, CopyToCorrect
<1>4. b = [buffer_ |-> v, readerIndex_ |-> r, writerIndex_ |-> w]
  BY DEF IsBuffer
<1>5. d = [b EXCEPT !.buffer_ = copy, !.writerIndex_ = w + Len(data)]
  BY DEF Write
<1>6. d = [buffer_ |-> copy, readerIndex_ |-> r, writerIndex_ |-> w + Len(data)]
  <2> HIDE DEF v, r, w, d, copy
  <2> QED
    BY <1>4, <1>5
<1> HIDE DEF v, r, w, d, copy
<1>7. IsBuffer(d, S)
  BY <1>1, <1>2, <1>3, <1>6, SizesAssumption DEF IsBuffer
<1>8. WritableBytes(d) = WritableBytes(b) - Len(data)
  BY <1>1, <1>3, <1>6 DEF WritableBytes, v, w
<1>9. ReadableBytes(b) = w - r /\ ReadableBytes(d) = w - r + Len(data)
  BY <1>1, <1>6 DEF ReadableBytes, r, w
<1>10. /\ Contents(b) \in Seq(S) /\ Len(Contents(b)) = w - r
      /\ \A i \in 1 .. w - r : Contents(b)[i] = v[r + i]
  BY <1>9, ContentsProperties DEF v, r
<1>11. /\ Contents(d) \in Seq(S) /\ Len(Contents(d)) = w - r + Len(data)
      /\ \A i \in 1 .. w - r + Len(data) : Contents(d)[i] = copy[r + i]
  BY <1>6, <1>7, <1>9, ContentsProperties
<1>12. /\ Contents(b) \o data \in Seq(S)
       /\ Len(Contents(b) \o data) = w - r + Len(data)
       /\ \A i \in 1 .. w - r + Len(data) : (Contents(b) \o data)[i] =
            IF i <= w - r THEN Contents(b)[i] ELSE data[i - (w - r)]
  <2>1. /\ Contents(b) \o data \in Seq(S)
        /\ Len(Contents(b) \o data) = Len(Contents(b)) + Len(data)
        /\ \A i \in 1 .. Len(Contents(b)) + Len(data) :
             (Contents(b) \o data)[i] =
               IF i <= Len(Contents(b)) THEN Contents(b)[i]
                                        ELSE data[i - Len(Contents(b))]
    BY <1>10, ConcatProperties
  <2> QED
    BY <1>10, <2>1
<1>13. ASSUME NEW i \in 1 .. w - r + Len(data)
       PROVE  Contents(d)[i] = (Contents(b) \o data)[i]
  <2>1. Contents(d)[i] = copy[r + i]
    BY <1>11
  <2>2. r + i \in 1 .. Len(v)
    BY <1>1, <1>2
  <2>3. CASE i <= w - r
    <3>1. ~(r + i \in w + 1 .. w + Len(data)) /\ i \in 1 .. w - r
      BY <1>1, <2>3
    <3>2. copy[r + i] = v[r + i]
      BY <1>3, <2>2, <3>1
    <3>3. (Contents(b) \o data)[i] = v[r + i]
      BY <1>10, <1>12, <2>3, <3>1
    <3> QED
      BY <2>1, <3>2, <3>3
  <2>4. CASE ~(i <= w - r)
    <3>1. r + i \in w + 1 .. w + Len(data)
      BY <1>1, <1>2, <2>4
    <3>2. copy[r + i] = data[i - (w - r)]
      <4>1. copy[r + i] = data[(r + i) - w]
        BY <1>3, <2>2, <3>1
      <4>2. (r + i) - w = i - (w - r)
        BY <1>1
      <4> QED
        BY <4>1, <4>2
    <3>3. (Contents(b) \o data)[i] = data[i - (w - r)]
      BY <1>12, <2>4
    <3> QED
      BY <2>1, <3>2, <3>3
  <2> QED
    BY <2>3, <2>4
<1>14. Contents(d) = Contents(b) \o data
  BY <1>11, <1>12, <1>13, SeqEqual
<1> QED
  BY <1>7, <1>8, <1>14 DEF d

---------------------------------------------------------------------------
(* makeSpace() moves the readable region only when it is not at the front   *)
(* already: the assertion of Buffer.cpp:289.                                *)
LEMMA MakeSpaceMovesForward ==
  ASSUME NEW S, NEW b, IsBuffer(b, S), NEW len \in Nat,
         WritableBytes(b) < len,
         ~(WritableBytes(b) + PrependableBytes(b) < len + kCheapPrepend)
  PROVE  kCheapPrepend < b.readerIndex_
<1>1. WritableBytes(b) \in Nat /\ PrependableBytes(b) \in Nat
      /\ kCheapPrepend \in Nat
  BY ContentsProperties, SizesAssumption DEF IsBuffer, PrependableBytes
<1> QED
  BY <1>1 DEF PrependableBytes

(* makeSpace() makes room for len bytes (the assertion of Buffer.cpp:161)   *)
(* and leaves what can be read as it was, whether the vector grows or its   *)
(* readable region moves to the front.                                      *)
LEMMA MakeSpaceCorrect ==
  ASSUME NEW S, Zero \in S, NEW b, IsBuffer(b, S), NEW len \in Nat,
         WritableBytes(b) < len
  PROVE  /\ IsBuffer(MakeSpace(b, len), S)
         /\ Contents(MakeSpace(b, len)) = Contents(b)
         /\ len <= WritableBytes(MakeSpace(b, len))
<1> DEFINE v == b.buffer_
           r == b.readerIndex_
           w == b.writerIndex_
           m == MakeSpace(b, len)
<1>1. v \in Seq(S) /\ r \in Nat /\ w \in Nat /\ Len(v) \in Nat
      /\ kCheapPrepend \in Nat
  BY LenProperties, SizesAssumption DEF IsBuffer
<1>2. kCheapPrepend <= Len(v) /\ r <= w /\ w <= Len(v) /\ Len(v) < w + len
  BY <1>1 DEF IsBuffer, WritableBytes
<1>3. ReadableBytes(b) = w - r /\ WritableBytes(b) = Len(v) - w
      /\ PrependableBytes(b) = r
  BY DEF ReadableBytes, WritableBytes, PrependableBytes
<1>4. /\ Contents(b) \in Seq(S) /\ Len(Contents(b)) = w - r
      /\ \A i \in 1 .. w - r : Contents(b)[i] = v[r + i]
  BY <1>3, ContentsProperties
<1>5. CASE WritableBytes(b) + PrependableBytes(b) < len + kCheapPrepend
  <2> DEFINE grown == Resize(v, w + len)
  <2>1. b = [buffer_ |-> v, readerIndex_ |-> r, writerIndex_ |-> w]
    BY DEF IsBuffer
  <2>2. m = [b EXCEPT !.buffer_ = grown]
    BY <1>5 DEF MakeSpace
  <2>3. /\ grown \in Seq(S) /\ Len(grown) = w + len
        /\ \A i \in 1 .. Len(v) : grown[i] = v[i]
    <3>1. w + len \in Nat /\ Len(v) <= w + len
      BY <1>1, <1>2
    <3> QED
      BY <1>1, <3>1, ResizeCorrect
  <2> HIDE DEF v, r, w, m, grown
  <2>4. m = [buffer_ |-> grown, readerIndex_ |-> r, writerIndex_ |-> w]
    BY <2>1, <2>2
  <2>5. IsBuffer(m, S) /\ len <= WritableBytes(m)
    BY <1>1, <1>2, <2>3, <2>4 DEF IsBuffer, WritableBytes
  <2>6. ReadableBytes(m) = w - r
    BY <2>4 DEF ReadableBytes
  <2>7. /\ Contents(m) \in Seq(S) /\ Len(Contents(m)) = w - r
        /\ \A i \in 1 .. w - r : Contents(m)[i] = grown[r + i]
    BY <2>4, <2>5, <2>6, ContentsProperties
  <2>8. ASSUME NEW i \in 1 .. w - r
        PROVE  Contents(m)[i] = Contents(b)[i]
    <3>1. r + i \in 1 .. Len(v)
      BY <1>1, <1>2
    <3> QED
      BY <1>4, <2>3, <2>7, <3>1
  <2>9. Contents(m) = Contents(b)
    BY <1>4, <2>7, <2>8, SeqEqual
  <2> QED
    BY <2>5, <2>9 DEF m
<1>6. CASE ~(WritableBytes(b) + PrependableBytes(b) < len + kCheapPrepend)
  <2> DEFINE c == kCheapPrepend
             moved == CopyTo(v, c, Contents(b))
  <2>1. c + (w - r) + len <= Len(v) /\ c <= r
    BY <1>1, <1>2, <1>3, <1>6
  <2>2. /\ moved \in Seq(S) /\ Len(moved) = Len(v)
        /\ \A i \in 1 .. Len(v) :
             moved[i] = IF i \in c + 1 .. c + Len(Contents(b))
                        THEN Contents(b)[i - c] ELSE v[i]
    <3>1. c + Len(Contents(b)) <= Len(v)
      BY <1>1, <1>2, <1>4, <2>1
    <3> QED
      BY <1>1, <1>4, <3>1, CopyToCorrect
  <2>3. m = [buffer_ |-> moved, readerIndex_ |-> c, writerIndex_ |-> c + (w - r)]
    BY <1>3, <1>6 DEF MakeSpace
  <2> HIDE DEF v, r, w, m, moved, c
  <2>4. c \in Nat /\ c <= r /\ c = kCheapPrepend
    BY <1>1, <2>1 DEF c
  <2>5. IsBuffer(m, S) /\ len <= WritableBytes(m)
    BY <1>1, <1>2, <2>1, <2>2, <2>3, <2>4 DEF IsBuffer, WritableBytes
  <2>6. ReadableBytes(m) = w - r
    BY <1>1, <2>3, <2>4 DEF ReadableBytes
  <2>7. /\ Contents(m) \in Seq(S) /\ Len(Contents(m)) = w - r
        /\ \A i \in 1 .. w - r : Contents(m)[i] = moved[c + i]
    BY <2>3, <2>5, <2>6, ContentsProperties
  <2>8. ASSUME NEW i \in 1 .. w - r
        PROVE  Contents(m)[i] = Contents(b)[i]
    <3>1. /\ c + i \in 1 .. Len(v)
          /\ c + i \in c + 1 .. c + Len(Contents(b))
      BY <1>1, <1>2, <1>4, <2>1, <2>4
    <3>2. moved[c + i] = Contents(b)[(c + i) - c]
      BY <2>2, <3>1
    <3>3. (c + i) - c = i
      BY <2>4
    <3> QED
      BY <2>7, <3>2, <3>3
  <2>9. Contents(m) = Contents(b)
    BY <1>4, <2>7, <2>8, SeqEqual
  <2> QED
    BY <2>5, <2>9 DEF m
<1> QED
  BY <1>5, <1>6

(* append() adds its bytes behind what could be read, and nothing else      *)
(* changes (Buffer.cpp:133-137).                                            *)
THEOREM AppendCorrect ==
  ASSUME NEW S, Zero \in S, NEW b, IsBuffer(b, S), NEW data \in Seq(S)
  PROVE  /\ IsBuffer(AppendData(b, data), S)
         /\ Contents(AppendData(b, data)) = Contents(b) \o data
<1> DEFINE e == EnsureWritableBytes(b, Len(data))
<1>1. Len(data) \in Nat /\ WritableBytes(b) \in Nat
  BY LenProperties, ContentsProperties
<1>2. IsBuffer(e, S) /\ Contents(e) = Contents(b)
      /\ Len(data) <= WritableBytes(e)
  <2>1. CASE WritableBytes(b) < Len(data)
    BY <1>1, <2>1, MakeSpaceCorrect DEF EnsureWritableBytes
  <2>2. CASE ~(WritableBytes(b) < Len(data))
    BY <1>1, <2>2 DEF EnsureWritableBytes
  <2> QED
    BY <2>1, <2>2
<1> HIDE DEF e
<1>3. /\ IsBuffer(Write(e, data), S)
      /\ Contents(Write(e, data)) = Contents(e) \o data
  BY <1>2, WriteCorrect
<1> QED
  BY <1>2, <1>3 DEF AppendData, e

(* retrieve() takes exactly the first len bytes, also when it takes the     *)
(* last and sends the indices back to the start (Buffer.cpp:80-87).         *)
THEOREM RetrieveCorrect ==
  ASSUME NEW S, NEW b, IsBuffer(b, S), NEW len \in 0 .. ReadableBytes(b)
  PROVE  /\ IsBuffer(Retrieve(b, len), S)
         /\ ReadableBytes(Retrieve(b, len)) = ReadableBytes(b) - len
         /\ Contents(Retrieve(b, len)) =
              SubSeq(Contents(b), len + 1, ReadableBytes(b))
<1> DEFINE v == b.buffer_
           r == b.readerIndex_
           w == b.writerIndex_
           t == Retrieve(b, len)
<1>1. v \in Seq(S) /\ r \in Nat /\ w \in Nat /\ Len(v) \in Nat
      /\ kCheapPrepend \in Nat /\ len \in Nat
  BY LenProperties, ContentsProperties, SizesAssumption DEF IsBuffer
<1>2. kCheapPrepend <= Len(v) /\ r <= w /\ w <= Len(v)
  BY <1>1 DEF IsBuffer
<1>3. ReadableBytes(b) = w - r /\ len <= w - r
  BY <1>1, <1>2 DEF ReadableBytes
<1>4. b = [buffer_ |-> v, readerIndex_ |-> r, writerIndex_ |-> w]
  BY DEF IsBuffer
<1>5. /\ Contents(b) \in Seq(S) /\ Len(Contents(b)) = w - r
      /\ \A i \in 1 .. w - r : Contents(b)[i] = v[r + i]
  BY <1>3, ContentsProperties
<1>6. CASE len < ReadableBytes(b)
  <2>1. t = [b EXCEPT !.readerIndex_ = r + len]
    BY <1>6 DEF Retrieve
  <2> HIDE DEF v, r, w, t
  <2>2. t = [buffer_ |-> v, readerIndex_ |-> r + len, writerIndex_ |-> w]
    BY <1>4, <2>1
  <2>3. IsBuffer(t, S)
    BY <1>1, <1>2, <1>3, <2>2 DEF IsBuffer
  <2>4. ReadableBytes(t) = w - r - len
    BY <1>1, <2>2 DEF ReadableBytes
  <2>5. /\ Contents(t) \in Seq(S) /\ Len(Contents(t)) = w - r - len
        /\ \A i \in 1 .. w - r - len : Contents(t)[i] = v[r + len + i]
    BY <2>2, <2>3, <2>4, ContentsProperties
  <2> DEFINE rest == SubSeq(Contents(b), len + 1, w - r)
  <2>6. /\ rest \in Seq(S) /\ Len(rest) = w - r - len
        /\ \A i \in 1 .. w - r - len : rest[i] = Contents(b)[len + i]
    <3>1. \A i \in len + 1 .. w - r : Contents(b)[i] \in S
      BY <1>1, <1>5, ElementOfSeq
    <3>2. /\ rest \in Seq(S)
          /\ Len(rest) = (IF len + 1 <= w - r THEN w - r - (len + 1) + 1 ELSE 0)
          /\ \A i \in 1 .. w - r - (len + 1) + 1 :
               rest[i] = Contents(b)[len + 1 + i - 1]
      <4>1. len + 1 \in Int /\ w - r \in Int
        BY <1>1
      <4> QED
        BY <3>1, <4>1, SubSeqProperties
    <3> HIDE DEF rest
    <3>3. Len(rest) = w - r - len
      BY <1>1, <1>3, <3>2
    <3>4. ASSUME NEW i \in 1 .. w - r - len
          PROVE  rest[i] = Contents(b)[len + i]
      <4>1. i \in 1 .. w - r - (len + 1) + 1
        BY <1>1
      <4>2. rest[i] = Contents(b)[len + 1 + i - 1]
        BY <3>2, <4>1
      <4>3. len + 1 + i - 1 = len + i
        BY <1>1
      <4> QED
        BY <4>2, <4>3
    <3> QED
      BY <3>2, <3>3, <3>4
  <2> HIDE DEF rest
  <2>7. ASSUME NEW i \in 1 .. w - r - len
        PROVE  Contents(t)[i] = rest[i]
    <3>1. len + i \in 1 .. w - r /\ r + (len + i) = r + len + i
      BY <1>1
    <3>2. Contents(b)[len + i] = v[r + (len + i)]
      BY <1>5, <3>1
    <3> QED
      BY <2>5, <2>6, <3>1, <3>2
  <2>8. Contents(t) = rest
    BY <2>5, <2>6, <2>7, SeqEqual
  <2> QED
    BY <1>3, <2>3, <2>4, <2>8 DEF t, rest
<1>7. CASE ~(len < ReadableBytes(b))
  <2>1. len = w - r
    BY <1>1, <1>3, <1>7
  <2>2. t = [b EXCEPT !.readerIndex_ = kCheapPrepend,
                      !.writerIndex_ = kCheapPrepend]
    BY <1>7 DEF Retrieve, RetrieveAll
  <2> HIDE DEF v, r, w, t
  <2>3. t = [buffer_ |-> v, readerIndex_ |-> kCheapPrepend,
             writerIndex_ |-> kCheapPrepend]
    BY <1>4, <2>2
  <2>4. IsBuffer(t, S) /\ ReadableBytes(t) = 0
    <3>1. kCheapPrepend <= Len(v) /\ kCheapPrepend - kCheapPrepend = 0
      BY <1>1, <1>2
    <3> QED
      BY <1>1, <2>3, <3>1 DEF IsBuffer, ReadableBytes
  <2>5. Contents(t) = <<>>
    <3>1. SubSeq(v, kCheapPrepend + 1, kCheapPrepend) = <<>>
      BY <1>1, SubSeqEmpty
    <3> QED
      BY <2>3, <3>1 DEF Contents
  <2>6. SubSeq(Contents(b), len + 1, w - r) = <<>>
    BY <1>1, <2>1, SubSeqEmpty
  <2>7. ReadableBytes(b) - len = 0
    BY <1>1, <1>3, <2>1
  <2> QED
    BY <1>3, <2>4, <2>5, <2>6, <2>7 DEF t
<1> QED
  BY <1>6, <1>7

(* readFd() appends exactly what readv(2) delivered, also when a part of it *)
(* went round through extrabuf (Buffer.cpp:257-271).                        *)
THEOREM ReadFdCorrect ==
  ASSUME NEW S, Zero \in S, NEW b, IsBuffer(b, S), NEW data \in Seq(S)
  PROVE  /\ IsBuffer(ReadFd(b, data), S)
         /\ Contents(ReadFd(b, data)) = Contents(b) \o data
<1> DEFINE n == WritableBytes(b)
<1>1. n \in Nat /\ Len(data) \in Nat /\ Contents(b) \in Seq(S)
  BY ContentsProperties, LenProperties
<1>2. CASE Len(data) <= n
  BY <1>2, WriteCorrect DEF ReadFd
<1>3. CASE ~(Len(data) <= n)
  <2> DEFINE first == SubSeq(data, 1, n)
             rest  == SubSeq(data, n + 1, Len(data))
             full  == Write(b, first)
  <2>1. first \in Seq(S) /\ Len(first) = n /\ rest \in Seq(S)
    <3>1. \A i \in 1 .. Len(data) : data[i] \in S
      BY ElementOfSeq
    <3>2. /\ \A i \in 1 .. n : data[i] \in S
          /\ \A i \in n + 1 .. Len(data) : data[i] \in S
      BY <1>1, <1>3, <3>1
    <3>3. /\ first \in Seq(S)
          /\ Len(first) = IF 1 <= n THEN n - 1 + 1 ELSE 0
      BY <1>1, <3>2, SubSeqProperties
    <3>4. rest \in Seq(S)
      BY <1>1, <3>2, SubSeqProperties
    <3> HIDE DEF first, rest
    <3> QED
      BY <1>1, <3>3, <3>4
  <2>2. first \o rest = data
    <3>1. SubSeq(data, 1, n) \o SubSeq(data, n + 1, Len(data)) =
            SubSeq(data, 1, Len(data))
      <4>1. 1 \in 1 .. Len(data) + 1 /\ n \in 1 - 1 .. Len(data)
            /\ Len(data) \in n .. Len(data)
        BY <1>1, <1>3
      <4> QED
        BY <4>1, ConcatAdjacentSubSeq
    <3> QED
      BY <3>1, SubSeqFull
  <2>3. ReadFd(b, data) = AppendData(full, rest)
    BY <1>3 DEF ReadFd
  <2> HIDE DEF first, rest, full
  <2>4. IsBuffer(full, S) /\ Contents(full) = Contents(b) \o first
    BY <1>1, <2>1, WriteCorrect DEF full
  <2>5. /\ IsBuffer(AppendData(full, rest), S)
        /\ Contents(AppendData(full, rest)) = Contents(full) \o rest
    BY <2>1, <2>4, AppendCorrect
  <2>6. (Contents(b) \o first) \o rest = Contents(b) \o (first \o rest)
    BY <1>1, <2>1, ConcatAssociative
  <2> QED
    BY <2>2, <2>3, <2>4, <2>5, <2>6
<1> QED
  BY <1>2, <1>3

---------------------------------------------------------------------------
(* prepend() puts its bytes before what can be read, as often as there is  *)
(* room in front, and changes nothing behind (Buffer.cpp:222-227).         *)
THEOREM PrependCorrect ==
  ASSUME NEW S, NEW b, IsBuffer(b, S), NEW data \in Seq(S),
         Len(data) <= PrependableBytes(b)
  PROVE  /\ IsBuffer(Prepend(b, data), S)
         /\ Contents(Prepend(b, data)) = data \o Contents(b)
         /\ WritableBytes(Prepend(b, data)) = WritableBytes(b)
<1> DEFINE v == b.buffer_
           r == b.readerIndex_
           w == b.writerIndex_
           n == Len(data)
           p == Prepend(b, data)
           copy == CopyTo(v, r - n, data)
<1>1. v \in Seq(S) /\ r \in Nat /\ w \in Nat /\ Len(v) \in Nat /\ n \in Nat
  BY LenProperties DEF IsBuffer
<1>2. kCheapPrepend <= Len(v) /\ r <= w /\ w <= Len(v) /\ n <= r
  BY <1>1 DEF IsBuffer, PrependableBytes
<1>3. /\ copy \in Seq(S)
      /\ Len(copy) = Len(v)
      /\ \A i \in 1 .. Len(v) :
           copy[i] = IF i \in r - n + 1 .. r - n + n THEN data[i - (r - n)] ELSE v[i]
  <2> DEFINE a == r - n
  <2>1. a \in Nat /\ a + Len(data) <= Len(v)
    BY <1>1, <1>2
  <2> HIDE DEF a
  <2>2. /\ CopyTo(v, a, data) \in Seq(S)
        /\ Len(CopyTo(v, a, data)) = Len(v)
        /\ \A i \in 1 .. Len(v) :
             CopyTo(v, a, data)[i] =
               IF i \in a + 1 .. a + Len(data) THEN data[i - a] ELSE v[i]
    BY <1>1, <2>1, CopyToCorrect
  <2> QED
    BY <2>2 DEF a
<1>4. b = [buffer_ |-> v, readerIndex_ |-> r, writerIndex_ |-> w]
  BY DEF IsBuffer
<1>5. p = [b EXCEPT !.buffer_ = copy, !.readerIndex_ = r - n]
  BY DEF Prepend
<1>6. /\ ReadableBytes(b) = w - r
      /\ Contents(b) \in Seq(S) /\ Len(Contents(b)) = w - r
      /\ \A i \in 1 .. w - r : Contents(b)[i] = v[r + i]
  BY ContentsProperties DEF ReadableBytes
<1>7. WritableBytes(b) = Len(v) - w
  BY DEF WritableBytes
<1>8. n = Len(data)
  OBVIOUS
<1> HIDE DEF v, r, w, n, p, copy
<1>9. p = [buffer_ |-> copy, readerIndex_ |-> r - n, writerIndex_ |-> w]
  BY <1>4, <1>5
<1>10. IsBuffer(p, S)
  BY <1>1, <1>2, <1>3, <1>9 DEF IsBuffer
<1>11. WritableBytes(p) = WritableBytes(b)
  BY <1>3, <1>7, <1>9 DEF WritableBytes
<1>12. ReadableBytes(p) = n + (w - r)
  BY <1>1, <1>9 DEF ReadableBytes
<1>13. /\ Contents(p) \in Seq(S) /\ Len(Contents(p)) = n + (w - r)
       /\ \A i \in 1 .. n + (w - r) : Contents(p)[i] = copy[r - n + i]
  BY <1>9, <1>10, <1>12, ContentsProperties
<1>14. /\ data \o Contents(b) \in Seq(S)
       /\ Len(data \o Contents(b)) = n + (w - r)
       /\ \A i \in 1 .. n + (w - r) : (data \o Contents(b))[i] =
            IF i <= n THEN data[i] ELSE Contents(b)[i - n]
  <2>1. /\ data \o Contents(b) \in Seq(S)
        /\ Len(data \o Contents(b)) = Len(data) + Len(Contents(b))
        /\ \A i \in 1 .. Len(data) + Len(Contents(b)) :
             (data \o Contents(b))[i] =
               IF i <= Len(data) THEN data[i] ELSE Contents(b)[i - Len(data)]
    BY <1>6, ConcatProperties
  <2> QED
    BY <1>6, <1>8, <2>1
<1>15. ASSUME NEW i \in 1 .. n + (w - r)
       PROVE  Contents(p)[i] = (data \o Contents(b))[i]
  <2>1. r - n + i \in 1 .. Len(v) /\ Contents(p)[i] = copy[r - n + i]
    BY <1>1, <1>2, <1>13
  <2>2. CASE i <= n
    <3>1. r - n + i \in r - n + 1 .. r - n + n /\ (r - n + i) - (r - n) = i
      BY <1>1, <2>2
    <3>2. copy[r - n + i] = data[(r - n + i) - (r - n)]
      BY <1>3, <2>1, <3>1
    <3> QED
      BY <1>14, <2>1, <2>2, <3>1, <3>2
  <2>3. CASE ~(i <= n)
    <3>1. /\ ~(r - n + i \in r - n + 1 .. r - n + n)
          /\ i - n \in 1 .. w - r /\ r + (i - n) = r - n + i
      BY <1>1, <1>2, <2>3
    <3>2. copy[r - n + i] = v[r - n + i]
      BY <1>3, <2>1, <3>1
    <3>3. Contents(b)[i - n] = v[r + (i - n)]
      BY <1>6, <3>1
    <3> QED
      BY <1>14, <2>1, <2>3, <3>1, <3>2, <3>3
  <2> QED
    BY <2>2, <2>3
<1>16. Contents(p) = data \o Contents(b)
  BY <1>13, <1>14, <1>15, SeqEqual
<1> QED
  BY <1>10, <1>11, <1>16 DEF p

(* shrink() makes the room it promises (Buffer.h:257-268), but nothing of  *)
(* what could be read is in the new vector (Buffer.cpp:229-233).           *)
THEOREM ShrinkForgets ==
  ASSUME NEW S, Zero \in S, NEW b, IsBuffer(b, S), NEW reserve \in Nat
  PROVE  /\ IsBuffer(Shrink(b, reserve), S)
         /\ ReadableBytes(b) + reserve <= WritableBytes(Shrink(b, reserve))
         /\ Contents(Shrink(b, reserve)) = <<>>
<1> DEFINE len == ReadableBytes(b) + reserve
<1>1. len \in Nat
  BY ContentsProperties
<1>2. IsBuffer(NewBuffer, S) /\ Contents(NewBuffer) = <<>>
  BY NewBufferIsEmpty
<1>3. WritableBytes(NewBuffer) \in Nat
  BY <1>2, ContentsProperties
<1> HIDE DEF len
<1>4. CASE WritableBytes(NewBuffer) < len
  BY <1>1, <1>2, <1>4, MakeSpaceCorrect DEF EnsureWritableBytes, Shrink, len
<1>5. CASE ~(WritableBytes(NewBuffer) < len)
  BY <1>1, <1>2, <1>3, <1>5 DEF EnsureWritableBytes, Shrink, len
<1> QED
  BY <1>4, <1>5

---------------------------------------------------------------------------
(* A number is its last byte and what is above it. *)
LEMMA LastByte ==
  ASSUME NEW x \in Int
  PROVE  /\ x % 256 \in Byte /\ x \div 256 \in Int
         /\ x = (256 * (x \div 256)) + (x % 256)
BY DEF Byte

LEMMA Bytes16AreBytes ==
  ASSUME NEW x \in Int
  PROVE  Bytes16(x) \in Seq(Byte) /\ Len(Bytes16(x)) = 2
<1> DEFINE h == (x \div 256) % 256
           l == x % 256
<1>1. h \in Byte /\ l \in Byte
  BY LastByte
<1> HIDE DEF h, l
<1>2. <<h, l>> \in Seq(Byte) /\ Len(<<h, l>>) = 2
  BY <1>1
<1> QED
  BY <1>2 DEF Bytes16, h, l

(* What a concatenation begins with.                                       *)
LEMMA ConcatBegins ==
  ASSUME NEW S, NEW s \in Seq(S), NEW t \in Seq(S), NEW i \in 1 .. Len(s)
  PROVE  (s \o t)[i] = s[i]
<1>1. Len(s) \in Nat /\ Len(t) \in Nat
  BY LenProperties
<1>2. i \in 1 .. Len(s) + Len(t)
  BY <1>1
<1> QED
  BY <1>1, <1>2, ConcatProperties

(* A signed number that fits is what the cast back makes of its two bytes. *)
LEMMA SignedCorrect ==
  ASSUME NEW x \in Int, -32768 <= x, x < 32768, NEW k \in Int,
         NEW h \in Int, 0 <= h, h <= 255, NEW l \in Int, 0 <= l, l <= 255,
         x = (65536 * k) + (256 * h) + l
  PROVE  Signed((256 * h) + l, 65536) = x
<1>1. k = 0 \/ k = -1
  OBVIOUS
<1> QED
  BY <1>1 DEF Signed

(* The two bytes of a number that fits make it again.                     *)
LEMMA Bytes16Number ==
  ASSUME NEW x \in Int, -32768 <= x, x < 32768
  PROVE  \E h \in Int, l \in Int :
           Bytes16(x) = <<h, l>> /\ Signed((256 * h) + l, 65536) = x
<1> DEFINE q == x \div 256
           h == q % 256
           l == x % 256
           k == q \div 256
<1>1. l \in Byte /\ q \in Int /\ x = (256 * q) + l
  BY LastByte
<1>2. h \in Byte /\ k \in Int /\ q = (256 * k) + h
  BY <1>1, LastByte
<1>3. Bytes16(x) = <<h, l>>
  BY DEF Bytes16
<1> HIDE DEF q, h, l, k
<1>4. h \in Int /\ l \in Int /\ 0 <= h /\ h <= 255 /\ 0 <= l /\ l <= 255
  BY <1>1, <1>2 DEF Byte
<1>5. x = (65536 * k) + (256 * h) + l
  BY <1>1, <1>2, <1>4
<1>6. Signed((256 * h) + l, 65536) = x
  BY <1>2, <1>4, <1>5, SignedCorrect
<1> QED
  BY <1>3, <1>4, <1>6

(* A 16 bit integer that was put in front of what can be read, or into a   *)
(* buffer with nothing in it, is the one that is read next, negative ones   *)
(* too: it goes through the bytes in network order, and through a move or   *)
(* a growth of the vector (Buffer.cpp:148-151, 193-199, 213-216).           *)
THEOREM Int16ComesBack ==
  ASSUME NEW S, Zero \in S, Byte \subseteq S, NEW b, IsBuffer(b, S), NEW x \in Int16
  PROVE  /\ 2 <= PrependableBytes(b) => PeekInt16(PrependInt16(b, x)) = x
         /\ Contents(b) = <<>> => PeekInt16(AppendInt16(b, x)) = x
<1> DEFINE s == Bytes16(x)
<1>1. x \in Int /\ -32768 <= x /\ x < 32768
  BY DEF Int16
<1>2. PICK h \in Int, l \in Int : s = <<h, l>> /\ Signed((256 * h) + l, 65536) = x
  BY <1>1, Bytes16Number
<1>3. s \in Seq(Byte) /\ Len(s) = 2
  BY <1>1, Bytes16AreBytes
<1> HIDE DEF s
<1>4. s \in Seq(S)
  BY <1>3
<1>5. Contents(b) \in Seq(S)
  BY ContentsProperties
<1>6. ASSUME NEW c, NEW rest \in Seq(S), Contents(c) = s \o rest
      PROVE  PeekInt16(c) = x
  <2>1. Len(s) = 2 /\ s[1] = h /\ s[2] = l
    BY <1>2
  <2>2. 1 \in 1 .. Len(s) /\ 2 \in 1 .. Len(s)
    BY <2>1
  <2>3. (s \o rest)[1] = s[1] /\ (s \o rest)[2] = s[2]
    BY <1>4, <2>2, ConcatBegins
  <2>4. Contents(c)[1] = h /\ Contents(c)[2] = l
    BY <1>6, <2>1, <2>3
  <2>5. PeekInt16(c) = Signed((256 * h) + l, 65536)
    BY <2>4 DEF PeekInt16
  <2> QED
    BY <1>2, <2>5
<1>7. ASSUME 2 <= PrependableBytes(b)
      PROVE  PeekInt16(PrependInt16(b, x)) = x
  <2>1. Contents(Prepend(b, s)) = s \o Contents(b)
    BY <1>3, <1>4, <1>7, PrependCorrect
  <2>2. PeekInt16(Prepend(b, s)) = x
    BY <1>5, <1>6, <2>1
  <2> QED
    BY <2>2 DEF PrependInt16, s
<1>8. ASSUME Contents(b) = <<>>
      PROVE  PeekInt16(AppendInt16(b, x)) = x
  <2>1. Contents(AppendData(b, s)) = Contents(b) \o s
    BY <1>4, AppendCorrect
  <2>2. Contents(b) \o s = s /\ s \o <<>> = s /\ <<>> \in Seq(S)
    BY <1>4, <1>8, ConcatEmptySeq, EmptySeq
  <2>3. PeekInt16(AppendData(b, s)) = x
    BY <1>6, <2>1, <2>2
  <2> QED
    BY <2>3 DEF AppendInt16, s
<1> QED
  BY <1>7, <1>8

(* The number of four bytes, the highest first, and how many there are.     *)
Number32(g, h, k, l) == (256 * ((256 * ((256 * g) + h)) + k)) + l
Values32 == 65536 * 65536

(* What peekInt32() makes of the first four (Buffer.cpp:185-191).          *)
LEMMA PeekInt32Is ==
  ASSUME NEW b
  PROVE  PeekInt32(b) = Signed(Number32(Contents(b)[1], Contents(b)[2],
                                        Contents(b)[3], Contents(b)[4]), Values32)
BY DEF PeekInt32, Number32, Values32

(* The half of the bytes that is put first is that of the number above.     *)
UpperHalf(x) == x \div 65536

(* The bytes in network order are those of the two halves.                 *)
LEMMA Bytes32Is ==
  ASSUME NEW x
  PROVE  Bytes32(x) = Bytes16(UpperHalf(x)) \o Bytes16(x)
BY DEF Bytes32, UpperHalf

(* Two bytes and two more.                                                  *)
LEMMA TwoAndTwo ==
  ASSUME NEW S, NEW g \in S, NEW h \in S, NEW k \in S, NEW l \in S, NEW s,
         s = <<g, h>> \o <<k, l>>
  PROVE  s \in Seq(S) /\ Len(s) = 4 /\ s[1] = g /\ s[2] = h /\ s[3] = k /\ s[4] = l
<1> DEFINE u == <<g, h>>
           v == <<k, l>>
<1>1. u \in Seq(S) /\ Len(u) = 2 /\ u[1] = g /\ u[2] = h
  OBVIOUS
<1>2. v \in Seq(S) /\ Len(v) = 2 /\ v[1] = k /\ v[2] = l
  OBVIOUS
<1>3. s = u \o v
  OBVIOUS
<1> HIDE DEF u, v
<1>4. /\ u \o v \in Seq(S) /\ Len(u \o v) = Len(u) + Len(v)
      /\ \A i \in 1 .. Len(u) + Len(v) :
           (u \o v)[i] = IF i <= Len(u) THEN u[i] ELSE v[i - Len(u)]
  BY <1>1, <1>2, ConcatProperties
<1> QED
  BY <1>1, <1>2, <1>3, <1>4

(* Dividing by 256 twice is dividing by 65536.                              *)
LEMMA DividedTwice ==
  ASSUME NEW x \in Int
  PROVE  (x \div 256) \div 256 = x \div 65536
<1> DEFINE p == x \div 256
           q == p \div 256
           w == x \div 65536
<1>1. p \in Int /\ 256 * p <= x /\ x <= (256 * p) + 255
  OBVIOUS
<1>2. w \in Int /\ 65536 * w <= x /\ x <= (65536 * w) + 65535
  OBVIOUS
<1>3. q \in Int /\ 256 * q <= p /\ p <= (256 * q) + 255
  <2> HIDE DEF p
  <2> QED
    BY <1>1
<1>4. q = w
  <2> HIDE DEF p, q, w
  <2> QED
    BY <1>1, <1>2, <1>3
<1> QED
  BY <1>4

(* A signed number that fits is what the cast back makes of its four bytes. *)
LEMMA Signed32Correct ==
  ASSUME NEW x \in Int32, NEW m \in Int,
         NEW g \in Byte, NEW h \in Byte, NEW k \in Byte, NEW l \in Byte,
         x = (256 * ((256 * ((256 * ((256 * m) + g)) + h)) + k)) + l
  PROVE  Signed(Number32(g, h, k, l), Values32) = x
<1> DEFINE u == Number32(g, h, k, l)
<1>1. /\ g \in Int /\ 0 <= g /\ g <= 255 /\ h \in Int /\ 0 <= h /\ h <= 255
      /\ k \in Int /\ 0 <= k /\ k <= 255 /\ l \in Int /\ 0 <= l /\ l <= 255
  BY DEF Byte
<1>2. x \in Int /\ -2147483648 <= x /\ x < 2147483648
  BY DEF Int32
<1>3. u \in Int /\ 0 <= u /\ u < 4294967296 /\ x = (4294967296 * m) + u
  BY <1>1, <1>2 DEF Number32
<1>4. Values32 = 4294967296
  BY DEF Values32
<1> HIDE DEF u
<1>5. m = 0 \/ m = -1
  BY <1>2, <1>3
<1>6. x = IF 2 * u < 4294967296 THEN u ELSE u - 4294967296
  BY <1>2, <1>3, <1>5
<1>7. Signed(u, 4294967296) = x
  BY <1>6, SMT DEF Signed
<1> QED
  BY <1>4, <1>7, SMT DEF u

(* The four bytes of a number that fits make it again.                      *)
LEMMA Bytes32Number ==
  ASSUME NEW x \in Int32
  PROVE  \E b1 \in Byte, b2 \in Byte, b3 \in Byte, b4 \in Byte :
           /\ Bytes32(x) = <<b1, b2>> \o <<b3, b4>>
           /\ Signed(Number32(b1, b2, b3, b4), Values32) = x
<1> DEFINE p == x \div 256
           q == p \div 256
           r == q \div 256
           m == r \div 256
           l == x % 256
           k == p % 256
           h == q % 256
           g == r % 256
<1>1. x \in Int
  BY DEF Int32
<1>2. p \in Int /\ l \in Byte /\ x = (256 * p) + l
  BY <1>1, LastByte
<1>3. q \in Int /\ k \in Byte /\ p = (256 * q) + k
  BY <1>2, LastByte
<1>4. r \in Int /\ h \in Byte /\ q = (256 * r) + h
  BY <1>3, LastByte
<1>5. m \in Int /\ g \in Byte /\ r = (256 * m) + g
  BY <1>4, LastByte
<1>6. UpperHalf(x) = q
  BY <1>1, DividedTwice DEF UpperHalf
<1>7. Bytes16(x) = <<k, l>>
  BY Zenon DEF Bytes16
<1>8. Bytes16(q) = <<g, h>>
  <2> HIDE DEF p, q
  <2> QED
    BY Zenon DEF Bytes16
<1> HIDE DEF p, q, r, m, l, k, h, g
<1>9. Bytes32(x) = <<g, h>> \o <<k, l>>
  BY <1>6, <1>7, <1>8, Bytes32Is, Zenon
<1>10. x = (256 * ((256 * ((256 * ((256 * m) + g)) + h)) + k)) + l
  BY <1>2, <1>3, <1>4, <1>5
<1>11. Signed(Number32(g, h, k, l), Values32) = x
  BY <1>2, <1>3, <1>4, <1>5, <1>10, Signed32Correct
<1>12. g \in Byte /\ h \in Byte /\ k \in Byte /\ l \in Byte
  BY <1>2, <1>3, <1>4, <1>5
<1> QED
  BY <1>9, <1>11, <1>12, Zenon

(* A 32 bit integer that was put in front of what can be read, or into a    *)
(* buffer with nothing in it, is the one that is read next, negative ones   *)
(* too: it goes through the bytes in network order, and through a move or   *)
(* a growth of the vector (Buffer.cpp:143-146, 185-191, 208-211).           *)
THEOREM Int32ComesBack ==
  ASSUME NEW S, Zero \in S, Byte \subseteq S, NEW b, IsBuffer(b, S), NEW x \in Int32
  PROVE  /\ 4 <= PrependableBytes(b) => PeekInt32(PrependInt32(b, x)) = x
         /\ Contents(b) = <<>> => PeekInt32(AppendInt32(b, x)) = x
<1> DEFINE s == Bytes32(x)
<1>1. PICK g \in Byte, h \in Byte, k \in Byte, l \in Byte :
        /\ s = <<g, h>> \o <<k, l>>
        /\ Signed(Number32(g, h, k, l), Values32) = x
  BY Bytes32Number
<1> HIDE DEF s
<1>2. s \in Seq(S) /\ Len(s) = 4 /\ s[1] = g /\ s[2] = h /\ s[3] = k /\ s[4] = l
  <2>1. g \in S /\ h \in S /\ k \in S /\ l \in S
    OBVIOUS
  <2> QED
    BY <1>1, <2>1, TwoAndTwo
<1>3. Contents(b) \in Seq(S)
  BY ContentsProperties
<1>4. ASSUME NEW c, NEW rest \in Seq(S), Contents(c) = s \o rest
      PROVE  PeekInt32(c) = x
  <2>1. 1 \in 1 .. Len(s) /\ 2 \in 1 .. Len(s) /\ 3 \in 1 .. Len(s) /\ 4 \in 1 .. Len(s)
    BY <1>2
  <2>2. /\ (s \o rest)[1] = s[1] /\ (s \o rest)[2] = s[2]
        /\ (s \o rest)[3] = s[3] /\ (s \o rest)[4] = s[4]
    <3>1. s \in Seq(S)
      BY <1>2
    <3>2. \A i \in 1 .. Len(s) : (s \o rest)[i] = s[i]
      BY <3>1, ConcatBegins
    <3> QED
      BY <2>1, <3>2, Zenon
  <2>3. /\ Contents(c)[1] = g /\ Contents(c)[2] = h
        /\ Contents(c)[3] = k /\ Contents(c)[4] = l
    BY <1>2, <1>4, <2>2
  <2>4. PeekInt32(c)
          = Signed(Number32(g, h, k, l), Values32)
    BY <2>3, PeekInt32Is, Zenon
  <2> QED
    BY <1>1, <2>4, Zenon
<1>5. ASSUME 4 <= PrependableBytes(b)
      PROVE  PeekInt32(PrependInt32(b, x)) = x
  <2>1. Contents(Prepend(b, s)) = s \o Contents(b)
    BY <1>2, <1>5, PrependCorrect
  <2>2. PeekInt32(Prepend(b, s)) = x
    BY <1>3, <1>4, <2>1
  <2> QED
    BY <2>2 DEF PrependInt32, s
<1>6. ASSUME Contents(b) = <<>>
      PROVE  PeekInt32(AppendInt32(b, x)) = x
  <2>1. Contents(AppendData(b, s)) = Contents(b) \o s
    BY <1>2, AppendCorrect
  <2>2. Contents(b) \o s = s /\ s \o <<>> = s /\ <<>> \in Seq(S)
    BY <1>2, <1>6, ConcatEmptySeq, EmptySeq
  <2>3. PeekInt32(AppendData(b, s)) = x
    BY <1>4, <2>1, <2>2
  <2> QED
    BY <2>3 DEF AppendInt32, s
<1> QED
  BY <1>5, <1>6
----------------------------------------------------------------------------
(* HttpServer. *)

Chars == Character \cup {Zero}

(* A member that is below all others is what Min chooses. *)
LEMMA MinIs ==
  ASSUME NEW T \in SUBSET Nat, NEW m \in T, \A k \in T : m <= k
  PROVE  Min(T) = m
<1>1. Min(T) \in T /\ \A y \in T : Min(T) <= y
  BY Zenon DEF Min
<1> DEFINE x == Min(T)
<1>2. x \in Nat /\ m \in Nat /\ x <= m /\ m <= x
  BY <1>1
<1> HIDE DEF x
<1>3. x = m
  BY <1>2
<1> QED
  BY <1>3 DEF x

(* A set of naturals has a least member, which Min chooses. *)
LEMMA MinIsLeast ==
  ASSUME NEW T \in SUBSET Nat, T # {}
  PROVE  Min(T) \in T /\ \A y \in T : Min(T) <= y
<1> DEFINE less == {p \in Nat \X Nat : p[1] < p[2]}
<1>1. IsWellFoundedOn(less, Nat)
  BY NatLessThanWellFounded, Zenon DEF OpToRel
<1>2. PICK x \in T : \A y \in T : ~(<<y, x>> \in less)
  <2> HIDE DEF less
  <2> QED
    BY <1>1, WFMin
<1>3. ASSUME NEW y \in T PROVE x <= y
  <2>1. <<y, x>> \in Nat \X Nat /\ x \in Nat /\ y \in Nat
    OBVIOUS
  <2>2. ~(<<y, x>>[1] < <<y, x>>[2])
    BY <1>2, <2>1, Zenon
  <2> QED
    BY <2>1, <2>2
<1> QED
  BY <1>2, <1>3, MinIs

(* findCRLF() points into the readable region, and its two characters lie   *)
(* in it: what retrieveUntil(crlf + 2) asserts (Buffer.cpp:90-91).          *)
LEMMA FindCRLFInReadable ==
  ASSUME NEW S, NEW b, IsBuffer(b, S)
  PROVE  /\ FindCRLF(b) \in Nat
         /\ FindCRLF(b) > 0 => FindCRLF(b) + 1 \in 0 .. ReadableBytes(b)
<1> DEFINE s    == Contents(b)
           hits == {k \in 1 .. Len(s) - 1 :
                      s[k] = kCRLF[1] /\ s[k + 1] = kCRLF[2]}
<1>1. Len(s) = ReadableBytes(b) /\ ReadableBytes(b) \in Nat
  BY ContentsProperties
<1>2. hits \in SUBSET Nat /\ hits \subseteq 1 .. Len(s) - 1
  BY <1>1
<1>3. FindCRLF(b) = IF hits = {} THEN 0 ELSE Min(hits)
  BY DEF FindCRLF
<1> HIDE DEF hits, s
<1>4. CASE hits = {}
  BY <1>3, <1>4
<1>5. CASE hits # {}
  <2>1. FindCRLF(b) \in 1 .. Len(s) - 1
    BY <1>2, <1>3, <1>5, MinIsLeast
  <2> QED
    BY <1>1, <2>1
<1> QED
  BY <1>4, <1>5

---------------------------------------------------------------------------
(* Buffer b holds the last of the first n characters of s. *)
Holds(b, s, n) ==
  /\ IsBuffer(b, Chars)
  /\ ReadableBytes(b) <= n
  /\ Contents(b) = SubSeq(s, n - ReadableBytes(b) + 1, n)

(* Reading on in the stream, up to any place, keeps this. *)
LEMMA HoldsAfterRead ==
  ASSUME NEW b, NEW s \in Seq(Character), NEW n \in 0 .. Len(s),
         Holds(b, s, n),
         NEW m \in n .. Len(s)
  PROVE  Holds(ReadFd(b, SubSeq(s, n + 1, m)), s, m)
<1> DEFINE data == SubSeq(s, n + 1, m)
           d    == ReadFd(b, data)
           c    == n - ReadableBytes(b)
<1>1. Len(s) \in Nat /\ n \in Nat /\ m \in Nat /\ Zero \in Chars
  BY LenProperties DEF Chars
<1>2. ReadableBytes(b) \in Nat /\ ReadableBytes(b) <= n /\ IsBuffer(b, Chars)
  BY ContentsProperties DEF Holds
<1>3. data \in Seq(Chars) /\ Len(data) = m - n
  <2>1. \A i \in n + 1 .. m : s[i] \in Chars
    <3>1. \A i \in 1 .. Len(s) : s[i] \in Character
      BY ElementOfSeq
    <3> QED
      BY <1>1, <3>1 DEF Chars
  <2>2. /\ data \in Seq(Chars)
        /\ Len(data) = IF n + 1 <= m THEN m - (n + 1) + 1 ELSE 0
    <3>1. n + 1 \in Int /\ m \in Int
      BY <1>1
    <3> QED
      BY <2>1, <3>1, SubSeqProperties
  <2> HIDE DEF data
  <2> QED
    BY <1>1, <2>2
<1> HIDE DEF data, d
<1>4. IsBuffer(d, Chars) /\ Contents(d) = Contents(b) \o data
  BY <1>1, <1>2, <1>3, ReadFdCorrect DEF d
<1>5. ReadableBytes(d) = ReadableBytes(b) + (m - n)
  <2>1. Contents(b) \in Seq(Chars) /\ Len(Contents(b)) = ReadableBytes(b)
    BY <1>2, ContentsProperties
  <2>2. Len(Contents(b) \o data) = Len(Contents(b)) + Len(data)
    BY <1>3, <2>1, ConcatProperties
  <2>3. Len(Contents(d)) = ReadableBytes(d)
    BY <1>4, ContentsProperties
  <2> QED
    BY <1>3, <1>4, <2>1, <2>2, <2>3
<1>6. Contents(d) = SubSeq(s, c + 1, m)
  <2>1. Contents(b) = SubSeq(s, c + 1, n)
    BY DEF Holds
  <2> DEFINE from == c + 1
  <2>2. from \in 1 .. Len(s) + 1 /\ n \in from - 1 .. Len(s)
    BY <1>1, <1>2
  <2> HIDE DEF from
  <2>3. SubSeq(s, from, n) \o SubSeq(s, n + 1, m) = SubSeq(s, from, m)
    BY <2>2, ConcatAdjacentSubSeq
  <2> QED
    BY <1>4, <2>1, <2>3 DEF data, from
<1>7. c = m - ReadableBytes(d) /\ ReadableBytes(d) <= m
  BY <1>1, <1>2, <1>5
<1> HIDE DEF c
<1>8. Holds(d, s, m)
  BY <1>4, <1>6, <1>7 DEF Holds
<1> QED
  BY <1>8 DEF d, data

(* Consuming any number of characters keeps it. *)
LEMMA HoldsAfterRetrieve ==
  ASSUME NEW b, NEW s \in Seq(Character), NEW n \in 0 .. Len(s),
         Holds(b, s, n),
         NEW len \in 0 .. ReadableBytes(b)
  PROVE  Holds(Retrieve(b, len), s, n)
<1> DEFINE t == Retrieve(b, len)
           c == n - ReadableBytes(b)
           r == ReadableBytes(b)
<1>1. Len(s) \in Nat /\ n \in Nat /\ len \in Nat
  BY LenProperties, ContentsProperties DEF Holds
<1>2. r \in Nat /\ r <= n /\ IsBuffer(b, Chars) /\ c \in Nat /\ len <= r
  BY <1>1, ContentsProperties DEF Holds
<1>3. /\ IsBuffer(t, Chars) /\ ReadableBytes(t) = r - len
      /\ Contents(t) = SubSeq(Contents(b), len + 1, r)
  BY <1>2, RetrieveCorrect
<1>4. Contents(b) = SubSeq(s, c + 1, n) /\ n = c + r
  BY <1>1, <1>2 DEF Holds
<1> HIDE DEF t, c, r
<1>5. SubSeq(SubSeq(s, c + 1, n), len + 1, r) = SubSeq(s, c + len + 1, n)
  <2>1. CASE len = r
    <3>1. SubSeq(SubSeq(s, c + 1, n), len + 1, r) = <<>>
      BY <1>1, <1>2, <2>1, SubSeqEmpty
    <3>2. SubSeq(s, c + len + 1, n) = <<>>
      <4>1. c + len + 1 \in Int /\ n \in Int /\ n < c + len + 1
        BY <1>1, <1>2, <1>4, <2>1
      <4> QED
        BY <4>1, SubSeqEmpty
    <3> QED
      BY <3>1, <3>2
  <2>2. CASE len # r
    <3> DEFINE i == c + 1
               m == len + 1
    <3>1. /\ i \in 1 .. Len(s) /\ n \in 1 .. Len(s)
          /\ m \in 1 .. n - i + 1
          /\ r \in 1 .. n - i + 1
      BY <1>1, <1>2, <1>4, <2>2
    <3>2. SubSeq(SubSeq(s, i, n), m, r) = SubSeq(s, i + m - 1, i + r - 1)
      <4> HIDE DEF i, m
      <4>1. \A u \in Seq(Character) :
              SubSeq(SubSeq(s, i, n), m, r) = SubSeq(s, i + m - 1, i + r - 1)
        BY <3>1, SubSeqOfSubSeq
      <4> QED
        BY <4>1
    <3>3. c + 1 + (len + 1) - 1 = c + len + 1 /\ c + 1 + r - 1 = n
      BY <1>1, <1>2, <1>4
    <3> QED
      BY <3>2, <3>3
  <2> QED
    BY <2>1, <2>2
<1>6. c + len + 1 = n - ReadableBytes(t) + 1 /\ ReadableBytes(t) <= n
  BY <1>1, <1>2, <1>3, <1>4
<1> QED
  BY <1>3, <1>4, <1>5, <1>6 DEF Holds, t

---------------------------------------------------------------------------
(* The inductive invariant: TypeOK needs to know that no more can be read  *)
(* than was received, for the places recorded with the replies.            *)
IInv == TypeOK /\ Holds(buffer, stream, received)

(* retrieveUntil(crlf + 2) keeps the buffer's part of the invariant. *)
LEMMA TakeLineCorrect ==
  ASSUME IInv, FindCRLF(buffer) > 0, TakeLine
  PROVE  IsBuffer(buffer', Chars) /\ Holds(buffer', stream, received)
<1>1. FindCRLF(buffer) + 1 \in 0 .. ReadableBytes(buffer)
  BY FindCRLFInReadable DEF IInv, Holds
<1>2. Holds(Retrieve(buffer, FindCRLF(buffer) + 1), stream, received)
  <2>1. stream \in Seq(Character) /\ received \in 0 .. Len(stream)
    BY DEF IInv, TypeOK
  <2> QED
    BY <1>1, <2>1, HoldsAfterRetrieve DEF IInv
<1> QED
  BY <1>2 DEF TakeLine, Holds

(* The place in the stream recorded with a reply is a number. *)
LEMMA ConsumedIsNat ==
  ASSUME IInv
  PROVE  Consumed \in Nat
<1>1. ReadableBytes(buffer) \in Nat /\ ReadableBytes(buffer) <= received
  BY ContentsProperties DEF IInv, Holds
<1>2. received \in Nat
  <2>1. received \in 0 .. Len(stream)
    BY DEF IInv, TypeOK
  <2> QED
    BY <2>1
<1> QED
  BY <1>1, <1>2 DEF Consumed

(* What is sent is a reply, at a place of the stream. *)
LEMMA SendKeepsType ==
  ASSUME IInv, NEW kind \in {"400", "", "close", "Keep-Alive"},
         NEW text \in Texts,
         Send([kind |-> kind, text |-> text, end |-> Consumed])
  PROVE  replies' \in Seq([kind : {"400", "", "close", "Keep-Alive"},
                           text : Texts, end : Nat])
<1> DEFINE Reply == [kind : {"400", "", "close", "Keep-Alive"}, text : Texts, end : Nat]
           reply == [kind |-> kind, text |-> text, end |-> Consumed]
<1>1. reply \in Reply /\ replies \in Seq(Reply)
  BY ConsumedIsNat DEF IInv, TypeOK
<1>2. replies' = Append(replies, reply) \/ replies' = replies
  BY DEF Send
<1> HIDE DEF Reply, reply
<1>3. Append(replies, reply) \in Seq(Reply)
  BY <1>1, AppendProperties
<1>4. replies' \in Seq(Reply)
  BY <1>1, <1>2, <1>3
<1> QED
  BY <1>4 DEF Reply

(* The initial states satisfy it. *)
LEMMA InitIInv == ASSUME Init PROVE IInv
<1>1. stream \in Seq(Character) /\ Len(stream) \in Nat
  BY StreamsAssumption, LenProperties DEF Init
<1>2. IsBuffer(buffer, Chars) /\ Contents(buffer) = <<>>
  BY NewBufferIsEmpty DEF Init, Chars
<1>3. ReadableBytes(buffer) = 0
  BY SizesAssumption DEF Init, NewBuffer, ReadableBytes
<1>4. SubSeq(stream, 0 - 0 + 1, 0) = <<>>
  BY SubSeqEmpty
<1>5. Holds(buffer, stream, received)
  BY <1>2, <1>3, <1>4 DEF Init, Holds
<1>6. TypeOK
  <2>1. replies \in Seq([kind : {"400", "", "close", "Keep-Alive"},
                         text : Texts, end : Nat])
    BY EmptySeq DEF Init
  <2>2. request_ \in [method_    : {"kInvalid", "kGet"},
                      connection : {"", "close", "Keep-Alive"}]
    BY DEF Init, NewRequest
  <2>3. received \in 0 .. Len(stream)
    BY <1>1 DEF Init
  <2>4. IsBuffer(buffer, Character \cup {Zero})
    BY <1>2 DEF Chars
  <2> QED
    BY <1>1, <2>1, <2>2, <2>3, <2>4 DEF TypeOK, Init
<1> QED
  BY <1>5, <1>6 DEF IInv

(* A step keeps the invariant. *)
LEMMA NextIInv == ASSUME IInv, [Next]_vars PROVE IInv'
<1> DEFINE Replies  == Seq([kind : {"400", "", "close", "Keep-Alive"},
                            text : Texts, end : Nat])
           AllRequests == [method_    : {"kInvalid", "kGet"},
                           connection : {"", "close", "Keep-Alive"}]
<1>1. /\ TypeOK /\ Holds(buffer, stream, received)
      /\ stream \in Seq(Character) /\ received \in 0 .. Len(stream)
      /\ IsBuffer(buffer, Chars) /\ Len(stream) \in Nat
      /\ request_ \in AllRequests /\ replies \in Replies
  BY LenProperties DEF IInv, TypeOK, Chars
<1>2. ASSUME NEW n \in 0 .. Len(stream), HandleRead(n)
      PROVE  IInv'
  <2>1. received + n \in received .. Len(stream)
    <3>1. n <= Len(stream) - received
      BY <1>2 DEF HandleRead
    <3>2. received \in 0 .. Len(stream) /\ Len(stream) \in Nat
      BY <1>1
    <3> QED
      BY <3>1, <3>2
  <2>2. Holds(buffer', stream, received + n)
    BY <1>1, <1>2, <2>1, HoldsAfterRead DEF HandleRead
  <2>3. received + n \in 0 .. Len(stream)
    <3>1. received \in 0 .. Len(stream) /\ Len(stream) \in Nat
      BY <1>1
    <3> QED
      BY <2>1, <3>1
  <2>4. stream' = stream /\ received' = received + n /\ isOk' = TRUE
        /\ phase' \in {"read", "parse"}
        /\ UNCHANGED <<state_, request_, connected, replies>>
    BY <1>2 DEF HandleRead
  <2>5. Holds(buffer, stream, received)'
    BY <2>2, <2>4
  <2>6. TypeOK'
    BY <1>1, <2>2, <2>3, <2>4 DEF TypeOK, Holds, Chars
  <2> QED
    BY <2>5, <2>6 DEF IInv
<1>3. CASE HandleClose
  BY <1>1, <1>3 DEF HandleClose, IInv, TypeOK
<1>4. CASE SetMethodAsserts
  BY <1>1, <1>4 DEF SetMethodAsserts, IInv, TypeOK
<1>5. CASE ProcessRequestLine
  <2>1. request_' \in AllRequests
    BY <1>1, <1>5 DEF ProcessRequestLine
  <2>2. IsBuffer(buffer', Chars) /\ Holds(buffer', stream, received)
    BY <1>1, <1>5, TakeLineCorrect DEF ProcessRequestLine
  <2>3. /\ isOk' \in BOOLEAN
        /\ state_' \in {state_, "kExpectHeader"}
        /\ phase' \in {phase, "parsed"}
        /\ UNCHANGED <<stream, received, connected, replies>>
    BY <1>5 DEF ProcessRequestLine
  <2> QED
    BY <1>1, <2>1, <2>2, <2>3 DEF IInv, TypeOK, Chars
<1>6. CASE AddHeader
  <2>1. request_' \in AllRequests
    BY <1>1, <1>6 DEF AddHeader
  <2>2. IsBuffer(buffer', Chars) /\ Holds(buffer', stream, received)
    BY <1>6, TakeLineCorrect DEF AddHeader
  <2> QED
    BY <1>1, <1>6, <2>1, <2>2 DEF AddHeader, IInv, TypeOK, Chars
<1>7. CASE HeadersEnd
  <2>1. IsBuffer(buffer', Chars) /\ Holds(buffer', stream, received)
    BY <1>7, TakeLineCorrect DEF HeadersEnd
  <2> QED
    BY <1>1, <1>7, <2>1 DEF HeadersEnd, IInv, TypeOK, Chars
<1>8. CASE LineIsIncomplete
  BY <1>1, <1>8 DEF LineIsIncomplete, IInv, TypeOK
<1>9. CASE BadRequest
  <2>1. replies' \in Replies
    <3>1. BadRequestText \in Texts
      BY DEF Texts
    <3> QED
      BY <1>1, <1>9, <3>1, SendKeepsType DEF BadRequest
  <2> QED
    BY <1>1, <1>9, <2>1 DEF BadRequest, IInv, TypeOK
<1>10. CASE OnRequest
  <2> DEFINE response == HttpCallback(NewResponse(request_.connection = "close"))
  <2>1. replies' \in Replies
    <3>1. AppendToBuffer(response) \in Texts
      BY DEF Texts
    <3>2. request_.connection \in {"", "close", "Keep-Alive"}
      BY <1>1
    <3>3. Send([kind |-> request_.connection, text |-> AppendToBuffer(response),
                end |-> Consumed])
      BY <1>10 DEF OnRequest, Respond
    <3> HIDE DEF response
    <3> QED
      BY <1>1, <3>1, <3>2, <3>3, SendKeepsType
  <2>2. connected' \in BOOLEAN /\ request_' \in AllRequests
    BY <1>1, <1>10 DEF OnRequest, Respond, NewRequest, TypeOK
  <2> QED
    BY <1>1, <1>10, <2>1, <2>2 DEF OnRequest, IInv, TypeOK
<1>11. CASE NeedsMore
  BY <1>1, <1>11 DEF NeedsMore, IInv, TypeOK
<1>12. CASE UNCHANGED vars
  BY <1>1, <1>12 DEF vars, IInv, TypeOK
<1> QED
  BY <1>2, <1>3, <1>4, <1>5, <1>6, <1>7, <1>8, <1>9, <1>10, <1>11, <1>12
  DEF Next

(* The variables keep their types and the buffer's indices their order     *)
(* (Buffer.h:281-283), however long the stream and however it is cut.      *)
THEOREM TypeCorrect == Spec => []TypeOK
<1>1. IInv => TypeOK
  BY DEF IInv
<1> QED
  BY <1>1, InitIInv, NextIInv, PTL DEF Spec

(* What the parser can read is what was received and not yet consumed      *)
(* (Buffer.cpp:239-274 with HttpContext.cpp:13-65).                        *)
THEOREM ReadableIsTheRestCorrect == Spec => []ReadableIsTheRest
<1>1. IInv => ReadableIsTheRest
  BY DEF IInv, Holds, ReadableIsTheRest, Consumed
<1> QED
  BY <1>1, InitIInv, NextIInv, PTL DEF Spec

----------------------------------------------------------------------------
(* The lines of a piece of the stream. *)

(* A member that is above all others is what Max chooses. *)
LEMMA MaxIs ==
  ASSUME NEW T \in SUBSET Nat, NEW m \in T, \A k \in T : k <= m
  PROVE  Max(T) = m
<1>1. \A k \in T : m >= k
  OBVIOUS
<1>2. Max(T) \in T /\ \A y \in T : Max(T) >= y
  BY <1>1, Zenon DEF Max
<1> DEFINE x == Max(T)
<1>3. x \in Nat /\ m \in Nat /\ x >= m /\ x <= m
  BY <1>2
<1> HIDE DEF x
<1>4. x = m
  BY <1>3
<1> QED
  BY <1>4 DEF x

(* A set of naturals with a bound has a greatest member. *)
LEMMA MaxIsGreatest ==
  ASSUME NEW n \in Nat, NEW T \in SUBSET (0 .. n), T # {}
  PROVE  Max(T) \in T /\ \A k \in T : k <= Max(T)
<1> DEFINE R == {n - k : k \in T}
<1>1. R \in SUBSET Nat /\ R # {}
  <2>1. \A k \in T : k \in 0 .. n /\ n - k \in Nat
    OBVIOUS
  <2>2. R # {}
    OBVIOUS
  <2> QED
    BY <2>1, <2>2
<1>2. Min(R) \in R /\ \A k \in R : Min(R) <= k
  <2> HIDE DEF R
  <2> QED
    BY <1>1, MinIsLeast
<1>3. PICK m \in T : Min(R) = n - m
  BY <1>2
<1>4. ASSUME NEW k \in T PROVE k <= m
  <2>1. n - k \in R
    OBVIOUS
  <2>2. n - m <= n - k
    BY <1>2, <1>3, <2>1
  <2> QED
    BY <2>2
<1>5. T \in SUBSET Nat
  OBVIOUS
<1>6. Max(T) = m
  BY <1>4, <1>5, MaxIs
<1> QED
  BY <1>4, <1>6

(* A sequence of whole lines, and one that is one line. *)
WholeLines(s) == s = <<>> \/ Len(s) \in LineEnds(s)
OneLine(t) == LineEnds(t) = {Len(t)}

(* The two characters of a line end are different ones. *)
LEMMA CRIsNotLF == kCRLF[1] # kCRLF[2] /\ kCRLF[1] = "\r" /\ kCRLF[2] = "\n"
BY DEF kCRLF

(* The start of the line that ends at e. *)
LineStart(s, e) == Max({0} \cup {k \in LineEnds(s) : k < e})

(* It is 0 or an end before e, and no such end is behind it. *)
LEMMA LineStartIs ==
  ASSUME NEW s \in Seq(Character), NEW e
  PROVE  LineStart(s, e) \in {0} \cup {k \in LineEnds(s) : k < e}
         /\ \A k \in {0} \cup {k \in LineEnds(s) : k < e} :
               k <= LineStart(s, e)
<1> DEFINE T == {0} \cup {k \in LineEnds(s) : k < e}
<1>1. Len(s) \in Nat /\ T \in SUBSET (0 .. Len(s)) /\ T # {}
  BY DEF LineEnds
<1> HIDE DEF T
<1>2. Max(T) \in T /\ \A k \in T : k <= Max(T)
  BY <1>1, MaxIsGreatest
<1> QED
  BY <1>2 DEF T, LineStart

(* Lines end inside s, and not at its first character. *)
LEMMA EndsAreIn ==
  ASSUME NEW s \in Seq(Character)
  PROVE  LineEnds(s) \subseteq 2 .. Len(s) /\ LineEnds(s) \in SUBSET Nat
BY DEF LineEnds

(* The lines of a beginning of s are lines of s. *)
LEMMA PrefixLines ==
  ASSUME NEW s \in Seq(Character), NEW t \in Seq(Character)
  PROVE  /\ LineEnds(s) = {k \in LineEnds(s \o t) : k <= Len(s)}
         /\ \A e \in LineEnds(s) : LineEndingAt(s \o t, e) = LineEndingAt(s, e)
<1> DEFINE u == s \o t
           L == Len(s)
<1>1. /\ u \in Seq(Character) /\ Len(u) = L + Len(t) /\ L \in Nat
      /\ Len(t) \in Nat
      /\ \A k \in 1 .. L : u[k] = s[k]
  BY ConcatProperties
<1> HIDE DEF u
<1>2. ASSUME NEW k \in LineEnds(s) PROVE k \in LineEnds(u) /\ k <= L
  <2>1. k \in 2 .. L /\ s[k - 1] = kCRLF[1] /\ s[k] = kCRLF[2]
    BY DEF LineEnds
  <2>2. k \in 1 .. L /\ k - 1 \in 1 .. L /\ k \in 2 .. Len(u)
    BY <1>1, <2>1
  <2> QED
    BY <1>1, <2>1, <2>2 DEF LineEnds
<1>3. ASSUME NEW k \in LineEnds(u), k <= L PROVE k \in LineEnds(s)
  <2>1. k \in 2 .. Len(u) /\ u[k - 1] = kCRLF[1] /\ u[k] = kCRLF[2]
    BY DEF LineEnds
  <2>2. k \in 1 .. L /\ k - 1 \in 1 .. L /\ k \in 2 .. L
    BY <1>1, <1>3, <2>1
  <2> QED
    BY <1>1, <2>1, <2>2 DEF LineEnds
<1>4. LineEnds(s) = {k \in LineEnds(u) : k <= L}
  BY <1>2, <1>3
<1>5. ASSUME NEW e \in LineEnds(s)
      PROVE  LineEndingAt(u, e) = LineEndingAt(s, e)
  <2>1. e \in 2 .. L /\ LineEnds(s) \subseteq Nat /\ LineEnds(u) \subseteq Nat
    BY <1>1, EndsAreIn
  <2>2. {k \in LineEnds(u) : k < e} = {k \in LineEnds(s) : k < e}
    BY <1>1, <1>4, <2>1
  <2> DEFINE m == LineStart(s, e)
  <2>3. LineEndingAt(u, e) = SubSeq(u, m + 1, e - 2)
        /\ LineEndingAt(s, e) = SubSeq(s, m + 1, e - 2)
    BY <2>2 DEF LineEndingAt, LineStart
  <2>4. m \in Nat
    BY <2>1, LineStartIs
  <2> HIDE DEF m
  <2>5. CASE m + 1 > e - 2
    BY <2>1, <2>3, <2>4, <2>5, SubSeqEmpty
  <2>6. CASE m + 1 <= e - 2
    <3> DEFINE a == m + 1
               b == e - 2
    <3>1. a \in 1 .. Len(s) /\ b \in 1 .. Len(s)
      BY <2>1, <2>4, <2>6
    <3> HIDE DEF a, b
    <3>2. SubSeq(s \o t, a, b) = SubSeq(s, a, b)
      BY <3>1, SubSeqOfConcat1
    <3> QED
      BY <2>3, <3>2 DEF a, b, u
  <2> QED
    BY <2>1, <2>4, <2>5, <2>6
<1> QED
  BY <1>4, <1>5 DEF u

(* What a line adds to whole lines. *)
LEMMA LineAdded ==
  ASSUME NEW s \in Seq(Character), NEW t \in Seq(Character), WholeLines(s),
         OneLine(t)
  PROVE  /\ s \o t \in Seq(Character) /\ Len(s \o t) = Len(s) + Len(t)
         /\ LineEnds(s \o t) = LineEnds(s) \cup {Len(s \o t)}
         /\ \A e \in LineEnds(s) : LineEndingAt(s \o t, e) = LineEndingAt(s, e)
         /\ LineEndingAt(s \o t, Len(s \o t)) = SubSeq(t, 1, Len(t) - 2)
<1> DEFINE u == s \o t
           L == Len(s)
           M == Len(t)
           cr == kCRLF[1]
           lf == kCRLF[2]
<1>1. /\ u \in Seq(Character) /\ Len(u) = L + M /\ L \in Nat /\ M \in Nat
      /\ \A k \in 1 .. L : u[k] = s[k]
      /\ \A k \in 1 .. M : u[L + k] = t[k]
  BY ConcatProperties
<1>2. cr # lf
  BY CRIsNotLF
<1>3. \A k : k \in LineEnds(s) <=> k \in 2 .. L /\ s[k - 1] = cr /\ s[k] = lf
  BY DEF LineEnds
<1>4. \A k : k \in LineEnds(t) <=> k \in 2 .. M /\ t[k - 1] = cr /\ t[k] = lf
  BY DEF LineEnds
<1> HIDE DEF u
<1>5. \A k : k \in LineEnds(u) <=>
              k \in 2 .. L + M /\ u[k - 1] = cr /\ u[k] = lf
  BY <1>1 DEF LineEnds
<1>6. M \in LineEnds(t) /\ \A k \in LineEnds(t) : k = M
  BY DEF OneLine
<1>7. L = 0 \/ (L >= 2 /\ s[L] = lf)
  BY <1>3, EmptySeq DEF WholeLines
<1> HIDE DEF L, M, cr, lf
<1>8. ASSUME NEW k \in LineEnds(u) PROVE k \in LineEnds(s) \/ k = L + M
  <2>1. k \in 2 .. L + M /\ u[k - 1] = cr /\ u[k] = lf
    BY <1>5
  <2>2. CASE k <= L
    <3>1. k \in 1 .. L /\ k - 1 \in 1 .. L /\ k \in 2 .. L
      BY <1>1, <2>1, <2>2
    <3>2. s[k - 1] = cr /\ s[k] = lf
      BY <1>1, <2>1, <3>1
    <3> QED
      BY <1>3, <3>1, <3>2
  <2>3. CASE k = L + 1
    <3>1. L # 0 /\ k - 1 = L /\ L \in 1 .. L
      BY <1>1, <2>1, <2>3
    <3>2. u[L] = s[L]
      BY <1>1, <3>1
    <3> QED
      BY <1>2, <1>7, <2>1, <3>1, <3>2
  <2>4. CASE k > L + 1
    <3> DEFINE j == k - L
    <3>1. j \in 2 .. M /\ j - 1 \in 1 .. M /\ L + j = k /\ L + (j - 1) = k - 1
          /\ j \in 1 .. M
      BY <1>1, <2>1, <2>4
    <3> HIDE DEF j
    <3>2. t[j - 1] = cr /\ t[j] = lf
      BY <1>1, <2>1, <3>1
    <3>3. j = M
      BY <1>4, <1>6, <3>1, <3>2
    <3> QED
      BY <3>1, <3>3
  <2> QED
    BY <1>1, <2>1, <2>2, <2>3, <2>4
<1>9. ASSUME NEW k \in LineEnds(s) PROVE k \in LineEnds(u)
  <2>1. k \in 2 .. L /\ s[k - 1] = cr /\ s[k] = lf
    BY <1>3
  <2>2. k \in 1 .. L /\ k - 1 \in 1 .. L /\ k \in 2 .. L + M
    BY <1>1, <2>1
  <2> QED
    BY <1>1, <1>5, <2>1, <2>2
<1>10. L + M \in LineEnds(u)
  <2>1. M \in 2 .. M /\ t[M - 1] = cr /\ t[M] = lf
    BY <1>4, <1>6
  <2>2. M \in 1 .. M /\ M - 1 \in 1 .. M /\ L + M \in 2 .. L + M
        /\ L + (M - 1) = (L + M) - 1
    BY <1>1, <2>1
  <2>3. u[L + M] = t[M] /\ u[L + (M - 1)] = t[M - 1]
    BY <1>1, <2>2
  <2> QED
    BY <1>5, <2>1, <2>2, <2>3
<1>11. LineEnds(u) = LineEnds(s) \cup {L + M}
  BY <1>8, <1>9, <1>10
<1>12. \A e \in LineEnds(s) : LineEndingAt(u, e) = LineEndingAt(s, e)
  BY PrefixLines DEF u
<1>13. LineEndingAt(u, L + M) = SubSeq(t, 1, M - 2)
  <2>1. M >= 2
    BY <1>4, <1>6
  <2> DEFINE T == {0} \cup {k \in LineEnds(u) : k < L + M}
  <2>2. T \in SUBSET Nat /\ L \in T /\ \A k \in T : k <= L
    <3>1. LineEnds(s) \subseteq 2 .. L
      BY <1>3
    <3>2. L = 0 \/ L \in LineEnds(s)
      BY <1>7, EmptySeq DEF WholeLines, L
    <3>3. T = {0} \cup LineEnds(s)
      BY <1>1, <1>11, <2>1, <3>1
    <3> HIDE DEF T
    <3> QED
      BY <1>1, <3>1, <3>2, <3>3
  <2>3. Max(T) = L
    <3> HIDE DEF T
    <3> QED
      BY <2>2, MaxIs
  <2>4. LineEndingAt(u, L + M) = SubSeq(u, L + 1, (L + M) - 2)
    BY <2>3 DEF LineEndingAt
  <2>5. CASE M = 2
    <3>1. L + 1 \in Int /\ (L + M) - 2 \in Int /\ (L + M) - 2 < L + 1
          /\ M - 2 \in Int /\ M - 2 < 1
      BY <1>1, <2>5
    <3> QED
      BY <2>4, <3>1, SubSeqEmpty
  <2>6. CASE M > 2
    <3> DEFINE a == L + 1
               b == (L + M) - 2
    <3>1. a \in Len(s) + 1 .. Len(s) + Len(t)
          /\ b \in Len(s) + 1 .. Len(s) + Len(t)
          /\ a - Len(s) = 1 /\ b - Len(s) = M - 2
      BY <1>1, <2>6 DEF L, M
    <3> HIDE DEF a, b
    <3>2. SubSeq(s \o t, a, b) = SubSeq(t, a - Len(s), b - Len(s))
      BY <3>1, SubSeqOfConcat2
    <3> QED
      BY <2>4, <3>1, <3>2 DEF a, b, u
  <2> QED
    BY <1>1, <2>1, <2>5, <2>6
<1> QED
  BY <1>1, <1>11, <1>12, <1>13 DEF u, L, M

(* The first line goes from the first character to the first line end. *)
LEMMA FirstLineIs ==
  ASSUME NEW s \in Seq(Character), LineEnds(s) # {}
  PROVE  LineEndingAt(s, Min(LineEnds(s))) = SubSeq(s, 1, Min(LineEnds(s)) - 2)
<1> DEFINE m == Min(LineEnds(s))
<1>1. m \in LineEnds(s) /\ \A k \in LineEnds(s) : m <= k
  BY EndsAreIn, MinIsLeast
<1>2. m \in Nat /\ LineEnds(s) \subseteq Nat
  BY <1>1, EndsAreIn
<1> HIDE DEF m
<1>3. {k \in LineEnds(s) : k < m} = {}
  BY <1>1, <1>2
<1>4. Max({0} \cup {k \in LineEnds(s) : k < m}) = 0
  <2>1. {0} \cup {k \in LineEnds(s) : k < m} = {0}
    BY <1>3
  <2> DEFINE T == {0}
  <2>2. T \in SUBSET Nat /\ 0 \in T /\ \A k \in T : k <= 0
    OBVIOUS
  <2>3. Max(T) = 0
    <3> HIDE DEF T
    <3> QED
      BY <2>2, MaxIs
  <2> QED
    BY <2>1, <2>3
<1>5. LineEndingAt(s, m) = SubSeq(s, 0 + 1, m - 2)
  BY <1>4 DEF LineEndingAt
<1> QED
  BY <1>5 DEF m

(* Where the Connection headers are. *)
Headers(s) == {i \in 1 .. Len(s) : s[i] \in {Close, Keep}}

(* What is asked for, in terms of the Connection headers. *)
LEMMA AsksForIs ==
  ASSUME NEW s
  PROVE  AsksFor(s) = IF Headers(s) = {} THEN ""
                      ELSE IF s[Max(Headers(s))] = Close
                           THEN "close" ELSE "Keep-Alive"
BY Zenon DEF AsksFor, Headers

(* More characters without a Connection header change nothing of it. *)
LEMMA AsksAsBefore ==
  ASSUME NEW s \in Seq(Character), NEW t \in Seq(Character),
         \A i \in 1 .. Len(t) : t[i] \notin {Close, Keep}
  PROVE  AsksFor(s \o t) = AsksFor(s)
<1> DEFINE u == s \o t
<1>1. /\ u \in Seq(Character) /\ Len(u) = Len(s) + Len(t) /\ Len(s) \in Nat
      /\ Len(t) \in Nat
      /\ \A k \in 1 .. Len(s) : u[k] = s[k]
      /\ \A k \in 1 .. Len(t) : u[Len(s) + k] = t[k]
  BY ConcatProperties
<1> HIDE DEF u
<1>2. Headers(u) = Headers(s)
  <2>1. ASSUME NEW i \in Headers(u) PROVE i \in Headers(s)
    <3>1. i \in 1 .. Len(s) + Len(t) /\ u[i] \in {Close, Keep}
      BY <1>1 DEF Headers
    <3>2. ASSUME i > Len(s) PROVE FALSE
      <4> DEFINE k == i - Len(s)
      <4>1. k \in 1 .. Len(t) /\ Len(s) + k = i
        BY <1>1, <3>1, <3>2
      <4> HIDE DEF k
      <4> QED
        BY <1>1, <3>1, <4>1
    <3>3. i \in 1 .. Len(s)
      BY <1>1, <3>1, <3>2
    <3> QED
      BY <1>1, <3>1, <3>3 DEF Headers
  <2>2. ASSUME NEW i \in Headers(s) PROVE i \in Headers(u)
    BY <1>1 DEF Headers
  <2> QED
    BY <2>1, <2>2
<1>3. Headers(s) # {} => u[Max(Headers(s))] = s[Max(Headers(s))]
  <2> SUFFICES ASSUME Headers(s) # {}
               PROVE  u[Max(Headers(s))] = s[Max(Headers(s))]
    OBVIOUS
  <2>1. Headers(s) \in SUBSET (0 .. Len(s)) /\ Headers(s) \subseteq 1 .. Len(s)
    BY <1>1 DEF Headers
  <2>2. Max(Headers(s)) \in Headers(s)
    BY <1>1, <2>1, MaxIsGreatest
  <2> QED
    BY <1>1, <2>1, <2>2
<1> QED
  BY <1>2, <1>3, AsksForIs, Zenon DEF u

(* A Connection header that follows takes the place of those before it. *)
LEMMA AsksAnew ==
  ASSUME NEW s \in Seq(Character), NEW t \in Seq(Character),
         Len(t) >= 1, t[1] \in {Close, Keep},
         \A i \in 2 .. Len(t) : t[i] \notin {Close, Keep}
  PROVE  AsksFor(s \o t) = IF t[1] = Close THEN "close" ELSE "Keep-Alive"
<1> DEFINE u == s \o t
           m == Len(s) + 1
<1>1. /\ u \in Seq(Character) /\ Len(u) = Len(s) + Len(t) /\ Len(s) \in Nat
      /\ Len(t) \in Nat
      /\ \A k \in 1 .. Len(t) : u[Len(s) + k] = t[k]
  BY ConcatProperties
<1> HIDE DEF u
<1>2. u[m] = t[1] /\ m \in Nat /\ m \in 1 .. Len(u)
  BY <1>1
<1>3. m \in Headers(u) /\ Headers(u) \in SUBSET Nat
  BY <1>2 DEF Headers
<1>4. ASSUME NEW i \in Headers(u) PROVE i <= m
  <2>1. i \in 1 .. Len(s) + Len(t) /\ u[i] \in {Close, Keep}
    BY <1>1 DEF Headers
  <2>2. ASSUME i > m PROVE FALSE
    <3> DEFINE k == i - Len(s)
    <3>1. k \in 2 .. Len(t) /\ k \in 1 .. Len(t) /\ Len(s) + k = i
      BY <1>1, <2>1, <2>2
    <3> HIDE DEF k
    <3> QED
      BY <1>1, <2>1, <3>1
  <2> QED
    BY <1>2, <2>1, <2>2
<1>5. Max(Headers(u)) = m
  <2> HIDE DEF m
  <2> QED
    BY <1>3, <1>4, MaxIs
<1>6. Headers(u) # {}
  BY <1>3
<1> QED
  BY <1>2, <1>5, <1>6, AsksForIs, Zenon DEF u

----------------------------------------------------------------------------
(* What has been taken of a request whose end is not there yet. *)
InHeaders(s, asks) ==
  /\ Len(s) \in LineEnds(s)
  /\ LineEndingAt(s, Min(LineEnds(s))) = <<Good>>
  /\ \A e \in LineEnds(s) \ {Min(LineEnds(s))} : HasColon(LineEndingAt(s, e))
  /\ AsksFor(s) = asks

TextOf(t) == SubSeq(t, 1, Len(t) - 2)

(* A line whose text is one character has three. *)
LEMMA LineOfOne ==
  ASSUME NEW t \in Seq(Character), OneLine(t), NEW c, TextOf(t) = <<c>>
  PROVE  Len(t) = 3 /\ t[1] = c /\ t[2] = kCRLF[1] /\ t[3] = kCRLF[2]
<1>1. Len(t) \in Nat /\ Len(t) \in LineEnds(t)
  BY DEF OneLine
<1>2. Len(t) >= 2 /\ t[Len(t) - 1] = kCRLF[1] /\ t[Len(t)] = kCRLF[2]
  BY <1>1 DEF LineEnds
<1> DEFINE m == Len(t) - 2
<1>3. m \in Nat /\ \A i \in 1 .. m : t[i] \in Character
  BY <1>1, <1>2
<1>4. Len(SubSeq(t, 1, m)) = (IF 1 <= m THEN m - 1 + 1 ELSE 0)
      /\ \A i \in 1 .. m - 1 + 1 : SubSeq(t, 1, m)[i] = t[1 + i - 1]
  <2> HIDE DEF m
  <2> QED
    BY <1>3, SubSeqProperties
<1>5. SubSeq(t, 1, m) = <<c>> /\ Len(<<c>>) = 1 /\ <<c>>[1] = c
  BY DEF TextOf
<1> HIDE DEF m
<1>6. m = 1
  <2>1. (IF 1 <= m THEN m - 1 + 1 ELSE 0) = 1
    BY <1>4, <1>5, Zenon
  <2> QED
    BY <1>3, <2>1
<1>7. SubSeq(t, 1, m)[1] = t[1]
  BY <1>4, <1>6
<1>8. Len(t) = 3
  BY <1>1, <1>6 DEF m
<1>9. t[1] = c
  BY <1>5, <1>7, Zenon
<1>10. t[2] = kCRLF[1] /\ t[3] = kCRLF[2]
  BY <1>2, <1>8
<1> QED
  BY <1>8, <1>9, <1>10

(* A request line and a line end are no Connection header. *)
LEMMA Texts4 ==
  /\ Good \notin {Close, Keep} /\ Close # Keep
  /\ kCRLF[1] \notin {Close, Keep} /\ kCRLF[2] \notin {Close, Keep}
BY DEF Good, Close, Keep, kCRLF

(* After the request line, headers come, and nothing is asked for yet      *)
(* (HttpContext.cpp:23-34).                                                *)
LEMMA RequestLineBegins ==
  ASSUME NEW t \in Seq(Character), OneLine(t), TextOf(t) = <<Good>>
  PROVE  InHeaders(t, "")
<1>1. Len(t) = 3 /\ t[1] = Good /\ t[2] = kCRLF[1] /\ t[3] = kCRLF[2]
  BY LineOfOne
<1>2. LineEnds(t) = {Len(t)} /\ Len(t) \in Nat
  BY <1>1 DEF OneLine
<1>3. Min(LineEnds(t)) = Len(t)
  <2>1. LineEnds(t) \in SUBSET Nat /\ Len(t) \in LineEnds(t)
        /\ \A k \in LineEnds(t) : Len(t) <= k
    BY <1>2
  <2> QED
    BY <2>1, MinIs
<1>4. LineEndingAt(t, Min(LineEnds(t))) = <<Good>>
  BY <1>2, <1>3, FirstLineIs DEF TextOf
<1>5. Headers(t) = {}
  <2> SUFFICES ASSUME NEW i \in 1 .. 3 PROVE t[i] \notin {Close, Keep}
    BY <1>1 DEF Headers
  <2>1. i = 1 \/ i = 2 \/ i = 3
    OBVIOUS
  <2> QED
    BY <1>1, <2>1, Texts4
<1>6. AsksFor(t) = ""
  BY <1>5, AsksForIs, Zenon
<1> QED
  BY <1>2, <1>3, <1>4, <1>6, Zenon DEF InHeaders

(* Adding a line to what was taken leaves the first line. *)
LEMMA FirstLineStays ==
  ASSUME NEW s \in Seq(Character), NEW t \in Seq(Character), OneLine(t),
         Len(s) \in LineEnds(s)
  PROVE  /\ Min(LineEnds(s \o t)) = Min(LineEnds(s))
         /\ Min(LineEnds(s)) \in LineEnds(s)
         /\ Len(s \o t) \in Nat /\ Len(s \o t) > Len(s)
         /\ Len(s \o t) \notin LineEnds(s)
<1>1. LineEnds(s \o t) = LineEnds(s) \cup {Len(s \o t)}
      /\ Len(s \o t) = Len(s) + Len(t)
  BY LineAdded DEF WholeLines
<1>2. Len(s) \in Nat /\ Len(t) \in Nat /\ Len(t) >= 2
      /\ LineEnds(s) \subseteq 2 .. Len(s)
  BY EndsAreIn DEF OneLine
<1> DEFINE m == Min(LineEnds(s))
           u == s \o t
<1>3. m \in LineEnds(s) /\ \A k \in LineEnds(s) : m <= k
  BY EndsAreIn, MinIsLeast
<1> HIDE DEF m, u
<1>4. Len(u) \in Nat /\ Len(u) > Len(s) /\ m \in Nat /\ m <= Len(s)
  BY <1>1, <1>2, <1>3 DEF u
<1>5. LineEnds(u) \in SUBSET Nat /\ m \in LineEnds(u)
      /\ \A k \in LineEnds(u) : m <= k
  BY <1>1, <1>2, <1>3, <1>4 DEF u
<1>6. Min(LineEnds(u)) = m
  BY <1>5, MinIs
<1> QED
  BY <1>2, <1>3, <1>4, <1>6 DEF m, u

(* A header line leaves the headers open; the last one counts              *)
(* (HttpContext.cpp:46-48).                                                *)
LEMMA HeaderAdded ==
  ASSUME NEW s \in Seq(Character), NEW t \in Seq(Character), OneLine(t),
         NEW asks, InHeaders(s, asks), HasColon(TextOf(t))
  PROVE  InHeaders(s \o t,
                   IF TextOf(t) = <<Close>> THEN "close" ELSE "Keep-Alive")
<1> DEFINE u == s \o t
<1>1. /\ Min(LineEnds(u)) = Min(LineEnds(s))
      /\ Min(LineEnds(s)) \in LineEnds(s)
      /\ Len(u) \notin LineEnds(s)
  BY FirstLineStays DEF InHeaders
<1>2. /\ LineEnds(u) = LineEnds(s) \cup {Len(u)}
      /\ \A e \in LineEnds(s) : LineEndingAt(u, e) = LineEndingAt(s, e)
      /\ LineEndingAt(u, Len(u)) = TextOf(t)
  BY LineAdded DEF InHeaders, WholeLines, TextOf
<1>3. PICK c \in {Close, Keep} : TextOf(t) = <<c>>
  BY DEF HasColon
<1>4. Len(t) = 3 /\ t[1] = c /\ t[2] = kCRLF[1] /\ t[3] = kCRLF[2]
  BY <1>3, LineOfOne
<1>5. ASSUME NEW i \in 2 .. Len(t) PROVE t[i] \notin {Close, Keep}
  <2>1. i = 2 \/ i = 3
    BY <1>4
  <2> QED
    BY <1>4, <2>1, Texts4
<1>6. AsksFor(u) = IF t[1] = Close THEN "close" ELSE "Keep-Alive"
  BY <1>4, <1>5, AsksAnew
<1>7. t[1] = Close <=> TextOf(t) = <<Close>>
  <2>1. <<c>>[1] = c /\ <<Close>>[1] = Close
    OBVIOUS
  <2> QED
    BY <1>3, <1>4, <2>1
<1>8. AsksFor(u) = IF TextOf(t) = <<Close>> THEN "close" ELSE "Keep-Alive"
  BY <1>6, <1>7, Zenon
<1> HIDE DEF u
<1>9. Len(u) \in LineEnds(u) /\ LineEndingAt(u, Min(LineEnds(u))) = <<Good>>
  BY <1>1, <1>2 DEF InHeaders
<1>10. \A e \in LineEnds(u) \ {Min(LineEnds(u))} : HasColon(LineEndingAt(u, e))
  BY <1>1, <1>2 DEF InHeaders
<1>11. InHeaders(u, IF TextOf(t) = <<Close>> THEN "close" ELSE "Keep-Alive")
  BY <1>8, <1>9, <1>10, Zenon DEF InHeaders
<1> QED
  BY <1>11 DEF u

(* A line without a colon makes a request of what was taken before it      *)
(* (HttpContext.cpp:49-53).                                                *)
LEMMA RequestEnds ==
  ASSUME NEW s \in Seq(Character), NEW t \in Seq(Character), OneLine(t),
         NEW asks, InHeaders(s, asks), ~HasColon(TextOf(t)),
         \A i \in 1 .. Len(t) : t[i] \notin {Close, Keep}
  PROVE  IsRequest(s \o t) /\ AsksFor(s \o t) = asks
<1> DEFINE u == s \o t
<1>1. /\ Min(LineEnds(u)) = Min(LineEnds(s))
      /\ Min(LineEnds(s)) \in LineEnds(s)
      /\ Len(u) \notin LineEnds(s)
  BY FirstLineStays DEF InHeaders
<1>2. /\ LineEnds(u) = LineEnds(s) \cup {Len(u)}
      /\ \A e \in LineEnds(s) : LineEndingAt(u, e) = LineEndingAt(s, e)
      /\ LineEndingAt(u, Len(u)) = TextOf(t)
  BY LineAdded DEF InHeaders, WholeLines, TextOf
<1>3. AsksFor(u) = asks
  BY AsksAsBefore DEF InHeaders
<1> HIDE DEF u
<1>4. Len(u) \in LineEnds(u) /\ Len(u) # Min(LineEnds(u))
      /\ LineEndingAt(u, Min(LineEnds(u))) = <<Good>>
  BY <1>1, <1>2 DEF InHeaders
<1>5. \A e \in LineEnds(u) \ {Min(LineEnds(u))} :
        HasColon(LineEndingAt(u, e)) <=> e # Len(u)
  BY <1>1, <1>2 DEF InHeaders
<1>6. IsRequest(u)
  BY <1>4, <1>5, Zenon DEF IsRequest
<1> QED
  BY <1>3, <1>6 DEF u

----------------------------------------------------------------------------
(* The stream and the buffer. *)

(* A piece of the stream, place by place. *)
LEMMA PieceIs ==
  ASSUME NEW s \in Seq(Character), NEW a \in 0 .. Len(s), NEW b \in a .. Len(s)
  PROVE  /\ SubSeq(s, a + 1, b) \in Seq(Character)
         /\ Len(SubSeq(s, a + 1, b)) = b - a
         /\ \A i \in 1 .. b - a : SubSeq(s, a + 1, b)[i] = s[a + i]
<1>1. Len(s) \in Nat /\ a \in Nat /\ b \in Nat /\ a <= b /\ b <= Len(s)
  BY LenProperties
<1>2. \A i \in a + 1 .. b : s[i] \in Character
  <2>1. \A i \in 1 .. Len(s) : s[i] \in Character
    BY ElementOfSeq
  <2> QED
    BY <1>1, <2>1
<1> DEFINE m == a + 1
<1>3. m \in Int /\ b \in Int /\ \A i \in m .. b : s[i] \in Character
  BY <1>1, <1>2
<1> HIDE DEF m
<1>4. /\ SubSeq(s, m, b) \in Seq(Character)
      /\ Len(SubSeq(s, m, b)) = IF m <= b THEN b - m + 1 ELSE 0
      /\ \A i \in 1 .. b - m + 1 : SubSeq(s, m, b)[i] = s[m + i - 1]
  BY <1>3, SubSeqProperties
<1>5. Len(SubSeq(s, m, b)) = b - a
  BY <1>1, <1>4 DEF m
<1>6. ASSUME NEW i \in 1 .. b - a PROVE SubSeq(s, m, b)[i] = s[a + i]
  <2>1. i \in 1 .. b - m + 1 /\ m + i - 1 = a + i
    BY <1>1 DEF m
  <2> QED
    BY <1>4, <2>1
<1> QED
  BY <1>4, <1>5, <1>6 DEF m

(* What is left to parse. *)
Left == SubSeq(stream, Consumed + 1, received)
(* What has been taken since the last reply. *)
Taken == SubSeq(stream, Answered + 1, Consumed)

(* The parser can read what is left, which lies between what was consumed  *)
(* and what was received.                                                  *)
LEMMA PlacesAre ==
  ASSUME IInv
  PROVE  /\ stream \in Seq(Character) /\ Len(stream) \in Nat
         /\ received \in 0 .. Len(stream) /\ received \in Nat
         /\ Consumed \in Nat /\ Consumed <= received
         /\ Contents(buffer) = Left
         /\ ReadableBytes(buffer) = received - Consumed
         /\ Left \in Seq(Character) /\ Len(Left) = received - Consumed
         /\ \A i \in 1 .. received - Consumed : Left[i] = stream[Consumed + i]
<1>1. stream \in Seq(Character) /\ Len(stream) \in Nat
      /\ received \in 0 .. Len(stream) /\ received \in Nat
  <2>1. stream \in Seq(Character) /\ received \in 0 .. Len(stream)
    BY DEF IInv, TypeOK
  <2>2. Len(stream) \in Nat
    BY <2>1, LenProperties
  <2> QED
    BY <2>1, <2>2
<1>2. ReadableBytes(buffer) \in Nat /\ ReadableBytes(buffer) <= received
  BY ContentsProperties DEF IInv, Holds
<1>3. Consumed \in Nat /\ Consumed <= received
      /\ ReadableBytes(buffer) = received - Consumed
  BY <1>1, <1>2 DEF Consumed
<1>4. Contents(buffer) = Left
  BY DEF IInv, Holds, Left, Consumed
<1>5. Consumed \in 0 .. Len(stream) /\ received \in Consumed .. Len(stream)
  BY <1>1, <1>3
<1> QED
  BY <1>1, <1>3, <1>4, <1>5, PieceIs DEF Left

(* findCRLF() finds the first line end of what is left. *)
LEMMA FindCRLFIs ==
  ASSUME IInv
  PROVE  /\ FindCRLF(buffer) = 0 <=> LineEnds(Left) = {}
         /\ FindCRLF(buffer) > 0 =>
              LineEnds(Left) # {} /\ Min(LineEnds(Left)) = FindCRLF(buffer) + 1
<1> DEFINE s == Left
           hits == {k \in 1 .. Len(s) - 1 :
                      s[k] = kCRLF[1] /\ s[k + 1] = kCRLF[2]}
<1>1. FindCRLF(buffer) = IF hits = {} THEN 0 ELSE Min(hits)
  BY PlacesAre DEF FindCRLF
<1>2. Len(s) \in Nat /\ hits \in SUBSET Nat /\ s \in Seq(Character)
  BY PlacesAre
<1> HIDE DEF s
<1>3. ASSUME NEW k \in hits PROVE k + 1 \in LineEnds(s) /\ k >= 1
  <2>1. k \in 1 .. Len(s) - 1 /\ s[k] = kCRLF[1] /\ s[k + 1] = kCRLF[2]
    OBVIOUS
  <2>2. k + 1 \in 2 .. Len(s) /\ (k + 1) - 1 = k
    BY <1>2, <2>1
  <2> QED
    BY <2>1, <2>2 DEF LineEnds
<1>4. ASSUME NEW k \in LineEnds(s) PROVE k \in Nat /\ k - 1 \in hits
  <2>1. k \in 2 .. Len(s) /\ s[k - 1] = kCRLF[1] /\ s[k] = kCRLF[2]
    BY DEF LineEnds
  <2>2. k - 1 \in 1 .. Len(s) - 1 /\ (k - 1) + 1 = k
    BY <1>2, <2>1
  <2> QED
    BY <2>1, <2>2
<1> HIDE DEF hits
<1>5. hits = {} <=> LineEnds(s) = {}
  BY <1>3, <1>4
<1>6. CASE hits = {}
  BY <1>1, <1>5, <1>6 DEF s
<1>7. CASE hits # {}
  <2> DEFINE f == Min(hits)
  <2>1. f \in hits /\ \A k \in hits : f <= k
    BY <1>2, <1>7, MinIsLeast
  <2> HIDE DEF f
  <2>2. f \in Nat /\ f >= 1 /\ f + 1 \in LineEnds(s)
    BY <1>2, <1>3, <2>1
  <2>3. ASSUME NEW k \in LineEnds(s) PROVE f + 1 <= k
    <3>1. k \in Nat /\ k - 1 \in hits /\ f <= k - 1
      BY <1>4, <2>1
    <3> QED
      BY <2>2, <3>1
  <2>4. LineEnds(s) \in SUBSET Nat
    BY <1>2, EndsAreIn
  <2>5. Min(LineEnds(s)) = f + 1
    BY <2>2, <2>3, <2>4, MinIs
  <2>6. FindCRLF(buffer) = f
    BY <1>1, <1>7 DEF f
  <2> QED
    BY <1>5, <1>7, <2>2, <2>5, <2>6 DEF s
<1> QED
  BY <1>6, <1>7

(* The line that the parser takes, with its CRLF. *)
NextLine == SubSeq(stream, Consumed + 1, Consumed + FindCRLF(buffer) + 1)

(* It is the first line of what is left, whole and with nothing behind it. *)
LEMMA NextLineIs ==
  ASSUME IInv, FindCRLF(buffer) > 0
  PROVE  /\ FindCRLF(buffer) \in Nat
         /\ Consumed + FindCRLF(buffer) + 1 <= received
         /\ NextLine \in Seq(Character) /\ Len(NextLine) = FindCRLF(buffer) + 1
         /\ \A i \in 1 .. Len(NextLine) : NextLine[i] = stream[Consumed + i]
         /\ OneLine(NextLine) /\ TextOf(NextLine) = Line
         /\ Line = LineEndingAt(Left, Min(LineEnds(Left)))
<1> DEFINE f == FindCRLF(buffer)
           c == Consumed
           t == NextLine
           d == c + f + 1
<1>1. /\ stream \in Seq(Character) /\ Len(stream) \in Nat
      /\ received \in 0 .. Len(stream)
      /\ c \in Nat /\ c <= received /\ Len(Left) = received - c
      /\ Contents(buffer) = Left /\ Left \in Seq(Character)
      /\ \A i \in 1 .. received - c : Left[i] = stream[c + i]
  BY PlacesAre
<1>2. f \in Nat /\ f > 0 /\ f + 1 <= received - c
  <2>1. IsBuffer(buffer, Chars) /\ ReadableBytes(buffer) = received - c
    BY PlacesAre DEF IInv, Holds
  <2> QED
    BY <1>1, <2>1, FindCRLFInReadable
<1>3. LineEnds(Left) # {} /\ Min(LineEnds(Left)) = f + 1
  BY <1>2, FindCRLFIs
<1>4. c \in 0 .. Len(stream) /\ d \in c .. Len(stream) /\ d - c = f + 1
      /\ d <= received
  BY <1>1, <1>2
<1>5. t = SubSeq(stream, c + 1, d)
  BY DEF NextLine
<1> HIDE DEF t, f, c, d
<1>6. t \in Seq(Character) /\ Len(t) = f + 1
      /\ \A i \in 1 .. f + 1 : t[i] = stream[c + i]
  BY <1>1, <1>4, <1>5, PieceIs
<1>7. \A i \in 1 .. f + 1 : t[i] = Left[i]
  BY <1>1, <1>2, <1>6
<1>8. f + 1 \in LineEnds(Left) /\ \A k \in LineEnds(Left) : f + 1 <= k
  BY <1>1, <1>3, EndsAreIn, MinIsLeast
<1>9. OneLine(t)
  <2>1. ASSUME NEW k \in LineEnds(t) PROVE k = f + 1
    <3>1. k \in 2 .. f + 1 /\ t[k - 1] = kCRLF[1] /\ t[k] = kCRLF[2]
      BY <1>6 DEF LineEnds
    <3>2. k \in 1 .. f + 1 /\ k - 1 \in 1 .. f + 1 /\ k \in 2 .. Len(Left)
      BY <1>1, <1>2, <3>1
    <3>3. k \in LineEnds(Left)
      BY <1>7, <3>1, <3>2 DEF LineEnds
    <3> QED
      BY <1>2, <1>8, <3>1, <3>3
  <2>2. f + 1 \in LineEnds(t)
    <3>1. Left[(f + 1) - 1] = kCRLF[1] /\ Left[f + 1] = kCRLF[2]
      BY <1>8 DEF LineEnds
    <3>2. f + 1 \in 2 .. f + 1 /\ (f + 1) - 1 \in 1 .. f + 1
          /\ f + 1 \in 1 .. f + 1
      BY <1>2
    <3> QED
      BY <1>6, <1>7, <3>1, <3>2 DEF LineEnds
  <2> QED
    BY <1>6, <2>1, <2>2 DEF OneLine
<1>10. LineEndingAt(Left, Min(LineEnds(Left))) = SubSeq(Left, 1, f - 1)
  <2>1. (f + 1) - 2 = f - 1
    BY <1>2
  <2> QED
    BY <1>1, <1>3, <2>1, FirstLineIs
<1>11. Line = SubSeq(Left, 1, f - 1)
  BY <1>1 DEF Line, f
<1>12. TextOf(t) = SubSeq(Left, 1, f - 1)
  <2> DEFINE m == f - 1
  <2>1. m \in Nat /\ m <= f + 1 /\ Len(t) - 2 = m /\ m <= Len(Left)
    BY <1>1, <1>2, <1>6
  <2> HIDE DEF m
  <2>2. 0 \in 0 .. Len(t) /\ m \in 0 .. Len(t) /\ 0 \in 0 .. Len(Left)
        /\ m \in 0 .. Len(Left)
        /\ 0 + 1 = 1 /\ m - 0 = m
    BY <1>1, <1>2, <1>6, <2>1
  <2>3. /\ SubSeq(t, 1, m) \in Seq(Character) /\ Len(SubSeq(t, 1, m)) = m
        /\ \A i \in 1 .. m : SubSeq(t, 1, m)[i] = t[0 + i]
    BY <1>6, <2>2, PieceIs
  <2>4. /\ SubSeq(Left, 1, m) \in Seq(Character) /\ Len(SubSeq(Left, 1, m)) = m
        /\ \A i \in 1 .. m : SubSeq(Left, 1, m)[i] = Left[0 + i]
    BY <1>1, <2>2, PieceIs
  <2>5. ASSUME NEW i \in 1 .. m
        PROVE  SubSeq(t, 1, m)[i] = SubSeq(Left, 1, m)[i]
    <3>1. 0 + i = i /\ i \in 1 .. f + 1
      BY <1>2, <2>1
    <3> QED
      BY <1>7, <2>3, <2>4, <3>1
  <2>6. SubSeq(t, 1, m) = SubSeq(Left, 1, m)
    BY <2>3, <2>4, <2>5, SeqEqual
  <2> QED
    BY <2>1, <2>6 DEF TextOf, m
<1> QED
  BY <1>2, <1>4, <1>6, <1>9, <1>10, <1>11, <1>12 DEF t, f, c, d

(* Taking it moves on by it. *)
LEMMA LineIsTaken ==
  ASSUME IInv, FindCRLF(buffer) > 0, TakeLine, received' = received,
         stream' = stream
  PROVE  Consumed' = Consumed + FindCRLF(buffer) + 1
<1>1. FindCRLF(buffer) \in Nat
      /\ FindCRLF(buffer) + 1 \in 0 .. ReadableBytes(buffer)
  BY FindCRLFInReadable DEF IInv, Holds
<1>2. ReadableBytes(buffer') = ReadableBytes(buffer) - (FindCRLF(buffer) + 1)
  BY <1>1, RetrieveCorrect DEF TakeLine, IInv, Holds
<1>3. ReadableBytes(buffer) = received - Consumed /\ received \in Nat
      /\ Consumed \in Nat
  BY PlacesAre
<1>4. Consumed' = received - ReadableBytes(buffer')
  BY DEF Consumed
<1> QED
  BY <1>1, <1>2, <1>3, <1>4

(* The first character alone. *)
LEMMA FirstAlone ==
  ASSUME NEW S, NEW t \in Seq(S), Len(t) >= 1
  PROVE  SubSeq(t, 1, 1) = <<t[1]>>
<1>1. 1 \in 1 .. Len(t) /\ 1 \in 1 .. 1 /\ Len(t) \in Nat
  BY LenProperties
<1>2. SubSeq(t, 1, 1) = <<t[1]>> \o SubSeq(t, 1 + 1, 1)
  BY <1>1, SubSeqRecursiveFirst
<1>3. SubSeq(t, 1 + 1, 1) = <<>>
  BY SubSeqEmpty
<1>4. t[1] \in S
  BY <1>1, ElementOfSeq
<1>5. <<t[1]>> \in Seq(S)
  BY <1>4
<1>6. <<t[1]>> \o <<>> = <<t[1]>>
  BY <1>5, ConcatEmptySeq
<1> QED
  BY <1>2, <1>3, <1>6

(* A text with a Connection header in it is that header. *)
LEMMA NoOtherHeader ==
  ASSUME IInv, stream \in Streams, FindCRLF(buffer) > 0, ~HasColon(Line),
         Consumed > 0, stream[Consumed] # kCRLF[1]
  PROVE  \A i \in 1 .. Len(NextLine) : NextLine[i] \notin {Close, Keep}
<1> SUFFICES ASSUME NEW i \in 1 .. Len(NextLine), NextLine[i] \in {Close, Keep}
             PROVE  FALSE
  OBVIOUS
<1> DEFINE t == NextLine
           c == Consumed
           cr == kCRLF[1]
           lf == kCRLF[2]
           m == Len(t)
           p == c + i
<1>1. /\ t \in Seq(Character) /\ m \in Nat /\ m >= 1 /\ OneLine(t)
      /\ TextOf(t) = Line
      /\ \A k \in 1 .. m : t[k] = stream[c + k]
      /\ c + m <= received
  <2>1. /\ FindCRLF(buffer) \in Nat
        /\ Consumed + FindCRLF(buffer) + 1 <= received
        /\ NextLine \in Seq(Character) /\ Len(NextLine) = FindCRLF(buffer) + 1
        /\ \A k \in 1 .. Len(NextLine) : NextLine[k] = stream[Consumed + k]
        /\ OneLine(NextLine) /\ TextOf(NextLine) = Line
    BY NextLineIs
  <2>2. c \in Nat /\ c + FindCRLF(buffer) + 1 = c + (FindCRLF(buffer) + 1)
    BY <2>1, PlacesAre
  <2> HIDE DEF t, c
  <2>3. m \in Nat /\ m >= 1 /\ c + m <= received
    BY <2>1, <2>2 DEF t, c
  <2> QED
    BY <2>1, <2>3 DEF t, c
<1>2. stream \in Seq(Character) /\ Len(stream) \in Nat
      /\ received \in 0 .. Len(stream)
      /\ c \in Nat /\ c > 0
  BY PlacesAre
<1>3. cr # lf /\ cr = "\r" /\ lf = "\n" /\ stream[c] # cr
  BY CRIsNotLF
<1>4. m \in LineEnds(t) /\ \A k \in LineEnds(t) : k = m
  BY <1>1 DEF OneLine
<1>5. \A k : k \in LineEnds(t) <=> k \in 2 .. m /\ t[k - 1] = cr /\ t[k] = lf
  BY <1>1 DEF LineEnds
<1>6. t[i] \notin {cr, lf} /\ t[i] \in {Close, Keep} /\ i \in 1 .. m
  BY Texts4
<1> HIDE DEF t, c, cr, lf, m
<1>7. m >= 2 /\ t[m] = lf /\ t[m - 1] = cr
  BY <1>4, <1>5
<1>8. i <= m - 2
  <2>1. i # m /\ i # m - 1
    BY <1>6, <1>7
  <2> QED
    BY <1>1, <1>6, <2>1
<1>9. p \in 1 .. Len(stream) /\ p \in Nat /\ p > 1 /\ p # 1
      /\ p + 2 <= Len(stream) /\ p + 1 <= Len(stream)
  <2>1. i \in Nat /\ i >= 1 /\ i <= m - 2 /\ m \in Nat
    BY <1>1, <1>6, <1>8
  <2>2. c + m <= received /\ received <= Len(stream)
    BY <1>1, <1>2
  <2> QED
    BY <1>2, <2>1, <2>2
<1>10. stream[p] = t[i]
  BY <1>1, <1>6
<1>11. IsWholeText(stream, p)
  <2>1. p \in DOMAIN stream
    BY <1>2, <1>9
  <2>2. stream[p] \notin {"\r", "\n"}
    BY <1>3, <1>6, <1>10
  <2> HIDE DEF p
  <2> QED
    BY <2>1, <2>2, StreamsAssumption
<1>12. p > 2 /\ stream[p - 2] = cr /\ stream[p - 1] = lf /\ stream[p + 1] = cr
       /\ stream[p + 2] = lf
  <2> HIDE DEF p
  <2> QED
    BY <1>3, <1>9, <1>11, Zenon DEF IsWholeText
<1>13. i = 1
  <2>1. CASE i >= 3
    <3>1. i - 1 \in 2 .. m /\ i - 2 \in 1 .. m /\ i - 1 \in 1 .. m
          /\ c + (i - 1) = p - 1 /\ c + (i - 2) = p - 2
          /\ (i - 1) - 1 = i - 2 /\ i - 1 # m
      BY <1>1, <1>2, <1>6, <2>1
    <3>2. t[i - 1] = lf /\ t[i - 2] = cr
      BY <1>1, <1>12, <3>1
    <3>3. i - 1 \in LineEnds(t)
      BY <1>5, <3>1, <3>2
    <3> QED
      BY <1>4, <3>1, <3>3
  <2>2. CASE i = 2
    BY <1>2, <1>3, <1>12, <2>2
  <2> QED
    BY <1>6, <2>1, <2>2
<1>14. m = 3
  <2>1. 2 \in 1 .. m /\ 3 \in 1 .. m /\ 3 \in 2 .. m /\ 3 - 1 = 2
        /\ c + 2 = p + 1 /\ c + 3 = p + 2
    BY <1>1, <1>2, <1>8, <1>13
  <2>2. t[2] = cr /\ t[3] = lf
    BY <1>1, <1>12, <2>1
  <2>3. 3 \in LineEnds(t)
    BY <1>5, <2>1, <2>2
  <2> QED
    BY <1>4, <2>3
<1>15. Line = <<t[1]>>
  <2>1. TextOf(t) = SubSeq(t, 1, 1)
    BY <1>14 DEF TextOf, m
  <2>2. SubSeq(t, 1, 1) = <<t[1]>>
    BY <1>1, <1>14, FirstAlone DEF m
  <2> QED
    BY <1>1, <2>1, <2>2
<1>16. HasColon(Line)
  BY <1>6, <1>13, <1>15 DEF HasColon
<1> QED
  BY <1>16

----------------------------------------------------------------------------
(* What comes behind a whole line does not change the first. *)
LEMMA FirstLineExtends ==
  ASSUME NEW s \in Seq(Character), NEW t \in Seq(Character), LineEnds(s) # {}
  PROVE  /\ LineEnds(s \o t) # {}
         /\ Min(LineEnds(s \o t)) = Min(LineEnds(s))
         /\ Min(LineEnds(s)) \in LineEnds(s)
         /\ LineEndingAt(s \o t, Min(LineEnds(s \o t))) =
              LineEndingAt(s, Min(LineEnds(s)))
<1> DEFINE u == s \o t
           m == Min(LineEnds(s))
<1>1. /\ LineEnds(s) = {k \in LineEnds(u) : k <= Len(s)}
      /\ \A e \in LineEnds(s) : LineEndingAt(u, e) = LineEndingAt(s, e)
  BY PrefixLines
<1>2. u \in Seq(Character) /\ Len(s) \in Nat
  BY ConcatProperties
<1> HIDE DEF u
<1>3. m \in LineEnds(s) /\ \A k \in LineEnds(s) : m <= k
  BY EndsAreIn, MinIsLeast
<1>4. LineEnds(u) \in SUBSET Nat /\ LineEnds(s) \subseteq 2 .. Len(s)
  BY <1>2, EndsAreIn
<1> HIDE DEF m
<1>5. m \in LineEnds(u) /\ \A k \in LineEnds(u) : m <= k
  BY <1>1, <1>2, <1>3, <1>4
<1>6. Min(LineEnds(u)) = m
  BY <1>4, <1>5, MinIs
<1> QED
  BY <1>1, <1>3, <1>5, <1>6 DEF u, m

(* What has no line end in it adds none to whole lines. *)
LEMMA NoLineAdded ==
  ASSUME NEW s \in Seq(Character), NEW t \in Seq(Character), WholeLines(s),
         LineEnds(t) = {}
  PROVE  LineEnds(s \o t) = LineEnds(s)
<1> DEFINE u == s \o t
           L == Len(s)
           M == Len(t)
           cr == kCRLF[1]
           lf == kCRLF[2]
<1>1. /\ u \in Seq(Character) /\ Len(u) = L + M /\ L \in Nat /\ M \in Nat
      /\ \A k \in 1 .. L : u[k] = s[k]
      /\ \A k \in 1 .. M : u[L + k] = t[k]
  BY ConcatProperties
<1>2. cr # lf
  BY CRIsNotLF
<1>3. LineEnds(s) = {k \in LineEnds(u) : k <= L}
  BY PrefixLines
<1>4. \A k \in 2 .. M : ~(t[k - 1] = cr /\ t[k] = lf)
  BY DEF LineEnds
<1>5. L = 0 \/ (L >= 2 /\ s[L] = lf)
  BY EmptySeq DEF WholeLines, LineEnds
<1> HIDE DEF u
<1>6. \A k \in LineEnds(u) : k \in 2 .. L + M /\ u[k - 1] = cr /\ u[k] = lf
  BY <1>1 DEF LineEnds
<1> HIDE DEF L, M, cr, lf
<1>7. ASSUME NEW k \in LineEnds(u), k > L PROVE FALSE
  <2>1. k \in 2 .. L + M /\ u[k - 1] = cr /\ u[k] = lf
    BY <1>6
  <2>2. CASE k = L + 1
    <3>1. L # 0 /\ k - 1 = L /\ L \in 1 .. L
      BY <1>1, <2>1, <2>2
    <3>2. u[L] = s[L]
      BY <1>1, <3>1
    <3> QED
      BY <1>2, <1>5, <2>1, <3>1, <3>2
  <2>3. CASE k > L + 1
    <3> DEFINE j == k - L
    <3>1. j \in 2 .. M /\ j - 1 \in 1 .. M /\ L + j = k /\ L + (j - 1) = k - 1
          /\ j \in 1 .. M
      BY <1>1, <2>1, <2>3
    <3> HIDE DEF j
    <3>2. t[j - 1] = cr /\ t[j] = lf
      BY <1>1, <2>1, <3>1
    <3> QED
      BY <1>4, <3>1, <3>2
  <2> QED
    BY <1>1, <1>7, <2>1, <2>2, <2>3
<1>8. LineEnds(u) \subseteq Nat /\ L \in Nat
  BY <1>1, EndsAreIn
<1>9. LineEnds(u) = {k \in LineEnds(u) : k <= L}
  BY <1>7, <1>8
<1> QED
  BY <1>3, <1>9 DEF u

(* Pieces of the stream, one after the other. *)
LEMMA PiecesJoin ==
  ASSUME NEW s \in Seq(Character), NEW a \in 0 .. Len(s),
         NEW b \in a .. Len(s),
         NEW c \in b .. Len(s)
  PROVE  /\ SubSeq(s, a + 1, b) \in Seq(Character)
         /\ SubSeq(s, b + 1, c) \in Seq(Character)
         /\ SubSeq(s, a + 1, b) \o SubSeq(s, b + 1, c) = SubSeq(s, a + 1, c)
<1>1. Len(s) \in Nat
  BY LenProperties
<1> DEFINE from == a + 1
<1>2. from \in 1 .. Len(s) + 1 /\ b \in from - 1 .. Len(s) /\ c \in b .. Len(s)
      /\ b \in 0 .. Len(s)
  BY <1>1
<1>3. SubSeq(s, from, b) \o SubSeq(s, b + 1, c) = SubSeq(s, from, c)
  <2> HIDE DEF from
  <2> QED
    BY <1>2, ConcatAdjacentSubSeq
<1> QED
  BY <1>2, <1>3, PieceIs

(* A piece whose first line is no request line begins with no request. *)
LEMMA NoRequestThere ==
  ASSUME NEW s \in Seq(Character), NEW a \in 0 .. Len(s),
         NEW n \in a .. Len(s),
         LineEndingAt(SubSeq(s, a + 1, n),
                      Min(LineEnds(SubSeq(s, a + 1, n)))) # <<Good>>,
         NEW e \in a + 1 .. n
  PROVE  ~IsRequest(SubSeq(s, a + 1, e))
<1> SUFFICES ASSUME IsRequest(SubSeq(s, a + 1, e)) PROVE FALSE
  OBVIOUS
<1>1. e \in a .. Len(s) /\ n \in e .. Len(s)
  BY LenProperties
<1> DEFINE p == SubSeq(s, a + 1, e)
           q == SubSeq(s, e + 1, n)
<1>2. p \in Seq(Character) /\ q \in Seq(Character)
      /\ p \o q = SubSeq(s, a + 1, n)
  BY <1>1, PiecesJoin
<1>3. LineEnds(p) # {} /\ LineEndingAt(p, Min(LineEnds(p))) = <<Good>>
  BY DEF IsRequest
<1> HIDE DEF p, q
<1>4. LineEndingAt(p \o q, Min(LineEnds(p \o q))) =
        LineEndingAt(p, Min(LineEnds(p)))
  BY <1>2, <1>3, FirstLineExtends
<1> QED
  BY <1>2, <1>3, <1>4

(* A piece that has headers, and no end of them, begins with no request. *)
LEMMA NoRequestYet ==
  ASSUME NEW s \in Seq(Character), NEW a \in 0 .. Len(s),
         NEW c \in a .. Len(s),
         NEW n \in c .. Len(s), NEW asks, InHeaders(SubSeq(s, a + 1, c), asks),
         LineEnds(SubSeq(s, c + 1, n)) = {},
         NEW e \in a + 1 .. n
  PROVE  ~IsRequest(SubSeq(s, a + 1, e))
<1> SUFFICES ASSUME IsRequest(SubSeq(s, a + 1, e)) PROVE FALSE
  OBVIOUS
<1>1. e \in a .. Len(s) /\ n \in e .. Len(s) /\ n \in a .. Len(s)
  BY LenProperties
<1> DEFINE p == SubSeq(s, a + 1, e)
           q == SubSeq(s, e + 1, n)
           h == SubSeq(s, a + 1, c)
           r == SubSeq(s, c + 1, n)
           all == SubSeq(s, a + 1, n)
<1>2. p \in Seq(Character) /\ q \in Seq(Character) /\ p \o q = all
  BY <1>1, PiecesJoin
<1>3. h \in Seq(Character) /\ r \in Seq(Character) /\ h \o r = all
  BY PiecesJoin
<1>4. InHeaders(h, asks) /\ LineEnds(r) = {} /\ IsRequest(p)
  OBVIOUS
<1> HIDE DEF p, q, h, r, all
<1>5. LineEnds(all) = LineEnds(h)
  BY <1>3, <1>4, NoLineAdded DEF InHeaders, WholeLines
<1>6. /\ LineEnds(h) # {} /\ Min(LineEnds(h)) \in LineEnds(h)
      /\ Min(LineEnds(all)) = Min(LineEnds(h))
      /\ \A k \in LineEnds(h) : LineEndingAt(all, k) = LineEndingAt(h, k)
  <2>1. LineEnds(h) # {}
    BY <1>4 DEF InHeaders
  <2>2. \A k \in LineEnds(h) : LineEndingAt(h \o r, k) = LineEndingAt(h, k)
    BY <1>3, PrefixLines
  <2>3. /\ Min(LineEnds(h)) \in LineEnds(h)
        /\ Min(LineEnds(h \o r)) = Min(LineEnds(h))
    BY <1>3, <2>1, FirstLineExtends
  <2> QED
    BY <1>3, <2>1, <2>2, <2>3
<1>7. /\ Len(p) \in LineEnds(p) /\ Len(p) # Min(LineEnds(p))
      /\ Len(p) \in LineEnds(p) \ {Min(LineEnds(p))}
      /\ ~HasColon(LineEndingAt(p, Len(p)))
  BY <1>4 DEF IsRequest
<1>8. /\ LineEnds(p) \subseteq LineEnds(all)
      /\ Min(LineEnds(all)) = Min(LineEnds(p))
      /\ LineEndingAt(all, Len(p)) = LineEndingAt(p, Len(p))
  <2>1. LineEnds(p) = {k \in LineEnds(p \o q) : k <= Len(p)}
        /\ \A k \in LineEnds(p) : LineEndingAt(p \o q, k) = LineEndingAt(p, k)
    BY <1>2, PrefixLines
  <2>2. LineEnds(p) # {}
    BY <1>7
  <2>3. Min(LineEnds(p \o q)) = Min(LineEnds(p))
    BY <1>2, <2>2, FirstLineExtends
  <2> QED
    BY <1>2, <1>7, <2>1, <2>3
<1>9. Len(p) \in LineEnds(h) \ {Min(LineEnds(h))}
  BY <1>5, <1>6, <1>7, <1>8
<1>10. HasColon(LineEndingAt(h, Len(p)))
  BY <1>4, <1>9 DEF InHeaders
<1> QED
  BY <1>6, <1>7, <1>8, <1>9, <1>10

----------------------------------------------------------------------------
(* How far the parser is in the request that comes next.                   *)
ParseInv ==
  /\ Answered <= Consumed
  /\ state_ = "kExpectRequestLine" =>
       Answered = Consumed /\ (isOk => request_ = NewRequest)
  /\ state_ = "kExpectHeader" => isOk /\ InHeaders(Taken, request_.connection)
  /\ state_ = "kGotAll" =>
       /\ phase = "parsed" /\ isOk
       /\ IsRequest(Taken) /\ AsksFor(Taken) = request_.connection
  /\ ~isOk =>
       /\ phase = "parsed"
       /\ LineEnds(Left) # {}
       /\ LineEndingAt(Left, Min(LineEnds(Left))) # <<Good>>
  /\ phase = "parsed" /\ isOk /\ state_ # "kGotAll" => LineEnds(Left) = {}

Replies ==
  Seq([kind : {"400", "", "close", "Keep-Alive"}, text : Texts, end : Nat])

(* The place up to which the stream is answered is a number. *)
LEMMA AnsweredIsNat ==
  ASSUME IInv
  PROVE  replies \in Replies /\ Len(replies) \in Nat /\ Answered \in Nat
<1> DEFINE Reply == [kind : {"400", "", "close", "Keep-Alive"},
                     text : Texts, end : Nat]
<1>1. replies \in Seq(Reply)
  BY Zenon DEF IInv, TypeOK
<1>2. \A r \in Reply : r.end \in Nat
  <2> DEFINE Kinds == {"400", "", "close", "Keep-Alive"}
  <2>1. \A r \in [kind : Kinds, text : Texts, end : Nat] : r.end \in Nat
    <3> HIDE DEF Kinds
    <3> QED
      OBVIOUS
  <2> QED
    BY <2>1
<1> HIDE DEF Reply
<1>3. Len(replies) \in Nat
  BY <1>1, LenProperties
<1>4. ASSUME replies = <<>> PROVE Answered \in Nat
  BY <1>4 DEF Answered
<1>5. ASSUME replies # <<>> PROVE Answered \in Nat
  <2>1. Len(replies) \in 1 .. Len(replies)
    BY <1>1, <1>3, <1>5, EmptySeq, LenProperties
  <2>2. replies[Len(replies)] \in Reply
    BY <1>1, <2>1, ElementOfSeq
  <2>3. replies[Len(replies)].end \in Nat
    BY <1>2, <2>2, Zenon
  <2> QED
    BY <1>5, <2>3 DEF Answered
<1>6. Answered \in Nat
  BY <1>4, <1>5
<1>7. replies \in Replies
  BY <1>1, Zenon DEF Replies, Reply
<1> QED
  BY <1>3, <1>6, <1>7

(* Reading on moves nothing but received. *)
LEMMA ReadKeepsPlace ==
  ASSUME IInv, NEW n \in 0 .. Len(stream), HandleRead(n)
  PROVE  Consumed' = Consumed /\ received' \in received .. Len(stream)
<1>1. /\ stream \in Seq(Character) /\ Len(stream) \in Nat
      /\ received \in 0 .. Len(stream) /\ Consumed \in Nat
      /\ ReadableBytes(buffer) = received - Consumed
  BY PlacesAre
<1>2. /\ n <= Len(stream) - received
      /\ buffer' = ReadFd(buffer, SubSeq(stream, received + 1, received + n))
      /\ received' = received + n
  BY DEF HandleRead
<1> DEFINE m == received + n
           data == SubSeq(stream, received + 1, m)
<1>3. m \in received .. Len(stream) /\ m - received = n
  BY <1>1, <1>2
<1>4. data \in Seq(Character) /\ Len(data) = n
  <2> HIDE DEF m
  <2> QED
    BY <1>1, <1>3, PieceIs
<1>5. data \in Seq(Chars) /\ Zero \in Chars
  <2>1. Character \subseteq Chars
    BY DEF Chars
  <2>2. \A i \in 1 .. Len(data) : data[i] \in Chars
    BY <1>4, <2>1
  <2> HIDE DEF data
  <2>3. data \in Seq(Chars)
    BY <1>4, <2>2
  <2> QED
    BY <2>3 DEF Chars
<1> HIDE DEF data
<1>6. IsBuffer(buffer, Chars)
  BY DEF IInv, Holds
<1> DEFINE d == ReadFd(buffer, data)
<1>7. IsBuffer(d, Chars) /\ Contents(d) = Contents(buffer) \o data
  BY <1>5, <1>6, ReadFdCorrect
<1> HIDE DEF d
<1>8. ReadableBytes(d) = ReadableBytes(buffer) + n
  <2>1. Contents(buffer) \in Seq(Chars)
        /\ Len(Contents(buffer)) = ReadableBytes(buffer)
    BY <1>6, ContentsProperties
  <2>2. Len(Contents(d)) = ReadableBytes(d)
    BY <1>7, ContentsProperties
  <2>3. Len(Contents(buffer) \o data) = Len(Contents(buffer)) + Len(data)
    BY <1>5, <2>1, ConcatProperties
  <2> QED
    BY <1>4, <1>7, <2>1, <2>2, <2>3
<1>9. buffer' = d
  BY <1>2 DEF d, data
<1>10. Consumed' = received' - ReadableBytes(d)
  BY <1>9 DEF Consumed
<1> QED
  BY <1>1, <1>2, <1>3, <1>8, <1>10

(* A step that leaves the places alone leaves what lies between them. *)
LEMMA SamePlaces ==
  ASSUME UNCHANGED <<stream, received, buffer, replies>>
  PROVE  /\ Consumed' = Consumed /\ Answered' = Answered
         /\ Left' = Left /\ Taken' = Taken
<1>1. Consumed' = Consumed
  BY DEF Consumed, ReadableBytes
<1>2. Answered' = Answered
  BY DEF Answered
<1>3. Left' = SubSeq(stream', Consumed' + 1, received')
      /\ Taken' = SubSeq(stream', Answered' + 1, Consumed')
  BY DEF Left, Taken
<1> QED
  BY <1>1, <1>2, <1>3 DEF Left, Taken

(* Taking a line puts it behind what was taken. *)
LEMMA TakenGrows ==
  ASSUME IInv, Answered <= Consumed, FindCRLF(buffer) > 0, TakeLine,
         UNCHANGED <<stream, received, replies>>
  PROVE  /\ Answered' = Answered /\ Consumed' \in Nat /\ Consumed <= Consumed'
         /\ Taken \in Seq(Character) /\ Taken' = Taken \o NextLine
         /\ (Answered = Consumed => Taken' = NextLine)
<1>1. Consumed' = Consumed + FindCRLF(buffer) + 1
  BY LineIsTaken
<1>2. Answered' = Answered /\ Answered \in Nat
  BY AnsweredIsNat DEF Answered
<1>3. /\ stream \in Seq(Character) /\ Len(stream) \in Nat
      /\ received \in 0 .. Len(stream) /\ Consumed \in Nat
  BY PlacesAre
<1>4. FindCRLF(buffer) \in Nat /\ Consumed + FindCRLF(buffer) + 1 <= received
  BY NextLineIs
<1>5. Taken' = SubSeq(stream, Answered + 1, Consumed')
  BY <1>2 DEF Taken
<1> DEFINE a == Answered
           b == Consumed
           c == Consumed'
<1>6. a \in 0 .. Len(stream) /\ b \in a .. Len(stream)
      /\ c \in b .. Len(stream)
      /\ c \in Nat /\ b <= c
  BY <1>1, <1>2, <1>3, <1>4
<1>7. NextLine = SubSeq(stream, b + 1, c)
  BY <1>1 DEF NextLine
<1>8. Taken = SubSeq(stream, a + 1, b) /\ Taken' = SubSeq(stream, a + 1, c)
  BY <1>5 DEF Taken
<1> HIDE DEF a, b, c
<1>9. SubSeq(stream, a + 1, b) \in Seq(Character)
      /\ SubSeq(stream, a + 1, b) \o SubSeq(stream, b + 1, c) =
           SubSeq(stream, a + 1, c)
  BY <1>3, <1>6, PiecesJoin
<1>10. a = b => Taken' = NextLine
  BY <1>7, <1>8
<1>11. Taken \in Seq(Character) /\ Taken' = Taken \o NextLine
  BY <1>7, <1>8, <1>9
<1> QED
  BY <1>2, <1>6, <1>10, <1>11 DEF a, b, c

(* The character before what is left, when headers have been taken. *)
LEMMA TakenEndsWithLF ==
  ASSUME IInv, Answered <= Consumed, NEW asks, InHeaders(Taken, asks)
  PROVE  Consumed > 0 /\ stream[Consumed] # kCRLF[1]
<1> DEFINE a == Answered
           c == Consumed
<1>1. stream \in Seq(Character) /\ Len(stream) \in Nat /\ c \in Nat
      /\ a \in Nat /\ a <= c
      /\ c <= received /\ received \in 0 .. Len(stream)
  BY PlacesAre, AnsweredIsNat
<1>2. a \in 0 .. Len(stream) /\ c \in a .. Len(stream)
  BY <1>1
<1>3. Taken = SubSeq(stream, a + 1, c)
  BY DEF Taken
<1> HIDE DEF a, c
<1>4. /\ Taken \in Seq(Character) /\ Len(Taken) = c - a
      /\ \A i \in 1 .. c - a : Taken[i] = stream[a + i]
  BY <1>1, <1>2, <1>3, PieceIs
<1>5. Len(Taken) \in LineEnds(Taken)
  BY DEF InHeaders
<1>6. Len(Taken) \in 2 .. Len(Taken) /\ Taken[Len(Taken)] = kCRLF[2]
  BY <1>5 DEF LineEnds
<1>7. c - a \in 1 .. c - a /\ a + (c - a) = c /\ c > 0
  BY <1>1, <1>4, <1>6
<1>8. stream[c] = kCRLF[2]
  BY <1>4, <1>6, <1>7
<1> QED
  BY <1>7, <1>8, CRIsNotLF DEF c

----------------------------------------------------------------------------
(* A step that moves no place and leaves the parser where it is. *)
ParserStands ==
  UNCHANGED <<stream, received, buffer, replies, request_, isOk, state_>>

(* When the parser needs no more than it has, leaving it keeps its place. *)
LEMMA QuietStepKeepsParse ==
  ASSUME ParseInv, ParserStands,
         phase' \in {"poll", "closed", "aborted", phase},
         isOk, state_ # "kGotAll" \/ phase' = phase
  PROVE  ParseInv'
<1>1. /\ Consumed' = Consumed /\ Answered' = Answered
      /\ Left' = Left /\ Taken' = Taken
  BY SamePlaces DEF ParserStands
<1> QED
  BY <1>1 DEF ParseInv, ParserStands

(* Nor does reading on move it, wherever the stream is cut                 *)
(* (TcpConnection.cpp:184-199).                                            *)
LEMMA ReadKeepsParse ==
  ASSUME IInv, ParseInv, NEW n \in 0 .. Len(stream), HandleRead(n)
  PROVE  ParseInv'
<1>1. Consumed' = Consumed
  BY ReadKeepsPlace
<1>2. /\ UNCHANGED <<stream, state_, request_, replies>>
      /\ isOk' = TRUE /\ phase' \in {"read", "parse"}
      /\ phase \in {"poll", "read"}
  BY DEF HandleRead
<1>3. Answered' = Answered
  BY <1>2 DEF Answered
<1>4. Taken' = Taken
  BY <1>1, <1>2, <1>3 DEF Taken
<1>5. isOk
  BY <1>2 DEF ParseInv
<1> QED
  BY <1>1, <1>2, <1>3, <1>4, <1>5 DEF ParseInv

(* The first line of a request is taken if it is a request line; if it is  *)
(* not, it stays, and is what the 400 is about.                            *)
LEMMA RequestLineKeepsParse ==
  ASSUME IInv, ParseInv, ProcessRequestLine
  PROVE  ParseInv'
<1>1. /\ phase = "parse" /\ state_ = "kExpectRequestLine"
      /\ FindCRLF(buffer) > 0
      /\ UNCHANGED <<stream, received, replies>>
      /\ isOk' = (Line = <<Good>>)
      /\ request_' = IF HasMethod(Line)
                     THEN [request_ EXCEPT !.method_ = "kGet"] ELSE request_
  BY DEF ProcessRequestLine, ExpectRequestLine
<1>2. Answered = Consumed /\ isOk /\ request_ = NewRequest
  BY <1>1 DEF ParseInv
<1>3. request_'.connection = ""
  BY <1>1, <1>2, Zenon DEF NewRequest
<1>4. CASE Line = <<Good>>
  <2>1. TakeLine /\ state_' = "kExpectHeader" /\ phase' = "parse"
        /\ isOk' = TRUE
    BY <1>1, <1>4 DEF ProcessRequestLine
  <2>2. /\ Answered' = Answered /\ Consumed' \in Nat /\ Consumed <= Consumed'
        /\ Taken' = NextLine
    BY <1>1, <1>2, <2>1, TakenGrows, PlacesAre
  <2>3. /\ NextLine \in Seq(Character) /\ OneLine(NextLine)
        /\ TextOf(NextLine) = <<Good>>
    BY <1>1, <1>4, NextLineIs
  <2>4. InHeaders(NextLine, "")
    BY <2>3, RequestLineBegins, Zenon
  <2>5. InHeaders(Taken', request_'.connection)
    BY <1>3, <2>2, <2>4, Zenon
  <2>6. InHeaders(Taken, request_.connection)'
    BY <2>5
  <2>7. Answered' <= Consumed'
    BY <1>2, <2>2
  <2> HIDE DEF ParserStands
  <2> QED
    BY <2>1, <2>6, <2>7 DEF ParseInv
<1>5. CASE Line # <<Good>>
  <2>1. phase' = "parsed" /\ UNCHANGED <<buffer, state_>> /\ isOk' = FALSE
    BY <1>1, <1>5 DEF ProcessRequestLine
  <2>2. /\ Consumed' = Consumed /\ Answered' = Answered
        /\ Left' = Left /\ Taken' = Taken
    BY <1>1, <2>1, SamePlaces
  <2>3. LineEnds(Left) # {}
        /\ LineEndingAt(Left, Min(LineEnds(Left))) # <<Good>>
    BY <1>1, <1>5, FindCRLFIs, NextLineIs
  <2> QED
    BY <1>1, <1>2, <2>1, <2>2, <2>3 DEF ParseInv
<1> QED
  BY <1>4, <1>5

(* A header line is taken behind what was taken. *)
LEMMA AddHeaderKeepsParse ==
  ASSUME IInv, ParseInv, AddHeader
  PROVE  ParseInv'
<1>1. /\ phase = "parse" /\ state_ = "kExpectHeader" /\ FindCRLF(buffer) > 0
      /\ HasColon(Line) /\ TakeLine
      /\ UNCHANGED <<stream, received, replies, state_, isOk, phase>>
  BY DEF AddHeader, ExpectHeader
<1>2. request_'.connection = IF Line = <<Close>> THEN "close" ELSE "Keep-Alive"
  <2>1. request_ \in [method_    : {"kInvalid", "kGet"},
                      connection : {"", "close", "Keep-Alive"}]
    BY DEF IInv, TypeOK
  <2> QED
    BY <2>1, Zenon DEF AddHeader
<1>3. Answered <= Consumed /\ isOk /\ InHeaders(Taken, request_.connection)
  BY <1>1 DEF ParseInv
<1>4. /\ Answered' = Answered /\ Consumed' \in Nat /\ Consumed <= Consumed'
      /\ Taken \in Seq(Character) /\ Taken' = Taken \o NextLine
  BY <1>1, <1>3, TakenGrows
<1>5. NextLine \in Seq(Character) /\ OneLine(NextLine)
      /\ TextOf(NextLine) = Line
  BY <1>1, NextLineIs
<1>6. InHeaders(Taken \o NextLine,
                IF TextOf(NextLine) = <<Close>> THEN "close" ELSE "Keep-Alive")
  BY <1>1, <1>3, <1>4, <1>5, HeaderAdded, Zenon
<1>7. InHeaders(Taken, request_.connection)'
  BY <1>2, <1>4, <1>5, <1>6, Zenon
<1>8. Answered' <= Consumed'
  BY <1>3, <1>4, AnsweredIsNat, PlacesAre
<1> QED
  BY <1>1, <1>3, <1>7, <1>8 DEF ParseInv

(* With the line that ends the headers a request is whole: it has no       *)
(* header of its own in it, since a text is one character.                 *)
LEMMA HeadersEndKeepsParse ==
  ASSUME IInv, stream \in Streams, ParseInv, HeadersEnd
  PROVE  ParseInv'
<1>1. /\ phase = "parse" /\ state_ = "kExpectHeader" /\ FindCRLF(buffer) > 0
      /\ ~HasColon(Line) /\ TakeLine
      /\ state_' = "kGotAll" /\ phase' = "parsed"
      /\ UNCHANGED <<stream, received, replies, request_, isOk>>
  BY DEF HeadersEnd, ExpectHeader
<1>2. Answered <= Consumed /\ isOk /\ InHeaders(Taken, request_.connection)
  BY <1>1 DEF ParseInv
<1>3. /\ Answered' = Answered /\ Consumed' \in Nat /\ Consumed <= Consumed'
      /\ Taken \in Seq(Character) /\ Taken' = Taken \o NextLine
  BY <1>1, <1>2, TakenGrows
<1>4. NextLine \in Seq(Character) /\ OneLine(NextLine)
      /\ TextOf(NextLine) = Line
  BY <1>1, NextLineIs
<1>5. Consumed > 0 /\ stream[Consumed] # kCRLF[1]
  BY <1>2, TakenEndsWithLF
<1>6. \A i \in 1 .. Len(NextLine) : NextLine[i] \notin {Close, Keep}
  BY <1>1, <1>5, NoOtherHeader
<1>7. ~HasColon(TextOf(NextLine))
  BY <1>1, <1>4, Zenon
<1>8. IsRequest(Taken \o NextLine)
      /\ AsksFor(Taken \o NextLine) = request_.connection
  BY <1>2, <1>3, <1>4, <1>6, <1>7, RequestEnds
<1>9. IsRequest(Taken)' /\ AsksFor(Taken)' = request_'.connection
  BY <1>1, <1>3, <1>8, Zenon
<1>10. Answered' <= Consumed'
  BY <1>2, <1>3, AnsweredIsNat, PlacesAre
<1> QED
  BY <1>1, <1>2, <1>9, <1>10 DEF ParseInv

(* Without a line end in what is left there is nothing to take. *)
LEMMA IncompleteKeepsParse ==
  ASSUME IInv, ParseInv, LineIsIncomplete
  PROVE  ParseInv'
<1>1. /\ phase = "parse" /\ FindCRLF(buffer) = 0 /\ phase' = "parsed"
      /\ state_ \in {"kExpectRequestLine", "kExpectHeader"}
      /\ UNCHANGED <<stream, received, buffer, state_, request_, isOk,
                     replies>>
  BY DEF LineIsIncomplete, ExpectRequestLine, ExpectHeader
<1>2. LineEnds(Left) = {}
  BY <1>1, FindCRLFIs
<1>3. /\ Consumed' = Consumed /\ Answered' = Answered
      /\ Left' = Left /\ Taken' = Taken
  BY <1>1, SamePlaces
<1> QED
  BY <1>1, <1>2, <1>3 DEF ParseInv

(* What is appended is the last. *)
LEMMA LastAppended ==
  ASSUME NEW R, NEW s \in Seq(R), NEW e \in R
  PROVE  Append(s, e) # <<>> /\ Append(s, e)[Len(Append(s, e))] = e
<1>1. /\ Len(Append(s, e)) = Len(s) + 1 /\ Len(s) \in Nat
      /\ Append(s, e)[Len(s) + 1] = e
  BY AppendProperties, LenProperties
<1>2. Len(<<>>) = 0
  BY EmptySeq
<1> QED
  BY <1>1, <1>2

(* Appending makes a sequence longer. *)
LEMMA LenGrows ==
  ASSUME NEW R, NEW s \in Seq(R), NEW e
  PROVE  Len(Append(s, e)) > Len(s)
<1>1. Len(Append(s, e)) = Len(s) + 1 /\ Len(s) \in Nat
  BY LenProperties
<1> QED
  BY <1>1

(* What is recorded of a reply when it is sent becomes what is answered. *)
LEMMA SendAnswers ==
  ASSUME IInv, connected, NEW kind \in {"400", "", "close", "Keep-Alive"},
         NEW text \in Texts,
         Send([kind |-> kind, text |-> text, end |-> Consumed])
  PROVE  Answered' = Consumed
<1> DEFINE Reply == [kind : {"400", "", "close", "Keep-Alive"},
                     text : Texts, end : Nat]
           reply == [kind |-> kind, text |-> text, end |-> Consumed]
<1>1. reply \in Reply /\ replies \in Seq(Reply) /\ reply.end = Consumed
  BY ConsumedIsNat DEF IInv, TypeOK
<1>2. replies' = Append(replies, reply)
  BY DEF Send
<1> HIDE DEF Reply, reply
<1>3. replies' # <<>> /\ replies'[Len(replies')] = reply
  BY <1>1, <1>2, LastAppended, Zenon
<1> QED
  BY <1>1, <1>3, Zenon DEF Answered

(* After a 400 the connection is not in use any more                       *)
(* (HttpServer.cpp:46-50).                                                 *)
LEMMA BadRequestKeepsParse ==
  ASSUME IInv, ParseInv, BadRequest, connected'
  PROVE  ParseInv'
BY DEF BadRequest

(* After a reply the context is reset, and what was consumed is answered   *)
(* (HttpServer.cpp:54-58).                                                 *)
LEMMA OnRequestKeepsParse ==
  ASSUME IInv, ParseInv, connected, OnRequest
  PROVE  ParseInv'
<1> DEFINE response == HttpCallback(NewResponse(request_.connection = "close"))
<1>1. /\ isOk /\ isOk' = isOk /\ state_' = "kExpectRequestLine"
      /\ request_' = NewRequest
      /\ phase' = "poll" /\ UNCHANGED <<stream, received, buffer>>
      /\ Send([kind |-> request_.connection, text |-> AppendToBuffer(response),
               end |-> Consumed])
  BY DEF OnRequest, Respond
<1>2. AppendToBuffer(response) \in Texts
  BY DEF Texts
<1>3. request_.connection \in {"400", "", "close", "Keep-Alive"}
  BY DEF IInv, TypeOK
<1> HIDE DEF response
<1>4. Answered' = Consumed
  BY <1>1, <1>2, <1>3, SendAnswers
<1>5. Consumed' = Consumed
  BY <1>1 DEF Consumed, ReadableBytes
<1>6. Consumed \in Nat /\ Answered' = Consumed' /\ Answered' <= Consumed'
  BY <1>4, <1>5, PlacesAre
<1> QED
  BY <1>1, <1>6 DEF ParseInv

(* Every step on a connection in use keeps the parser where it should be. *)
LEMMA NextKeepsParse ==
  ASSUME IInv, stream \in Streams, connected => ParseInv, [Next]_vars
  PROVE  connected' => ParseInv'
<1> SUFFICES ASSUME connected' PROVE ParseInv'
  OBVIOUS
<1>1. connected /\ connected \in BOOLEAN
  BY DEF IInv, TypeOK, Next, vars, HandleRead, HandleClose, SetMethodAsserts,
         ProcessRequestLine, AddHeader, HeadersEnd, LineIsIncomplete,
         BadRequest, OnRequest, Respond, NeedsMore
<1>2. ParseInv
  BY <1>1
<1>3. ASSUME NEW n \in 0 .. Len(stream), HandleRead(n)
      PROVE  ParseInv'
  BY <1>2, <1>3, ReadKeepsParse
<1>4. CASE HandleClose
  <2>1. ParserStands /\ phase' = "closed" /\ phase = "poll"
    BY <1>4 DEF HandleClose, ParserStands
  <2>2. isOk /\ state_ # "kGotAll"
    BY <1>2, <2>1 DEF ParseInv
  <2> QED
    BY <1>2, <2>1, <2>2, QuietStepKeepsParse
<1>5. CASE SetMethodAsserts
  <2>1. ParserStands /\ phase' = "aborted" /\ phase = "parse"
    BY <1>5 DEF SetMethodAsserts, ParserStands, ExpectRequestLine
  <2>2. isOk /\ state_ # "kGotAll"
    BY <1>2, <2>1 DEF ParseInv
  <2> QED
    BY <1>2, <2>1, <2>2, QuietStepKeepsParse
<1>6. CASE ProcessRequestLine
  BY <1>2, <1>6, RequestLineKeepsParse
<1>7. CASE AddHeader
  BY <1>2, <1>7, AddHeaderKeepsParse
<1>8. CASE HeadersEnd
  BY <1>2, <1>8, HeadersEndKeepsParse
<1>9. CASE LineIsIncomplete
  BY <1>2, <1>9, IncompleteKeepsParse
<1>10. CASE BadRequest
  BY <1>2, <1>10, BadRequestKeepsParse
<1>11. CASE OnRequest
  BY <1>1, <1>2, <1>11, OnRequestKeepsParse
<1>12. CASE NeedsMore
  <2>1. ParserStands /\ phase' = "poll" /\ isOk /\ state_ # "kGotAll"
    BY <1>12 DEF NeedsMore, ParserStands
  <2> QED
    BY <1>2, <2>1, QuietStepKeepsParse
<1>13. CASE UNCHANGED vars
  <2>1. ParserStands /\ phase' = phase
    BY <1>13 DEF vars, ParserStands
  <2>2. /\ Consumed' = Consumed /\ Answered' = Answered
        /\ Left' = Left /\ Taken' = Taken
    BY <2>1, SamePlaces DEF ParserStands
  <2> QED
    BY <1>2, <2>1, <2>2 DEF ParseInv, ParserStands
<1> QED
  BY <1>3, <1>4, <1>5, <1>6, <1>7, <1>8, <1>9, <1>10, <1>11, <1>12, <1>13
  DEF Next

----------------------------------------------------------------------------
(* A reply about what follows place from of the stream s, of which n are   *)
(* received, is the right one.                                             *)
IsRight(s, from, reply, n) ==
  /\ reply.kind = "400" =>
       /\ SubSeq(s, from + 1, reply.end) = <<>>
       /\ LineEnds(SubSeq(s, from + 1, n)) # {}
       /\ LineEndingAt(SubSeq(s, from + 1, n),
                       Min(LineEnds(SubSeq(s, from + 1, n)))) # <<Good>>
  /\ reply.kind # "400" =>
       /\ IsRequest(SubSeq(s, from + 1, reply.end))
       /\ reply.kind = AsksFor(SubSeq(s, from + 1, reply.end))

HasLength(text) == \E k \in DOMAIN text : text[k] = "Content-Length"

StartOf(sent, i) == IF i = 1 THEN 0 ELSE sent[i - 1].end

AreRight(s, sent, n, open) ==
  \A i \in 1 .. Len(sent) :
    /\ IsRight(s, StartOf(sent, i), sent[i], n)
    /\ HasLength(sent[i].text) \/ (i = Len(sent) /\ ~open)

(* The property, reply by reply. *)
LEMMA RepliesAre ==
  /\ RepliesAreTheStreams <=> AreRight(stream, replies, received, connected)
  /\ RepliesAreTheStreams' <=>
       AreRight(stream', replies', received', connected')
<1>1. RepliesAreTheStreams <=> AreRight(stream, replies, received, connected)
  BY Zenon DEF RepliesAreTheStreams, AreRight, IsRight, HasLength, StartOf
<1>2. RepliesAreTheStreams' <=>
        AreRight(stream', replies', received', connected')
  BY Zenon DEF RepliesAreTheStreams, AreRight, IsRight, HasLength, StartOf
<1> QED
  BY <1>1, <1>2

(* What is right stays right when more is received. *)
LEMMA RightStays ==
  ASSUME NEW s \in Seq(Character), NEW from \in Nat, NEW reply,
         NEW n \in 0 .. Len(s), NEW m \in n .. Len(s),
         IsRight(s, from, reply, n)
  PROVE  IsRight(s, from, reply, m)
<1> DEFINE p == SubSeq(s, from + 1, n)
           q == SubSeq(s, n + 1, m)
           r == SubSeq(s, from + 1, m)
<1>1. CASE reply.kind = "400"
  <2>1. LineEnds(p) # {} /\ LineEndingAt(p, Min(LineEnds(p))) # <<Good>>
        /\ SubSeq(s, from + 1, reply.end) = <<>>
    BY <1>1 DEF IsRight
  <2>2. from <= n
    <3> SUFFICES ASSUME ~(from <= n) PROVE FALSE
      OBVIOUS
    <3>1. Len(s) \in Nat /\ n \in Nat
      BY LenProperties
    <3>2. p = <<>>
      BY <3>1, SubSeqEmpty
    <3>3. LineEnds(<<>>) = {}
      BY EmptySeq DEF LineEnds
    <3> HIDE DEF p
    <3> QED
      BY <2>1, <3>2, <3>3
  <2>3. /\ from \in 0 .. Len(s) /\ n \in from .. Len(s) /\ m \in n .. Len(s)
    BY <2>2, LenProperties
  <2>4. p \in Seq(Character) /\ q \in Seq(Character) /\ p \o q = r
    BY <2>3, PiecesJoin
  <2> HIDE DEF p, q, r
  <2>5. LineEnds(p \o q) # {}
        /\ LineEndingAt(p \o q, Min(LineEnds(p \o q))) =
             LineEndingAt(p, Min(LineEnds(p)))
    BY <2>1, <2>4, FirstLineExtends
  <2>6. LineEnds(r) # {} /\ LineEndingAt(r, Min(LineEnds(r))) # <<Good>>
    BY <2>1, <2>4, <2>5
  <2> QED
    BY <1>1, <2>1, <2>6 DEF IsRight, r
<1>2. CASE reply.kind # "400"
  BY <1>2 DEF IsRight
<1> QED
  BY <1>1, <1>2

(* So do all of them, also when the connection is shut down. *)
LEMMA AreRightStays ==
  ASSUME NEW s \in Seq(Character), NEW sent \in Replies,
         NEW n \in 0 .. Len(s), NEW m \in n .. Len(s), NEW open, NEW now,
         now => open, AreRight(s, sent, n, open)
  PROVE  AreRight(s, sent, m, now)
<1> DEFINE Reply == [kind : {"400", "", "close", "Keep-Alive"},
                     text : Texts, end : Nat]
<1>1. sent \in Seq(Reply)
  BY Zenon DEF Replies
<1>2. \A r \in Reply : r.end \in Nat
  <2> DEFINE Kinds == {"400", "", "close", "Keep-Alive"}
  <2>1. \A r \in [kind : Kinds, text : Texts, end : Nat] : r.end \in Nat
    <3> HIDE DEF Kinds
    <3> QED
      OBVIOUS
  <2> QED
    BY <2>1
<1> HIDE DEF Reply
<1> SUFFICES ASSUME NEW i \in 1 .. Len(sent)
             PROVE  /\ IsRight(s, StartOf(sent, i), sent[i], m)
                    /\ HasLength(sent[i].text) \/ (i = Len(sent) /\ ~now)
  BY DEF AreRight
<1>3. StartOf(sent, i) \in Nat
  <2>1. CASE i = 1
    BY <2>1 DEF StartOf
  <2>2. CASE i # 1
    <3>1. i - 1 \in 1 .. Len(sent)
      BY <2>2, <1>1, LenProperties
    <3>2. sent[i - 1] \in Reply
      BY <3>1, <1>1, ElementOfSeq
    <3> QED
      BY <2>2, <3>2, <1>2 DEF StartOf
  <2> QED
    BY <2>1, <2>2
<1>4. /\ IsRight(s, StartOf(sent, i), sent[i], n)
      /\ HasLength(sent[i].text) \/ (i = Len(sent) /\ ~open)
  BY DEF AreRight
<1>5. IsRight(s, StartOf(sent, i), sent[i], m)
  BY <1>3, <1>4, RightStays
<1> QED
  BY <1>4, <1>5

(* One more that is right, sent on a connection where the others had a     *)
(* length.                                                                 *)
LEMMA AreRightAppended ==
  ASSUME NEW s \in Seq(Character), NEW R, NEW sent \in Seq(R), NEW n, NEW now,
         AreRight(s, sent, n, TRUE),
         NEW reply \in R,
         IsRight(s, IF sent = <<>> THEN 0 ELSE sent[Len(sent)].end, reply, n),
         HasLength(reply.text) \/ ~now
  PROVE  AreRight(s, Append(sent, reply), n, now)
<1> DEFINE more == Append(sent, reply)
<1>1. /\ Len(sent) \in Nat /\ Len(more) = Len(sent) + 1
      /\ more[Len(sent) + 1] = reply
      /\ \A i \in 1 .. Len(sent) : more[i] = sent[i]
  BY AppendProperties, LenProperties
<1>2. sent = <<>> <=> Len(sent) = 0
  BY EmptySeq
<1> HIDE DEF more
<1> SUFFICES ASSUME NEW i \in 1 .. Len(more)
             PROVE  /\ IsRight(s, StartOf(more, i), more[i], n)
                    /\ HasLength(more[i].text) \/ (i = Len(more) /\ ~now)
  BY Zenon DEF AreRight, more
<1>3. CASE i = Len(sent) + 1
  <2>1. more[i] = reply
    BY <1>1, <1>3
  <2>2. StartOf(more, i) = IF sent = <<>> THEN 0 ELSE sent[Len(sent)].end
    <3>1. CASE sent = <<>>
      BY <1>2, <1>3, <3>1 DEF StartOf
    <3>2. CASE sent # <<>>
      <4>1. i # 1 /\ i - 1 = Len(sent) /\ Len(sent) \in 1 .. Len(sent)
        BY <1>1, <1>2, <1>3, <3>2
      <4>2. more[i - 1] = sent[Len(sent)]
        BY <1>1, <4>1
      <4> QED
        BY <3>2, <4>1, <4>2 DEF StartOf
    <3> QED
      BY <3>1, <3>2
  <2>3. IsRight(s, StartOf(more, i), more[i], n)
    BY <2>1, <2>2, Zenon
  <2> QED
    BY <1>1, <1>3, <2>1, <2>3
<1>4. CASE i # Len(sent) + 1
  <2>1. i \in 1 .. Len(sent)
    BY <1>1, <1>4
  <2>2. more[i] = sent[i]
    BY <1>1, <2>1
  <2>3. StartOf(more, i) = StartOf(sent, i)
    <3>1. CASE i = 1
      BY <3>1 DEF StartOf
    <3>2. CASE i # 1
      <4>1. i - 1 \in 1 .. Len(sent)
        BY <1>1, <2>1, <3>2
      <4>2. more[i - 1] = sent[i - 1]
        BY <1>1, <4>1
      <4> QED
        BY <3>2, <4>2 DEF StartOf
    <3> QED
      BY <3>1, <3>2
  <2>4. IsRight(s, StartOf(sent, i), sent[i], n) /\ HasLength(sent[i].text)
    BY <2>1 DEF AreRight
  <2>5. IsRight(s, StartOf(more, i), more[i], n) /\ HasLength(more[i].text)
    BY <2>2, <2>3, <2>4, Zenon
  <2> QED
    BY <2>5
<1> QED
  BY <1>3, <1>4

(* A right reply that goes out leaves all of them right. *)
LEMMA SendIsRight ==
  ASSUME IInv, RepliesAreTheStreams, connected,
         NEW kind \in {"400", "", "close", "Keep-Alive"}, NEW text \in Texts,
         Send([kind |-> kind, text |-> text, end |-> Consumed]),
         UNCHANGED <<stream, received>>,
         IsRight(stream, Answered,
                 [kind |-> kind, text |-> text, end |-> Consumed], received),
         HasLength(text) \/ ~connected'
  PROVE  RepliesAreTheStreams'
<1> DEFINE Reply == [kind : {"400", "", "close", "Keep-Alive"},
                     text : Texts, end : Nat]
           reply == [kind |-> kind, text |-> text, end |-> Consumed]
<1>1. reply \in Reply /\ replies \in Seq(Reply) /\ reply.text = text
  BY ConsumedIsNat DEF IInv, TypeOK
<1>2. replies' = Append(replies, reply)
  BY DEF Send
<1>3. IsRight(stream, Answered, reply, received)
  OBVIOUS
<1> HIDE DEF Reply, reply
<1>4. stream \in Seq(Character)
  BY PlacesAre
<1>5. AreRight(stream, replies, received, connected)
  BY RepliesAre
<1>6. AreRight(stream, replies, received, TRUE)
  BY <1>5, Zenon DEF AreRight
<1>7. IsRight(stream, IF replies = <<>> THEN 0 ELSE replies[Len(replies)].end,
              reply, received)
  BY <1>3, Zenon DEF Answered
<1>8. HasLength(reply.text) \/ ~connected'
  BY <1>1, Zenon
<1>9. AreRight(stream, Append(replies, reply), received, connected')
  BY <1>1, <1>4, <1>6, <1>7, <1>8, AreRightAppended
<1> QED
  BY <1>2, <1>9, RepliesAre

(* With nothing sent, what was right stays so. *)
LEMMA SilenceIsRight ==
  ASSUME IInv, RepliesAreTheStreams, UNCHANGED <<stream, replies>>,
         received' \in received .. Len(stream), connected' => connected
  PROVE  RepliesAreTheStreams'
<1>1. stream \in Seq(Character) /\ received \in 0 .. Len(stream)
  BY PlacesAre
<1>2. replies \in Replies
  BY AnsweredIsNat
<1>3. AreRight(stream, replies, received, connected)
  BY RepliesAre
<1>4. AreRight(stream, replies, received', connected')
  BY <1>1, <1>2, <1>3, AreRightStays
<1> QED
  BY <1>4, RepliesAre

(* A 400 is about a whole line that is no request line. *)
LEMMA BadRequestIsRight ==
  ASSUME IInv, ParseInv, RepliesAreTheStreams, connected, BadRequest
  PROVE  RepliesAreTheStreams'
<1> DEFINE reply == [kind |-> "400", text |-> BadRequestText, end |-> Consumed]
<1>1. /\ phase = "parsed" /\ ~isOk /\ connected' = FALSE
      /\ Send(reply) /\ UNCHANGED <<stream, received>>
  BY DEF BadRequest
<1>2. /\ LineEnds(Left) # {}
      /\ LineEndingAt(Left, Min(LineEnds(Left))) # <<Good>>
  BY <1>1 DEF ParseInv
<1>3. Answered = Consumed
  <2>1. state_ = "kExpectRequestLine"
    BY <1>1 DEF ParseInv, IInv, TypeOK
  <2> QED
    BY <2>1 DEF ParseInv
<1>4. SubSeq(stream, Answered + 1, Consumed) = <<>>
  BY <1>3, PlacesAre, SubSeqEmpty
<1>5. Left = SubSeq(stream, Answered + 1, received)
  BY <1>3 DEF Left
<1>6. IsRight(stream, Answered, reply, received)
  BY <1>2, <1>4, <1>5, Zenon DEF IsRight
<1>7. BadRequestText \in Texts
  BY DEF Texts
<1> QED
  BY <1>1, <1>6, <1>7, SendIsRight

(* The second element of a response that stays open. *)
LEMMA SecondOf ==
  ASSUME NEW a, NEW b, NEW c, NEW d, NEW e, NEW f, NEW g
  PROVE  /\ 2 \in DOMAIN (<<a>> \o <<b, c>> \o <<d, e>> \o <<f, g>>)
         /\ (<<a>> \o <<b, c>> \o <<d, e>> \o <<f, g>>)[2] = b
OBVIOUS

(* A reply is to the request that was taken, as its headers ask, and has a *)
(* length or is the last.                                                  *)
LEMMA OnRequestIsRight ==
  ASSUME IInv, ParseInv, RepliesAreTheStreams, connected, OnRequest
  PROVE  RepliesAreTheStreams'
<1> DEFINE response == HttpCallback(NewResponse(request_.connection = "close"))
           text == AppendToBuffer(response)
           kind == request_.connection
           reply == [kind |-> kind, text |-> text, end |-> Consumed]
<1>1. /\ phase = "parsed" /\ isOk /\ state_ = "kGotAll"
      /\ connected' = (connected /\ ~response.closeConnection_)
      /\ Send(reply) /\ UNCHANGED <<stream, received>>
  BY DEF OnRequest, Respond
<1>2. IsRequest(Taken) /\ AsksFor(Taken) = kind
  BY <1>1 DEF ParseInv
<1>3. kind \in {"", "close", "Keep-Alive"}
  BY DEF IInv, TypeOK
<1>4. kind # "400"
  BY <1>3
<1>5. IsRight(stream, Answered, reply, received)
  <2>1. reply.kind = kind /\ reply.end = Consumed
    OBVIOUS
  <2> HIDE DEF reply, kind
  <2> QED
    BY <1>2, <1>4, <2>1, Zenon DEF IsRight, Taken
<1>6. text \in Texts
  BY DEF Texts
<1>7. HasLength(text) \/ ~connected'
  <2>1. CASE kind = "close"
    BY <1>1, <2>1 DEF HttpCallback, NewResponse
  <2>2. CASE kind # "close"
    <3>1. text = <<"200 OK">> \o <<"Content-Length", Keep>>
                   \o <<"User-Agent", "server">> \o <<"", "Hello World!">>
      BY <2>2 DEF AppendToBuffer, HttpCallback, NewResponse
    <3>2. 2 \in DOMAIN text /\ text[2] = "Content-Length"
      <4> DEFINE a == "200 OK"
                 b == "Content-Length"
                 d == "User-Agent"
                 e == "server"
                 f == ""
                 g == "Hello World!"
      <4>1. text = <<a>> \o <<b, Keep>> \o <<d, e>> \o <<f, g>>
        BY <3>1
      <4> HIDE DEF text, a, b, d, e, f, g
      <4>2. 2 \in DOMAIN text /\ text[2] = b
        BY <4>1, SecondOf
      <4> QED
        BY <4>2 DEF b
    <3> QED
      BY <3>2 DEF HasLength
  <2> QED
    BY <2>1, <2>2
<1> HIDE DEF response, text, kind
<1> QED
  BY <1>1, <1>3, <1>5, <1>6, <1>7, SendIsRight

----------------------------------------------------------------------------
(* The inductive invariant of the replies.  Without a connection nothing    *)
(* is sent, and the parser may stand anywhere.                              *)
FullInv ==
  /\ IInv
  /\ stream \in Streams
  /\ connected => ParseInv
  /\ RepliesAreTheStreams

(* The initial states satisfy it. *)
LEMMA InitFullInv == ASSUME Init PROVE FullInv
<1>1. IInv /\ stream \in Streams
  BY InitIInv DEF Init
<1>2. ParseInv
  <2>1. ReadableBytes(buffer) = 0
    BY SizesAssumption DEF Init, NewBuffer, ReadableBytes
  <2>2. Consumed = 0 /\ Answered = 0
    BY <2>1 DEF Init, Consumed, Answered
  <2> QED
    BY <2>2 DEF ParseInv, Init
<1>3. RepliesAreTheStreams
  <2>1. Len(<<>>) = 0
    BY EmptySeq
  <2>2. Len(replies) = 0
    BY <2>1, Zenon DEF Init
  <2>3. AreRight(stream, replies, received, connected)
    BY <2>2 DEF AreRight
  <2> QED
    BY <2>3, RepliesAre
<1> QED
  BY <1>1, <1>2, <1>3 DEF FullInv

(* Without a connection nothing is sent, and none comes back. *)
LEMMA ClosedStaysClosed ==
  ASSUME IInv, [Next]_vars
  PROVE  /\ connected' => connected
         /\ ~connected => replies' = replies
         /\ stream' = stream /\ received' \in received .. Len(stream)
<1>0. received \in received .. Len(stream)
  BY PlacesAre
<1>1. ASSUME NEW n \in 0 .. Len(stream), HandleRead(n)
      PROVE  received' \in received .. Len(stream)
  BY <1>1, ReadKeepsPlace
<1>2. ASSUME HandleClose \/ SetMethodAsserts \/ LineIsIncomplete \/ NeedsMore
             \/ UNCHANGED vars
      PROVE  UNCHANGED <<stream, received, connected, replies>>
  BY <1>2 DEF vars, HandleClose, SetMethodAsserts, LineIsIncomplete, NeedsMore
<1>3. ASSUME ProcessRequestLine \/ AddHeader \/ HeadersEnd
      PROVE  UNCHANGED <<stream, received, connected, replies>>
  BY <1>3, Zenon DEF ProcessRequestLine, AddHeader, HeadersEnd
<1>4. ASSUME NEW n \in 0 .. Len(stream), HandleRead(n)
      PROVE  UNCHANGED <<stream, connected, replies>>
  BY <1>4 DEF HandleRead
<1>5. ASSUME BadRequest \/ OnRequest
      PROVE  /\ connected' => connected
             /\ ~connected => replies' = replies
             /\ UNCHANGED <<stream, received>>
  BY <1>5, Zenon DEF BadRequest, OnRequest, Respond, Send
<1> QED
  BY <1>0, <1>1, <1>2, <1>3, <1>4, <1>5 DEF Next

(* Replies come from the end of onMessage() alone. *)
LEMMA OnlyAnswersSend ==
  ASSUME [Next]_vars, ~(BadRequest \/ OnRequest)
  PROVE  replies' = replies
<1>1. ASSUME HandleClose \/ SetMethodAsserts \/ LineIsIncomplete \/ NeedsMore
             \/ UNCHANGED vars
      PROVE  replies' = replies
  BY <1>1 DEF vars, HandleClose, SetMethodAsserts, LineIsIncomplete, NeedsMore
<1>2. ASSUME ProcessRequestLine \/ AddHeader \/ HeadersEnd
      PROVE  replies' = replies
  BY <1>2, Zenon DEF ProcessRequestLine, AddHeader, HeadersEnd
<1>3. ASSUME NEW n \in 0 .. Len(stream), HandleRead(n)
      PROVE  replies' = replies
  BY <1>3 DEF HandleRead
<1> QED
  BY <1>1, <1>2, <1>3 DEF Next

(* A step keeps it. *)
LEMMA NextFullInv == ASSUME FullInv, [Next]_vars PROVE FullInv'
<1>1. /\ IInv /\ stream \in Streams
      /\ connected => ParseInv
      /\ RepliesAreTheStreams
  BY DEF FullInv
<1>2. /\ connected' => connected
      /\ ~connected => replies' = replies
      /\ stream' = stream /\ received' \in received .. Len(stream)
  BY <1>1, ClosedStaysClosed
<1>3. IInv' /\ stream' \in Streams /\ (connected' => ParseInv')
  BY <1>1, <1>2, NextIInv, NextKeepsParse
<1>4. RepliesAreTheStreams'
  <2>1. CASE connected /\ BadRequest
    BY <1>1, <2>1, BadRequestIsRight
  <2>2. CASE connected /\ OnRequest
    BY <1>1, <2>2, OnRequestIsRight
  <2>3. CASE ~(connected /\ BadRequest) /\ ~(connected /\ OnRequest)
    <3>1. connected \in BOOLEAN
      BY <1>1 DEF IInv, TypeOK
    <3>2. CASE ~(BadRequest \/ OnRequest)
      <4>1. replies' = replies
        BY <1>1, <3>2, OnlyAnswersSend
      <4> QED
        BY <1>1, <1>2, <4>1, SilenceIsRight
    <3>3. CASE BadRequest \/ OnRequest
      <4>1. replies' = replies
        BY <1>2, <2>3, <3>1, <3>3
      <4> QED
        BY <1>1, <1>2, <4>1, SilenceIsRight
    <3> QED
      BY <3>2, <3>3
  <2> QED
    BY <2>1, <2>2, <2>3
<1> QED
  BY <1>3, <1>4 DEF FullInv

(* The replies are those to the requests of the stream, in order and       *)
(* without gaps, each as its own headers ask, a 400 only to a whole line   *)
(* that is no request line; and a client can tell where each ends          *)
(* (HttpServer.cpp:46-87, HttpResponse.cpp:43-71). For every set of        *)
(* streams, however they are cut, and every size of the buffer.            *)
THEOREM RepliesCorrect == Spec => []RepliesAreTheStreams
<1>1. FullInv => RepliesAreTheStreams
  BY DEF FullInv
<1> QED
  BY <1>1, InitFullInv, NextFullInv, PTL DEF Spec

----------------------------------------------------------------------------
(* A whole request has arrived since the last reply. *)
WholeRequest ==
  \E e \in Answered + 1 .. received :
    IsRequest(SubSeq(stream, Answered + 1, e))

ReturnsAnswered ==
  /\ phase' = "poll"
  /\ (Len(replies') > Len(replies) /\ isOk) <=> WholeRequest

(* Nothing that has arrived begins with a request when a 400 is given. *)
LEMMA BadRequestReturns ==
  ASSUME IInv, ParseInv, BadRequest
  PROVE  ReturnsAnswered
<1>1. phase = "parsed" /\ ~isOk /\ phase' = "poll"
  BY DEF BadRequest
<1>2. state_ = "kExpectRequestLine"
  BY <1>1 DEF ParseInv, IInv, TypeOK
<1>3. /\ Answered = Consumed
      /\ LineEndingAt(Left, Min(LineEnds(Left))) # <<Good>>
  BY <1>1, <1>2 DEF ParseInv
<1> DEFINE a == Answered
<1>4. stream \in Seq(Character) /\ a \in 0 .. Len(stream)
      /\ received \in a .. Len(stream)
  BY <1>3, PlacesAre
<1>5. Left = SubSeq(stream, a + 1, received)
  BY <1>3 DEF Left
<1>6. ~WholeRequest
  <2> SUFFICES ASSUME NEW e \in a + 1 .. received
               PROVE  ~IsRequest(SubSeq(stream, a + 1, e))
    BY DEF WholeRequest
  <2> HIDE DEF a
  <2> QED
    BY <1>3, <1>4, <1>5, NoRequestThere
<1> QED
  BY <1>1, <1>6 DEF ReturnsAnswered

(* What was taken is a whole request when it is answered. *)
LEMMA OnRequestReturns ==
  ASSUME IInv, ParseInv, connected, OnRequest
  PROVE  ReturnsAnswered
<1>1. phase = "parsed" /\ isOk /\ phase' = "poll" /\ state_ = "kGotAll"
  BY DEF OnRequest
<1>2. IsRequest(Taken) /\ Answered <= Consumed
  BY <1>1 DEF ParseInv
<1>3. Len(replies') > Len(replies)
  <2> DEFINE response ==
               HttpCallback(NewResponse(request_.connection = "close"))
             reply == [kind |-> request_.connection,
                       text |-> AppendToBuffer(response), end |-> Consumed]
  <2>1. replies' = Append(replies, reply)
    BY DEF OnRequest, Respond, Send
  <2> HIDE DEF reply
  <2> QED
    BY <2>1, AnsweredIsNat, LenGrows DEF Replies
<1>4. WholeRequest
  <2>1. /\ Answered \in Nat /\ Consumed \in Nat /\ received \in Nat
        /\ Consumed <= received /\ Len(stream) \in Nat
    BY AnsweredIsNat, PlacesAre
  <2>2. Answered # Consumed
    <3> SUFFICES ASSUME Answered = Consumed PROVE FALSE
      OBVIOUS
    <3>1. Taken = <<>>
      BY <2>1, SubSeqEmpty DEF Taken
    <3>2. Len(Taken) \in LineEnds(Taken)
      BY <1>2 DEF IsRequest
    <3>3. Len(Taken) \in 2 .. Len(Taken) /\ Len(<<>>) = 0
      BY <3>2, EmptySeq DEF LineEnds
    <3> QED
      BY <3>1, <3>3
  <2>3. Consumed \in Answered + 1 .. received
    BY <1>2, <2>1, <2>2
  <2> QED
    BY <1>2, <2>3 DEF WholeRequest, Taken
<1> QED
  BY <1>1, <1>3, <1>4 DEF ReturnsAnswered

(* No request is whole when onMessage() waits for more. *)
LEMMA NeedsMoreReturns ==
  ASSUME IInv, ParseInv, NeedsMore
  PROVE  ReturnsAnswered
<1>1. /\ phase = "parsed" /\ isOk /\ phase' = "poll" /\ state_ # "kGotAll"
      /\ replies' = replies
  BY DEF NeedsMore
<1>2. LineEnds(Left) = {} /\ Answered <= Consumed
  BY <1>1 DEF ParseInv
<1> DEFINE a == Answered
           c == Consumed
           n == received
<1>3. stream \in Seq(Character) /\ a \in 0 .. Len(stream)
      /\ c \in a .. Len(stream)
      /\ n \in c .. Len(stream) /\ a \in Nat /\ c \in Nat
  BY <1>2, PlacesAre, AnsweredIsNat
<1>4. LineEnds(SubSeq(stream, c + 1, n)) = {}
  BY <1>2 DEF Left
<1>5. ~WholeRequest
  <2> SUFFICES ASSUME NEW e \in a + 1 .. n
               PROVE  ~IsRequest(SubSeq(stream, a + 1, e))
    BY DEF WholeRequest
  <2>1. CASE state_ = "kExpectHeader"
    <3>1. InHeaders(Taken, request_.connection)
      BY <2>1 DEF ParseInv
    <3>2. InHeaders(SubSeq(stream, a + 1, c), request_.connection)
      BY <3>1 DEF Taken
    <3> HIDE DEF a, c, n
    <3> QED
      BY <1>3, <1>4, <3>2, NoRequestYet
  <2>2. CASE state_ = "kExpectRequestLine"
    <3>1. a = c
      BY <2>2 DEF ParseInv
    <3> HIDE DEF a, c, n
    <3>2. LineEnds(SubSeq(stream, a + 1, n)) = {}
      BY <1>4, <3>1
    <3>3. e \in a .. Len(stream) /\ n \in e .. Len(stream)
          /\ a \in 0 .. Len(stream)
      BY <1>3
    <3> DEFINE p == SubSeq(stream, a + 1, e)
               q == SubSeq(stream, e + 1, n)
    <3>4. p \in Seq(Character) /\ q \in Seq(Character)
          /\ p \o q = SubSeq(stream, a + 1, n)
      BY <1>3, <3>3, PiecesJoin
    <3> HIDE DEF p, q
    <3>5. LineEnds(p) = {}
      <4>1. LineEnds(p) = {k \in LineEnds(p \o q) : k <= Len(p)}
        BY <3>4, PrefixLines
      <4> QED
        BY <3>2, <3>4, <4>1
    <3>6. ~IsRequest(p)
      BY <3>5 DEF IsRequest
    <3> QED
      BY <3>6 DEF p
  <2> QED
    BY <1>1, <2>1, <2>2 DEF IInv, TypeOK
<1> QED
  BY <1>1, <1>5, AnsweredIsNat DEF ReturnsAnswered

(* onMessage() on a connection in use returns, and has answered a request  *)
(* exactly if a whole one had arrived; setMethod() is never called for a   *)
(* method that is set (HttpServer.cpp:46-58, HttpContext.cpp:13-65,        *)
(* HttpRequest.cpp:17).                                                    *)
THEOREM AnsweredCorrect == Spec => WholeRequestIsAnswered
<1> DEFINE Answers ==
      connected /\ phase \in {"parse", "parsed"}
        /\ phase' \notin {"parse", "parsed"} =>
      /\ phase' = "poll"
      /\ (Len(replies') > Len(replies) /\ isOk) <=>
           \E e \in Answered + 1 .. received :
             IsRequest(SubSeq(stream, Answered + 1, e))
<1>1. ASSUME FullInv, [Next]_vars PROVE [Answers]_vars
  <2> SUFFICES ASSUME Next, connected, phase \in {"parse", "parsed"},
                      phase' \notin {"parse", "parsed"}
               PROVE  ReturnsAnswered
    BY <1>1 DEF ReturnsAnswered, WholeRequest
  <2>1. IInv /\ ParseInv
    BY <1>1 DEF FullInv
  <2>2. ~SetMethodAsserts
    <3> SUFFICES ASSUME SetMethodAsserts PROVE FALSE
      OBVIOUS
    <3>1. isOk /\ state_ = "kExpectRequestLine"
          /\ request_.method_ # "kInvalid"
      BY <2>1 DEF SetMethodAsserts, ExpectRequestLine, ParseInv
    <3>2. request_ = NewRequest
      BY <2>1, <3>1 DEF ParseInv
    <3> QED
      BY <3>1, <3>2, Zenon DEF NewRequest
  <2>3. BadRequest \/ OnRequest \/ NeedsMore
    BY <2>2 DEF Next, HandleRead, HandleClose, ProcessRequestLine, AddHeader,
                HeadersEnd, LineIsIncomplete
  <2> QED
    BY <2>1, <2>3, BadRequestReturns, OnRequestReturns, NeedsMoreReturns
<1>2. Spec => [][Answers]_vars
  BY <1>1, InitFullInv, NextFullInv, PTL DEF Spec
<1> QED
  BY <1>2 DEF WholeRequestIsAnswered

----------------------------------------------------------------------------
(* web-5.11: one connection. *)

(* FlattenSeq() of no sequence, of one, and of one more: what its recursive  *)
(* function says, read from the back.                                        *)
Flattens(s, f, n) ==
  /\ f = [i \in 1 .. n |-> f[i]]
  /\ \A i \in 1 .. n : f[i] = IF i = 1 THEN s[i] ELSE f[i - 1] \o s[i]

(* Every sequence has such a function, built place by place. *)
LEMMA FlattensExists ==
  ASSUME NEW s, NEW n \in Nat
  PROVE  \E f : Flattens(s, f, n)
<1> DEFINE bad == {k \in Nat : ~ \E f : Flattens(s, f, k)}
<1>1. CASE bad = {}
  BY <1>1
<1>2. CASE bad # {}
  <2>1. PICK k \in bad : \A j \in bad : k <= j
    <3>1. bad \in SUBSET Nat
      OBVIOUS
    <3> HIDE DEF bad
    <3> QED
      BY <1>2, <3>1, MinIsLeast
  <2>2. k \in Nat /\ ~ \E f : Flattens(s, f, k)
    BY <2>1
  <2>3. k # 0
    <3>1. Flattens(s, [i \in 1 .. 0 |-> 0], 0)
      BY DEF Flattens
    <3> QED
      BY <2>2, <3>1
  <2>4. k - 1 \in Nat /\ k - 1 \notin bad
    <3> HIDE DEF bad
    <3>1. k - 1 \in Nat /\ ~(k <= k - 1)
      BY <2>2, <2>3
    <3> QED
      BY <2>1, <3>1
  <2>5. PICK f : Flattens(s, f, k - 1)
    BY <2>4
  <2> DEFINE g == [i \in 1 .. k |-> IF i = k THEN IF k = 1 THEN s[k] ELSE f[k - 1] \o s[k]
                                    ELSE f[i]]
  <2>6. ASSUME NEW i \in 1 .. k
        PROVE  g[i] = IF i = 1 THEN s[i] ELSE g[i - 1] \o s[i]
    <3>1. CASE i = k
      <4>1. k # 1 => k - 1 \in 1 .. k /\ k - 1 # k /\ g[k - 1] = f[k - 1]
        BY <2>2, <2>3
      <4>2. g[k] = IF k = 1 THEN s[k] ELSE f[k - 1] \o s[k]
        BY <2>2, <2>3
      <4> HIDE DEF g
      <4> QED
        BY <3>1, <4>1, <4>2
    <3>2. CASE i # k
      <4>1. i \in 1 .. k - 1 /\ g[i] = f[i]
        BY <2>2, <3>2
      <4>2. i # 1 => i - 1 \in 1 .. k /\ i - 1 # k /\ g[i - 1] = f[i - 1]
        BY <2>2, <3>2
      <4>3. f[i] = IF i = 1 THEN s[i] ELSE f[i - 1] \o s[i]
        BY <2>5, <4>1 DEF Flattens
      <4> HIDE DEF g
      <4> QED
        BY <4>1, <4>2, <4>3
    <3> QED
      BY <3>1, <3>2
  <2>7. g = [i \in 1 .. k |-> g[i]]
    OBVIOUS
  <2>8. Flattens(s, g, k)
    <3> HIDE DEF g
    <3> QED
      BY <2>6, <2>7 DEF Flattens
  <2> QED
    BY <2>2, <2>8
<1> QED
  BY <1>1, <1>2

(* FlattenSeq() is the last value of such a function. *)
LEMMA FlattenIs ==
  ASSUME NEW s, Len(s) \in Nat, Len(s) # 0
  PROVE  \E f : Flattens(s, f, Len(s)) /\ FlattenSeq(s) = f[Len(s)]
<1> DEFINE n == Len(s)
<1> DEFINE Eq(f) == f = [i \in 1 .. n |-> IF i = 1 THEN s[i] ELSE f[i - 1] \o s[i]]
<1>1. PICK g : Flattens(s, g, n)
  BY FlattensExists
<1>2. Eq(g)
  <2>1. g = [i \in 1 .. n |-> g[i]]
    BY <1>1 DEF Flattens
  <2>2. \A i \in 1 .. n : g[i] = IF i = 1 THEN s[i] ELSE g[i - 1] \o s[i]
    BY <1>1 DEF Flattens
  <2>3. [i \in 1 .. n |-> g[i]]
          = [i \in 1 .. n |-> IF i = 1 THEN s[i] ELSE g[i - 1] \o s[i]]
    BY <2>2
  <2> QED
    BY <2>1, <2>3
<1> DEFINE h == CHOOSE f : Eq(f)
<1>3. Eq(h)
  <2> HIDE DEF Eq
  <2> QED
    BY <1>2
<1>4. FlattenSeq(s) = h[n]
  BY Zenon DEF FlattenSeq
<1>5. Flattens(s, h, n)
  <2> HIDE DEF h
  <2>1. \A i \in 1 .. n : h[i] = IF i = 1 THEN s[i] ELSE h[i - 1] \o s[i]
    BY <1>3, Zenon
  <2>2. [i \in 1 .. n |-> h[i]]
          = [i \in 1 .. n |-> IF i = 1 THEN s[i] ELSE h[i - 1] \o s[i]]
    BY <2>1
  <2>3. h = [i \in 1 .. n |-> h[i]]
    BY <1>3, <2>2
  <2> QED
    BY <2>1, <2>3 DEF Flattens
<1> QED
  BY <1>4, <1>5

(* What two sequences have in common is flattened alike. *)
LEMMA FlattensAgree ==
  ASSUME NEW s, NEW t, NEW m \in Nat, NEW n \in Nat, NEW f, NEW g, n <= m,
         Flattens(s, f, m), Flattens(t, g, n), \A i \in 1 .. n : s[i] = t[i],
         n # 0
  PROVE  f[n] = g[n]
<1> DEFINE bad == {k \in 1 .. n : f[k] # g[k]}
<1> SUFFICES ASSUME bad # {} PROVE FALSE
  BY bad = {}
<1>1. PICK k \in bad : \A j \in bad : k <= j
  <2>1. bad \in SUBSET Nat
    OBVIOUS
  <2> HIDE DEF bad
  <2> QED
    BY <2>1, MinIsLeast
<1>2. k \in 1 .. n /\ k \in 1 .. m /\ f[k] # g[k] /\ s[k] = t[k]
  BY <1>1
<1>3. f[k] = IF k = 1 THEN s[k] ELSE f[k - 1] \o s[k]
  BY <1>2 DEF Flattens
<1>4. g[k] = IF k = 1 THEN t[k] ELSE g[k - 1] \o t[k]
  BY <1>2 DEF Flattens
<1>5. k # 1 => f[k - 1] = g[k - 1]
  <2>1. k # 1 => k - 1 \in 1 .. n /\ ~(k <= k - 1)
    BY <1>2
  <2>2. k # 1 => k - 1 \notin bad
    <3> HIDE DEF bad
    <3> QED
      BY <1>1, <2>1
  <2> QED
    BY <2>1, <2>2
<1> QED
  BY <1>2, <1>3, <1>4, <1>5

(* Of no sequence. *)
LEMMA FlattenOfNone == FlattenSeq(<<>>) = <<>>
BY DEF FlattenSeq

(* Of one. *)
LEMMA FlattenOfOne ==
  ASSUME NEW S, NEW b \in S
  PROVE  FlattenSeq(<<b>>) = b
<1> DEFINE s == <<b>>
<1>1. Len(s) = 1 /\ s[1] = b
  OBVIOUS
<1> HIDE DEF s
<1>2. \E f : Flattens(s, f, Len(s)) /\ FlattenSeq(s) = f[Len(s)]
  <2>1. Len(s) \in Nat /\ Len(s) # 0
    BY <1>1
  <2> QED
    BY <2>1, FlattenIs
<1>3. PICK f : Flattens(s, f, 1) /\ FlattenSeq(s) = f[1]
  BY <1>1, <1>2
<1>4. f[1] = s[1]
  BY <1>3 DEF Flattens
<1> QED
  BY <1>1, <1>3, <1>4 DEF s

OneMore(s, t, n) ==
  /\ Len(t) = n /\ Len(s) = n + 1
  /\ \A i \in 1 .. n : s[i] = t[i]
  /\ n = 0 => t = <<>>

LEMMA FlattenOfMore ==
  ASSUME NEW S, NEW s, NEW t, NEW n \in Nat, OneMore(s, t, n), s[n + 1] \in Seq(S)
  PROVE  FlattenSeq(s) = FlattenSeq(t) \o s[n + 1]
<1>0. /\ Len(t) = n /\ Len(s) = n + 1
      /\ \A i \in 1 .. n : s[i] = t[i]
      /\ n = 0 => t = <<>>
  BY DEF OneMore
<1>1. PICK f : Flattens(s, f, n + 1) /\ FlattenSeq(s) = f[n + 1]
  <2>1. Len(s) \in Nat /\ Len(s) # 0
    BY <1>0
  <2>2. \E f : Flattens(s, f, Len(s)) /\ FlattenSeq(s) = f[Len(s)]
    BY <2>1, FlattenIs, Zenon
  <2> QED
    BY <1>0, <2>2
<1>2. f[n + 1] = IF n + 1 = 1 THEN s[n + 1] ELSE f[(n + 1) - 1] \o s[n + 1]
  <2>1. n + 1 \in 1 .. n + 1
    OBVIOUS
  <2>2. \A i \in 1 .. n + 1 : f[i] = IF i = 1 THEN s[i] ELSE f[i - 1] \o s[i]
    BY <1>1, Zenon DEF Flattens
  <2> QED
    BY <2>1, <2>2, Zenon
<1>3. CASE n = 0
  <2>1. FlattenSeq(t) = <<>>
    BY <1>0, <1>3, FlattenOfNone
  <2>2. <<>> \o s[n + 1] = s[n + 1]
    BY ConcatEmptySeq
  <2> QED
    BY <1>1, <1>2, <1>3, <2>1, <2>2
<1>4. CASE n # 0
  <2>1. PICK g : Flattens(t, g, n) /\ FlattenSeq(t) = g[n]
    BY <1>0, <1>4, FlattenIs
  <2>2. f[n] = g[n]
    BY <1>0, <1>1, <1>4, <2>1, FlattensAgree
  <2>3. (n + 1) - 1 = n /\ n + 1 # 1
    BY <1>4
  <2> QED
    BY <1>1, <1>2, <2>1, <2>2, <2>3
<1> QED
  BY <1>3, <1>4

(* What the client gets. *)
ConnByte == Seq(STRING)
Codes == {"NO_RESOURCE", "FORBIDDEN_REQUEST", "BAD_REQUEST", "FILE_REQUEST"}
Urls == {""} \cup DOMAIN File
Units ==
  (Codes \X Urls \X BOOLEAN \X {"header"} \X (1 .. 2))
    \cup (Codes \X Urls \X BOOLEAN \X {"file"})

(* A tuple of members is in the product. *)
LEMMA InProduct ==
  ASSUME NEW A, NEW B, NEW C, NEW D, NEW E,
         NEW a \in A, NEW b \in B, NEW c \in C, NEW d \in D, NEW e \in E
  PROVE  <<a, b, c, d>> \in A \X B \X C \X D /\ <<a, b, c, d, e>> \in A \X B \X C \X D \X E
OBVIOUS

(* A response is of units, at least the two of its header. *)
LEMMA ResponseIs ==
  ASSUME NEW code \in Codes, NEW url \in Urls, NEW linger \in BOOLEAN
  PROVE  /\ Response(code, url, linger) \in Seq(Units)
         /\ Len(Response(code, url, linger)) >= 2
<1> DEFINE head == Header(code, url, linger)
           file == IF code = "FILE_REQUEST" THEN <<<<code, url, linger, "file">>>> ELSE <<>>
           f == <<code, url, linger, "file">>
<1>0. "header" \in {"header"} /\ "file" \in {"file"}
  BY Zenon
<1>1. ASSUME NEW i \in 1 .. 2 PROVE <<code, url, linger, "header", i>> \in Units
  <2>1. <<code, url, linger, "header", i>> \in Codes \X Urls \X BOOLEAN \X {"header"} \X (1 .. 2)
    BY <1>0, InProduct, Zenon
  <2> QED
    BY <2>1, Zenon DEF Units
<1>2. head \in [1 .. 2 -> Units]
  BY <1>1 DEF Header
<1>3. head \in Seq(Units) /\ Len(head) = 2
  <2> HIDE DEF head
  <2>1. \A n \in Nat : \A g \in [1 .. n -> Units] : g \in Seq(Units) /\ Len(g) = n
    BY FunctionIsSeq
  <2> QED
    BY <1>2, <2>1
<1>4. f \in Units
  <2>1. f \in Codes \X Urls \X BOOLEAN \X {"file"}
    BY <1>0, InProduct, Zenon
  <2> QED
    BY <2>1, Zenon DEF Units
<1>5. file \in Seq(Units) /\ Len(file) \in Nat
  <2> HIDE DEF f
  <2>1. <<f>> \in Seq(Units) /\ <<>> \in Seq(Units)
    BY <1>4
  <2>2. file = <<f>> \/ file = <<>>
    BY Zenon DEF f
  <2>3. file \in Seq(Units)
    BY <2>1, <2>2, Zenon
  <2> QED
    BY <2>3, LenProperties
<1>6. Response(code, url, linger) = head \o file
  BY Zenon DEF Response
<1> HIDE DEF head, file
<1>7. head \o file \in Seq(Units) /\ Len(head \o file) = Len(head) + Len(file)
  BY <1>3, <1>5, ConcatProperties
<1> QED
  BY <1>3, <1>5, <1>6, <1>7

(* do_request() returns one of the codes. *)
LEMMA DoRequestIs ==
  ASSUME NEW url \in DOMAIN File
  PROVE  DoRequest(url) \in Codes
<1>1. File[url] \in {"none", "private", "directory", "file"}
  BY HttpConnAssumption, Zenon
<1>2. CASE File[url] = "none"
  BY <1>2 DEF DoRequest, Codes
<1>3. CASE File[url] = "private"
  BY <1>3 DEF DoRequest, Codes
<1>4. CASE File[url] = "directory"
  BY <1>4 DEF DoRequest, Codes
<1>5. CASE File[url] = "file"
  BY <1>5 DEF DoRequest, Codes
<1> QED
  BY <1>1, <1>2, <1>3, <1>4, <1>5, Zenon

(* The first byte of a request is what Expected() calls its head. *)
LEMMA HeadIs ==
  ASSUME NEW r \in Seq(ConnByte)
  PROVE  /\ FlattenSeq(SubSeq(r, 1, 1)) \in ConnByte
         /\ r # <<>> => FlattenSeq(SubSeq(r, 1, 1)) = r[1]
<1>1. Len(r) \in Nat
  BY LenProperties
<1>2. CASE r = <<>>
  <2>1. SubSeq(r, 1, 1) = <<>>
    BY <1>2
  <2>2. FlattenSeq(SubSeq(r, 1, 1)) = <<>>
    BY <2>1, FlattenOfNone
  <2>3. <<>> \in ConnByte
    BY DEF ConnByte
  <2> QED
    BY <1>2, <2>2, <2>3
<1>3. CASE r # <<>>
  <2>1. Len(r) >= 1 /\ 1 \in 1 .. Len(r)
    BY <1>1, <1>3, EmptySeq
  <2>2. SubSeq(r, 1, 1) = <<r[1]>>
    BY <2>1, FirstAlone
  <2>3. r[1] \in ConnByte
    BY <2>1, ElementOfSeq
  <2>4. FlattenSeq(<<r[1]>>) = r[1]
    BY <2>3, FlattenOfOne
  <2> QED
    BY <2>2, <2>3, <2>4
<1> QED
  BY <1>2, <1>3

(* A request line is three words, of which the second is a url of the File.  *)
LEMMA UrlIs ==
  ASSUME NEW words, IsRequestLine(words)
  PROVE  words[2] \in DOMAIN File /\ words[2] \in Urls /\ DoRequest(words[2]) \in Codes
<1>1. words[2] \in DOMAIN File
  BY Zenon DEF IsRequestLine
<1>2. words[2] \in Urls
  BY <1>1, Zenon DEF Urls
<1> QED
  BY <1>1, <1>2, DoRequestIs

(* The response to what is no HTTP. *)
LEMMA NoUrlIs == "" \in Urls /\ "BAD_REQUEST" \in Codes
BY Zenon DEF Urls, Codes

(* What is owed for a request is of units, and not nothing. *)
LEMMA ExpectedIs ==
  ASSUME NEW r \in Requests
  PROVE  Expected(r) \in Seq(Units) /\ Len(Expected(r)) >= 2
<1> DEFINE head == FlattenSeq(SubSeq(r, 1, 1))
           linger == <<"Connection:", "keep-alive">> \in {r[i] : i \in 2..Len(r)}
<1>1. r \in Seq(ConnByte)
  BY RequestsAssumption DEF ConnByte
<1>2. head \in ConnByte
  BY <1>1, HeadIs
<1>3. Expected(r) = IF ~IsRequestLine(head) THEN Response("BAD_REQUEST", "", FALSE)
                    ELSE Response(DoRequest(head[2]), head[2], linger)
  BY Zenon DEF Expected
<1>4. linger \in BOOLEAN
  OBVIOUS
<1> HIDE DEF head, linger
<1>5. CASE IsRequestLine(head)
  <2>1. head[2] \in Urls /\ DoRequest(head[2]) \in Codes
    BY <1>5, UrlIs
  <2> DEFINE url == head[2]
             code == DoRequest(url)
  <2>3. Expected(r) = Response(code, url, linger)
    BY <1>3, <1>5, Zenon
  <2> HIDE DEF url, code
  <2>4. url \in Urls /\ code \in Codes
    BY <2>1 DEF url, code
  <2> QED
    BY <1>4, <2>3, <2>4, ResponseIs
<1>6. CASE ~IsRequestLine(head)
  <2> DEFINE url == ""
             code == "BAD_REQUEST"
             no == FALSE
  <2>1. url \in Urls /\ code \in Codes /\ no \in BOOLEAN
    BY NoUrlIs, Zenon
  <2>2. Expected(r) = Response(code, url, no)
    BY <1>3, <1>6, Zenon
  <2> HIDE DEF url, code, no
  <2> QED
    BY <2>1, <2>2, ResponseIs
<1> QED
  BY <1>5, <1>6

(* The responses to the first n of the requests, one after the other. *)
Answers(requests, n) == FlattenSeq([i \in 1 .. n |-> Expected(requests[i])])

(* For no request there is nothing. *)
LEMMA AnswersToNone == ASSUME NEW a PROVE Answers(a, 0) = <<>>
<1>1. [i \in 1 .. 0 |-> Expected(a[i])] = <<>>
  OBVIOUS
<1> QED
  BY <1>1, FlattenOfNone DEF Answers

(* One request more adds its response behind the others. *)
LEMMA AnswersToMore ==
  ASSUME NEW a \in Seq(Requests), NEW n \in Nat, n + 1 <= Len(a)
  PROVE  Answers(a, n + 1) = Answers(a, n) \o Expected(a[n + 1])
<1> DEFINE t == [i \in 1 .. n |-> Expected(a[i])]
           s == [i \in 1 .. n + 1 |-> Expected(a[i])]
<1>1. Len(t) = n /\ Len(s) = n + 1
  OBVIOUS
<1>2. \A i \in 1 .. n : s[i] = t[i]
  OBVIOUS
<1>3. n + 1 \in 1 .. n + 1 /\ n + 1 \in 1 .. Len(a)
  BY LenProperties
<1>4. s[n + 1] = Expected(a[n + 1])
  BY <1>3
<1>5. a[n + 1] \in Requests
  BY <1>3, ElementOfSeq
<1>6. n = 0 => t = <<>>
  OBVIOUS
<1>7. Answers(a, n + 1) = FlattenSeq(s) /\ Answers(a, n) = FlattenSeq(t)
  BY DEF Answers
<1> HIDE DEF s, t
<1>8. s[n + 1] \in Seq(Units)
  BY <1>4, <1>5, ExpectedIs
<1>9. FlattenSeq(s) = FlattenSeq(t) \o s[n + 1]
  <2>1. OneMore(s, t, n)
    BY <1>1, <1>2, <1>6 DEF OneMore
  <2> QED
    BY <1>8, <2>1, FlattenOfMore
<1> QED
  BY <1>4, <1>7, <1>9

(* They are of units, for any number of requests. *)
LEMMA AnswersAreUnits ==
  ASSUME NEW a \in Seq(Requests), NEW n \in Nat, n <= Len(a)
  PROVE  Answers(a, n) \in Seq(Units)
<1> DEFINE bad == {k \in Nat : k <= Len(a) /\ Answers(a, k) \notin Seq(Units)}
<1>1. CASE bad = {}
  BY <1>1
<1>2. CASE bad # {}
  <2>1. PICK k \in bad : \A j \in bad : k <= j
    <3>1. bad \in SUBSET Nat
      OBVIOUS
    <3> HIDE DEF bad
    <3> QED
      BY <1>2, <3>1, MinIsLeast
  <2>2. k \in Nat /\ k <= Len(a) /\ Answers(a, k) \notin Seq(Units) /\ Len(a) \in Nat
    BY <2>1, LenProperties
  <2>3. k # 0
    <3>1. Answers(a, 0) = <<>> /\ <<>> \in Seq(Units)
      BY AnswersToNone
    <3> QED
      BY <2>2, <3>1
  <2> DEFINE j == k - 1
  <2>4. j \in Nat /\ j <= Len(a) /\ k = j + 1 /\ j + 1 <= Len(a) /\ ~(k <= j)
    BY <2>2, <2>3
  <2>5. Answers(a, j) \in Seq(Units)
    <3> HIDE DEF j
    <3>1. j \notin bad
      <4> HIDE DEF bad
      <4> QED
        BY <2>1, <2>4
    <3> QED
      BY <2>4, <3>1
  <2> HIDE DEF j
  <2>6. Answers(a, j + 1) = Answers(a, j) \o Expected(a[j + 1])
    BY <2>4, AnswersToMore
  <2>7. Expected(a[j + 1]) \in Seq(Units)
    <3>1. j + 1 \in 1 .. Len(a)
      BY <2>2, <2>4
    <3>2. a[j + 1] \in Requests
      BY <3>1, ElementOfSeq
    <3> QED
      BY <3>2, ExpectedIs
  <2>8. Answers(a, j) \o Expected(a[j + 1]) \in Seq(Units)
    BY <2>5, <2>7, ConcatProperties
  <2> QED
    BY <2>2, <2>4, <2>6, <2>8
<1> QED
  BY <1>1, <1>2

(* A request that comes later changes nothing of them. *)
LEMMA AnswersToSame ==
  ASSUME NEW a \in Seq(Requests), NEW r \in Requests, NEW n \in Nat, n <= Len(a)
  PROVE  Answers(Append(a, r), n) = Answers(a, n)
<1>1. \A i \in 1 .. n : Append(a, r)[i] = a[i]
  <2>1. \A i \in 1 .. Len(a) : Append(a, r)[i] = a[i]
    BY AppendProperties
  <2>2. Len(a) \in Nat
    BY LenProperties
  <2> QED
    BY <2>1, <2>2
<1>2. [i \in 1 .. n |-> Expected(Append(a, r)[i])] = [i \in 1 .. n |-> Expected(a[i])]
  BY <1>1
<1> QED
  BY <1>2 DEF Answers

(* What Owed() calls all that is owed. *)
LEMMA OwedIs ==
  ASSUME asked \in Seq(Requests)
  PROVE  Owed(Len(asked)) = Answers(asked, Len(asked))
<1> DEFINE n == Len(asked)
<1>1. n \in Nat
  BY LenProperties
<1>2. Owed(n) = FlattenSeq([i \in 1 .. Min({n, n}) |-> Expected(asked[i])])
  BY Zenon DEF Owed
<1> HIDE DEF n
<1>3. Min({n, n}) = n
  BY <1>1, MinIs
<1> QED
  BY <1>2, <1>3 DEF Answers, n

(* The parser of web-5.11. *)

KeepAlive == <<"Connection:", "keep-alive">>

(* The ends of a line are no text. *)
LEMMA BytesDiffer ==
  /\ CR # LF /\ CR # KeepAlive /\ LF # KeepAlive
  /\ ~IsRequestLine(CR) /\ ~IsRequestLine(<<>>) /\ ~IsRequestLine(LF)
<1>1. Len(CR) = 1 /\ Len(LF) = 1 /\ Len(KeepAlive) = 2 /\ Len(<<>>) = 0
  BY DEF CR, LF, KeepAlive
<1>2. CR # LF
  BY DEF CR, LF
<1> QED
  BY <1>1, <1>2 DEF IsRequestLine

(* No line has ended from the place a up to b. *)
Quiet(r, a, b) == \A i \in a + 1 .. b : r[i] # CR /\ r[i] # LF

(* The header that keeps the connection is before the place n.              *)
Lingers(r, n) == \E i \in 2 .. n : r[i] = KeepAlive

(* What the parser knows of the request r that it has not read to its end.  *)
ParserIsAt(r, checked, start, state, url, linger) ==
  /\ Quiet(r, start, checked)
  /\ \/ start = 0
     \/ start >= 2 /\ r[start - 1] = CR /\ r[start] = LF
  /\ \/ /\ state = "REQUESTLINE" /\ start = 0 /\ url = "" /\ linger = FALSE
     \/ /\ state = "HEADER" /\ start # 0
        /\ IsRequestLine(r[1]) /\ url = r[1][2]
        /\ linger <=> Lingers(r, start)

(* What has been read of the request r. *)
Reads(r) ==
  /\ r \in Seq(ConnByte) /\ m_read_buf \in Seq(ConnByte)
  /\ m_start_line \in Nat /\ m_checked_idx \in Nat
  /\ m_start_line <= m_checked_idx /\ m_checked_idx <= m_read_idx
  /\ m_read_idx <= Len(r)
  /\ \A i \in 1 .. m_read_idx : m_read_buf[i] = r[i]

(* What parse_line() returns: the line up to the first CR that LF follows,  *)
(* or that no line is there.                                                *)
LineEndsAt(r, i) ==
  /\ i \in m_checked_idx + 1 .. m_read_idx - 1
  /\ r[i] = CR /\ r[i + 1] = LF /\ Quiet(r, m_start_line, i - 1)
  /\ ParseLine = [status |-> "OK", end |-> i - 1, checked |-> i + 1]

NoLineYet(r) ==
  /\ ParseLine.status # "OK"
  /\ ParseLine.checked \in m_checked_idx .. m_read_idx
  /\ Quiet(r, m_start_line, ParseLine.checked)

(* Two stretches without an end of a line, one behind the other. *)
LEMMA QuietGrows ==
  ASSUME NEW r, NEW a \in Nat, NEW b \in Nat, NEW c \in Nat, Quiet(r, a, b),
         \A i \in b + 1 .. c : r[i] # CR /\ r[i] # LF
  PROVE  Quiet(r, a, c)
<1> SUFFICES ASSUME NEW i \in a + 1 .. c PROVE r[i] # CR /\ r[i] # LF
  BY DEF Quiet
<1>1. i \in a + 1 .. b \/ i \in b + 1 .. c
  OBVIOUS
<1> QED
  BY <1>1 DEF Quiet

(* parse_line() finds the first end of a line behind m_start_line. That LF   *)
(* stands alone behind a CR it has gone past cannot happen.                  *)
LEMMA ParseLineIs ==
  ASSUME NEW r, Reads(r), Quiet(r, m_start_line, m_checked_idx),
         m_start_line = 0 \/ r[m_start_line] = LF
  PROVE  (\E i : LineEndsAt(r, i)) \/ NoLineYet(r)
<1> DEFINE found == {i \in m_checked_idx + 1..m_read_idx : m_read_buf[i] \in {CR, LF}}
           m == Min(found)
           open == [status |-> "OPEN", end |-> 0, checked |-> 0]
           atEnd == m_read_buf[m] = CR /\ m = m_read_idx
           crlf == m_read_buf[m] = CR /\ m_read_buf[m + 1] = LF
           late == m_read_buf[m] = LF /\ m > 2 /\ m_read_buf[m - 1] = CR
<1>1. ParseLine =
        IF found = {} THEN [open EXCEPT !.checked = m_read_idx]
        ELSE IF atEnd THEN [open EXCEPT !.checked = m - 1]
        ELSE IF crlf THEN [status |-> "OK", end |-> m - 1, checked |-> m + 1]
        ELSE IF late THEN [status |-> "OK", end |-> m - 2, checked |-> m]
        ELSE [status |-> "BAD", end |-> 0, checked |-> m - 1]
  BY Zenon DEF ParseLine
<1>2. /\ m_start_line \in Nat /\ m_checked_idx \in Nat /\ m_read_idx \in Nat
      /\ m_start_line <= m_checked_idx /\ m_checked_idx <= m_read_idx
      /\ \A i \in 1 .. m_read_idx : m_read_buf[i] = r[i]
  <2>1. m_read_idx \in Nat
    BY LenProperties DEF Reads, m_read_idx
  <2> QED
    BY <2>1 DEF Reads
<1>3. CR # LF
  BY BytesDiffer
<1>4. CASE found = {}
  <2>1. ParseLine = [open EXCEPT !.checked = m_read_idx]
    BY <1>1, <1>4, Zenon
  <2>2. ParseLine.status # "OK" /\ ParseLine.checked = m_read_idx
    BY <2>1
  <2>3. \A i \in m_checked_idx + 1 .. m_read_idx : r[i] # CR /\ r[i] # LF
    BY <1>2, <1>4
  <2>4. Quiet(r, m_start_line, m_read_idx)
    BY <1>2, <2>3, QuietGrows
  <2>5. m_read_idx \in m_checked_idx .. m_read_idx
    BY <1>2
  <2> QED
    BY <2>2, <2>4, <2>5 DEF NoLineYet
<1>5. CASE found # {}
  <2>1. m \in found /\ \A i \in found : m <= i
    <3>1. found \in SUBSET Nat
      BY <1>2
    <3> HIDE DEF found
    <3> QED
      BY <1>5, <3>1, MinIsLeast
  <2>2. m \in m_checked_idx + 1 .. m_read_idx /\ m \in Nat /\ r[m] = m_read_buf[m]
        /\ m_read_buf[m] \in {CR, LF}
    BY <1>2, <2>1
  <2>3. ASSUME NEW i \in m_checked_idx + 1 .. m - 1
        PROVE  r[i] # CR /\ r[i] # LF
    <3>1. i \in m_checked_idx + 1 .. m_read_idx /\ ~(m <= i)
      BY <1>2, <2>2
    <3>2. i \notin found
      <4> HIDE DEF found, m
      <4> QED
        BY <2>1, <3>1
    <3> QED
      BY <1>2, <3>1, <3>2
  <2>4. Quiet(r, m_start_line, m - 1)
    <3> HIDE DEF m
    <3>1. m - 1 \in Nat
      BY <1>2, <2>2
    <3> QED
      BY <1>2, <2>3, <3>1, QuietGrows
  <2>5. ASSUME ParseLine.status # "OK", ParseLine.checked = m - 1
        PROVE  NoLineYet(r)
    <3> HIDE DEF m, found
    <3>1. m - 1 \in m_checked_idx .. m_read_idx
      BY <1>2, <2>2
    <3> QED
      BY <2>4, <2>5, <3>1 DEF NoLineYet
  <2>6. CASE atEnd
    <3>1. ParseLine = [open EXCEPT !.checked = m - 1]
      BY <1>1, <1>5, <2>6, Zenon
    <3> HIDE DEF m, found
    <3>2. ParseLine.status # "OK" /\ ParseLine.checked = m - 1
      BY <3>1
    <3> QED
      BY <2>5, <3>2
  <2>7. CASE ~atEnd /\ crlf
    <3>1. ParseLine = [status |-> "OK", end |-> m - 1, checked |-> m + 1]
      BY <1>1, <1>5, <2>7, Zenon
    <3> HIDE DEF m, found
    <3>2. m \in m_checked_idx + 1 .. m_read_idx - 1
      BY <1>2, <2>2, <2>7
    <3>3. m + 1 \in 1 .. m_read_idx
      BY <1>2, <3>2
    <3>4. r[m] = CR /\ r[m + 1] = LF
      BY <1>2, <2>2, <2>7, <3>3
    <3>5. LineEndsAt(r, m)
      BY <2>4, <3>1, <3>2, <3>4 DEF LineEndsAt
    <3> QED
      BY <3>5
  <2>8. CASE ~atEnd /\ ~crlf
    <3> HIDE DEF m, found
    <3>1. ~late
      <4> SUFFICES ASSUME m_read_buf[m] = LF, m > 2, m_read_buf[m - 1] = CR PROVE FALSE
        OBVIOUS
      <4>1. m - 1 \in 1 .. m_read_idx /\ r[m - 1] = CR
        BY <1>2, <2>2
      <4>2. CASE m - 1 >= m_start_line + 1
        <5>1. m - 1 \in m_start_line + 1 .. m - 1
          BY <1>2, <2>2, <4>2
        <5> QED
          BY <2>4, <4>1, <5>1 DEF Quiet
      <4>3. CASE ~(m - 1 >= m_start_line + 1)
        <5>1. m - 1 = m_start_line /\ m_start_line # 0
          BY <1>2, <2>2, <4>3
        <5> QED
          BY <1>3, <4>1, <5>1
      <4> QED
        BY <4>2, <4>3
    <3>2. ParseLine = [status |-> "BAD", end |-> 0, checked |-> m - 1]
      BY <1>1, <1>5, <2>8, <3>1, Zenon DEF m, found
    <3>3. ParseLine.status # "OK" /\ ParseLine.checked = m - 1
      BY <3>2
    <3> QED
      BY <2>5, <3>3
  <2> QED
    BY <2>6, <2>7, <2>8
<1> QED
  BY <1>4, <1>5

(* The text of a line: nothing, or the one byte there is. *)
LEMMA TextIs ==
  ASSUME NEW r \in Requests, Reads(r), NEW i, LineEndsAt(r, i)
  PROVE  \/ i = m_start_line + 1 /\ Text = <<>>
         \/ i = m_start_line + 2 /\ Text = r[m_start_line + 1] /\ Text # <<>>
<1> DEFINE s == m_start_line
<1>1. /\ s \in Nat /\ i \in Nat /\ m_read_idx \in Nat /\ Len(r) \in Nat
      /\ s + 1 <= i /\ i + 1 <= m_read_idx /\ m_read_idx <= Len(r)
      /\ m_read_buf \in Seq(ConnByte) /\ m_read_idx = Len(m_read_buf)
      /\ \A k \in 1 .. m_read_idx : m_read_buf[k] = r[k]
      /\ Quiet(r, s, i - 1)
  <2>1. m_read_idx \in Nat /\ Len(r) \in Nat
    BY LenProperties DEF Reads, m_read_idx
  <2>2. m_read_idx = Len(m_read_buf)
    BY DEF m_read_idx
  <2> QED
    BY <2>1, <2>2 DEF Reads, LineEndsAt
<1>2. Text = FlattenSeq(SubSeq(m_read_buf, s + 1, i - 1))
  <2>1. ParseLine.end = i - 1
    BY DEF LineEndsAt
  <2> QED
    BY <2>1, Zenon DEF Text
<1> HIDE DEF s
<1>3. i <= s + 2
  <2> SUFFICES ASSUME i > s + 2 PROVE FALSE
    BY <1>1
  <2>1. s + 1 \in s + 1 .. i - 1 /\ (s + 1) + 1 \in s + 1 .. i - 1 /\ s + 1 \in 1 .. Len(r) - 1
    BY <1>1
  <2>2. r[s + 1] \in {CR, LF} \/ r[(s + 1) + 1] \in {CR, LF}
    BY <2>1, RequestsAssumption
  <2>3. /\ r[s + 1] # CR /\ r[s + 1] # LF
        /\ r[(s + 1) + 1] # CR /\ r[(s + 1) + 1] # LF
    BY <1>1, <2>1 DEF Quiet
  <2> QED
    BY <2>2, <2>3
<1>4. CASE i = s + 1
  <2>1. SubSeq(m_read_buf, s + 1, i - 1) = <<>>
    <3>1. s + 1 \in Int /\ i - 1 \in Int /\ i - 1 < s + 1
      BY <1>1, <1>4
    <3> QED
      BY <3>1, SubSeqEmpty
  <2> QED
    BY <1>2, <1>4, <2>1, FlattenOfNone DEF s
<1>5. CASE i = s + 2
  <2> DEFINE n == s + 1
  <2>1. n \in 1 .. Len(m_read_buf) /\ n \in n .. Len(m_read_buf) /\ i - 1 = n
        /\ n \in 1 .. Len(r) /\ n \in Nat
    BY <1>1, <1>5
  <2>2. r[n] # <<>>
    BY <2>1, RequestsAssumption
  <2> HIDE DEF n
  <2>3. m_read_buf[n] \in ConnByte /\ m_read_buf[n] = r[n]
    BY <1>1, <2>1, ElementOfSeq
  <2>4. SubSeq(m_read_buf, n, n) = <<m_read_buf[n]>>
    <3>1. SubSeq(m_read_buf, n, n) = <<m_read_buf[n]>> \o SubSeq(m_read_buf, n + 1, n)
      <4>1. n \in n .. Len(m_read_buf)
        BY <2>1
      <4> QED
        BY <1>1, <2>1, <4>1, SubSeqRecursiveFirst
    <3>2. SubSeq(m_read_buf, n + 1, n) = <<>>
      BY <2>1, SubSeqEmpty
    <3>3. <<m_read_buf[n]>> \in Seq(ConnByte)
      BY <2>3
    <3>4. <<m_read_buf[n]>> \o <<>> = <<m_read_buf[n]>>
      BY <3>3, ConcatEmptySeq
    <3> QED
      BY <3>1, <3>2, <3>4
  <2>5. Text = r[n]
    <3>1. FlattenSeq(<<m_read_buf[n]>>) = m_read_buf[n]
      BY <2>3, FlattenOfOne
    <3>2. Text = FlattenSeq(SubSeq(m_read_buf, n, n))
      BY <1>2, <2>1 DEF n
    <3> QED
      BY <2>3, <2>4, <3>1, <3>2
  <2>6. Text = r[s + 1] /\ Text # <<>>
    BY <2>2, <2>5 DEF n
  <2> QED
    BY <1>5, <2>6 DEF s
<1>6. i = s + 1 \/ i = s + 2
  BY <1>1, <1>3
<1> QED
  BY <1>4, <1>5, <1>6

(* The response that a request asks for, of which a byte is there. *)
LEMMA ExpectedOf ==
  ASSUME NEW r \in Requests, r # <<>>
  PROVE  /\ ~IsRequestLine(r[1]) => Expected(r) = Response("BAD_REQUEST", "", FALSE)
         /\ IsRequestLine(r[1]) /\ Lingers(r, Len(r)) =>
              Expected(r) = Response(DoRequest(r[1][2]), r[1][2], TRUE)
         /\ IsRequestLine(r[1]) /\ ~Lingers(r, Len(r)) =>
              Expected(r) = Response(DoRequest(r[1][2]), r[1][2], FALSE)
<1> DEFINE head == FlattenSeq(SubSeq(r, 1, 1))
           lingers == KeepAlive \in {r[i] : i \in 2 .. Len(r)}
<1>1. head = r[1]
  BY HeadIs, RequestsAssumption DEF ConnByte
<1>2. Expected(r) = IF ~IsRequestLine(head) THEN Response("BAD_REQUEST", "", FALSE)
                    ELSE Response(DoRequest(head[2]), head[2], lingers)
  BY Zenon DEF Expected, KeepAlive
<1>3. lingers <=> Lingers(r, Len(r))
  <2>1. lingers <=> \E i \in 2 .. Len(r) : KeepAlive = r[i]
    OBVIOUS
  <2> QED
    BY <2>1 DEF Lingers
<1>4. lingers = TRUE \/ lingers = FALSE
  OBVIOUS
<1>5. /\ Lingers(r, Len(r)) => lingers = TRUE
      /\ ~Lingers(r, Len(r)) => lingers = FALSE
  BY <1>3, <1>4
<1> HIDE DEF lingers, head
<1> QED
  BY <1>1, <1>2, <1>5, Zenon

(* Where a header ends and another begins, the header that keeps the         *)
(* connection is among those before it, or is the one that ends there.       *)
LEMMA LingersGrows ==
  ASSUME NEW r, NEW s \in Nat, NEW i, i = s + 1 \/ i = s + 2, r[i] = CR, r[i + 1] = LF
  PROVE  Lingers(r, i + 1) <=>
           Lingers(r, s) \/ (i = s + 2 /\ s >= 1 /\ r[s + 1] = KeepAlive)
<1>1. r[i] # KeepAlive /\ r[i + 1] # KeepAlive
  BY BytesDiffer
<1>2. ASSUME Lingers(r, i + 1)
      PROVE  Lingers(r, s) \/ (i = s + 2 /\ s >= 1 /\ r[s + 1] = KeepAlive)
  <2>1. PICK k \in 2 .. i + 1 : r[k] = KeepAlive
    BY <1>2 DEF Lingers
  <2>2. k # i /\ k # i + 1 /\ k \in Nat /\ k >= 2 /\ k <= i + 1
    BY <1>1, <2>1
  <2>3. k \in 2 .. s \/ (i = s + 2 /\ k = s + 1 /\ s >= 1)
    BY <2>2
  <2> QED
    BY <2>1, <2>3 DEF Lingers
<1>3. ASSUME Lingers(r, s) PROVE Lingers(r, i + 1)
  <2>1. PICK k \in 2 .. s : r[k] = KeepAlive
    BY <1>3 DEF Lingers
  <2>2. k \in 2 .. i + 1
    OBVIOUS
  <2> QED
    BY <2>1, <2>2 DEF Lingers
<1>4. ASSUME i = s + 2, s >= 1, r[s + 1] = KeepAlive PROVE Lingers(r, i + 1)
  <2>1. s + 1 \in 2 .. i + 1
    BY <1>4
  <2> QED
    BY <1>4, <2>1 DEF Lingers
<1> QED
  BY <1>2, <1>3, <1>4

(* A turn of the loop in process_read(): the parser stands behind the line,  *)
(* or has the result that the request asks for, and with m_linger it has     *)
(* read all of the request.                                                  *)
LEMMA LineIsParsed ==
  ASSUME NEW r \in Requests, Reads(r), m_linger \in BOOLEAN,
         ParserIsAt(r, m_checked_idx, m_start_line, m_check_state, m_url, m_linger),
         ParseLine.status = "OK", m_checked_idx' = ParseLine.checked,
         m_start_line' = ParseLine.checked,
         CheckRequestLine \/ CheckHeader
  PROVE  /\ m_checked_idx' \in Nat /\ m_start_line' = m_checked_idx'
         /\ m_checked_idx' <= m_read_idx /\ m_linger' \in BOOLEAN
         /\ \/ /\ at' = at
               /\ ParserIsAt(r, m_checked_idx', m_start_line', m_check_state', m_url', m_linger')
            \/ /\ at' = "process_write"
               /\ Response(read_ret', m_url', m_linger') = Expected(r)
               /\ m_linger' => m_read_idx = Len(r)
<1> DEFINE s == m_start_line
<1>1. /\ s \in Nat /\ m_checked_idx \in Nat /\ m_read_idx \in Nat /\ Len(r) \in Nat
      /\ s <= m_checked_idx /\ m_checked_idx <= m_read_idx /\ m_read_idx <= Len(r)
  <2>1. m_read_idx \in Nat /\ Len(r) \in Nat
    BY LenProperties DEF Reads, m_read_idx
  <2> QED
    BY <2>1 DEF Reads
<1>2. Quiet(r, s, m_checked_idx)
      /\ (s = 0 \/ (s >= 2 /\ r[s - 1] = CR /\ r[s] = LF))
  BY DEF ParserIsAt
<1>3. PICK i : LineEndsAt(r, i)
  <2>1. ~NoLineYet(r)
    BY DEF NoLineYet
  <2>2. (\E i : LineEndsAt(r, i)) \/ NoLineYet(r)
    BY <1>2, ParseLineIs
  <2> QED
    BY <2>1, <2>2
<1> DEFINE c == i + 1
<1>4. /\ i \in Nat /\ s + 1 <= i /\ c <= m_read_idx /\ r[i] = CR /\ r[c] = LF
      /\ ParseLine.checked = c /\ c \in Nat /\ c >= 2 /\ c - 1 = i
  BY <1>1, <1>3 DEF LineEndsAt
<1>5. m_checked_idx' = c /\ m_start_line' = c
  BY <1>4
<1>6. \/ i = s + 1 /\ Text = <<>>
      \/ i = s + 2 /\ Text = r[s + 1] /\ Text # <<>>
  BY <1>3, TextIs
<1>7. Lingers(r, c) <=> Lingers(r, s) \/ (i = s + 2 /\ s >= 1 /\ r[s + 1] = KeepAlive)
  BY <1>1, <1>4, <1>6, LingersGrows
<1>8. Quiet(r, c, c) /\ c # 0 /\ (c >= 2 /\ r[c - 1] = CR /\ r[c] = LF)
  BY <1>4 DEF Quiet
<1>9. r # <<>>
  BY <1>1, <1>4
<1> HIDE DEF s, c
<1>10. ASSUME CheckRequestLine
       PROVE  /\ m_linger' \in BOOLEAN
              /\ \/ /\ at' = at
                    /\ ParserIsAt(r, c, c, m_check_state', m_url', m_linger')
                 \/ /\ at' = "process_write"
                    /\ Response(read_ret', m_url', m_linger') = Expected(r)
                    /\ m_linger' => m_read_idx = Len(r)
  <2>1. m_check_state = "REQUESTLINE" /\ m_linger' = m_linger
    BY <1>10, Zenon DEF CheckRequestLine
  <2>2. s = 0 /\ m_url = "" /\ m_linger = FALSE
    <3>1. "REQUESTLINE" # "HEADER"
      OBVIOUS
    <3> QED
      BY <2>1, <3>1, Zenon DEF ParserIsAt, s
  <2>0. s = 0
    BY <2>2, Zenon
  <2>3. CASE IsRequestLine(Text)
    <3>1. m_check_state' = "HEADER" /\ m_url' = Text[2] /\ at' = at
      BY <1>10, <2>3, Zenon DEF CheckRequestLine
    <3>2. i = s + 2 /\ Text = r[1]
      <4>1. ~IsRequestLine(<<>>)
        BY BytesDiffer
      <4>2. i = s + 2 /\ Text = r[s + 1]
        BY <1>6, <2>3, <4>1, Zenon
      <4>3. s + 1 = 1
        BY <2>0
      <4> QED
        BY <4>2, <4>3, Zenon
    <3>3. ~Lingers(r, c)
      <4>1. ~(s >= 1) /\ ~ \E k \in 2 .. s : TRUE
        BY <2>0
      <4>2. ~Lingers(r, s)
        BY <4>1 DEF Lingers
      <4> QED
        BY <1>7, <4>1, <4>2
    <3>4. ParserIsAt(r, c, c, m_check_state', m_url', m_linger')
      BY <1>8, <2>1, <2>2, <2>3, <3>1, <3>2, <3>3, Zenon DEF ParserIsAt
    <3> QED
      BY <2>1, <3>1, <3>4, Zenon
  <2>4. CASE ~IsRequestLine(Text)
    <3>1. at' = "process_write" /\ read_ret' = "BAD_REQUEST" /\ m_url' = m_url
      BY <1>10, <2>4, Zenon DEF CheckRequestLine, Returns
    <3>2. ~IsRequestLine(r[1])
      <4>1. s + 1 = 1
        BY <2>0
      <4>2. r[1] = CR \/ r[1] = Text
        BY <1>4, <1>6, <4>1, Zenon
      <4> QED
        BY <2>4, <4>2, BytesDiffer, Zenon
    <3>3. Expected(r) = Response("BAD_REQUEST", "", FALSE)
      BY <1>9, <3>2, ExpectedOf, Zenon
    <3> QED
      BY <2>1, <2>2, <3>1, <3>3, Zenon
  <2> QED
    BY <2>3, <2>4
<1>11. ASSUME CheckHeader
       PROVE  /\ m_linger' \in BOOLEAN
              /\ \/ /\ at' = at
                    /\ ParserIsAt(r, c, c, m_check_state', m_url', m_linger')
                 \/ /\ at' = "process_write"
                    /\ Response(read_ret', m_url', m_linger') = Expected(r)
                    /\ m_linger' => m_read_idx = Len(r)
  <2>1. /\ m_check_state = "HEADER" /\ m_check_state' = m_check_state /\ m_url' = m_url
        /\ m_linger' = (m_linger \/ Text = KeepAlive)
        /\ IF Text = <<>> THEN Returns(DoRequest(m_url)) ELSE UNCHANGED <<at, read_ret>>
    BY <1>11, Zenon DEF CheckHeader, KeepAlive
  <2>2. /\ s # 0 /\ IsRequestLine(r[1]) /\ m_url = r[1][2]
        /\ m_linger <=> Lingers(r, s)
    <3>1. "REQUESTLINE" # "HEADER"
      OBVIOUS
    <3> QED
      BY <2>1, <3>1, Zenon DEF ParserIsAt, s
  <2>3. m_linger' \in BOOLEAN /\ (m_linger' <=> m_linger \/ Text = KeepAlive)
    BY <2>1
  <2>4. s >= 2 /\ r[s - 1] = CR /\ r[s] = LF
    BY <1>2, <2>2 DEF s
  <2>5. CASE Text = <<>>
    <3>1. at' = "process_write" /\ read_ret' = DoRequest(m_url)
      BY <2>1, <2>5, Zenon DEF Returns
    <3>2. i = s + 1
      BY <1>6, <2>5, Zenon
    <3>3. c = Len(r) /\ m_read_idx = Len(r)
      <4> DEFINE k == s - 1
      <4>1. /\ k \in 1 .. Len(r) - 3 /\ k + 1 = s /\ k + 2 = i /\ k + 3 = c
        BY <1>1, <1>4, <2>4, <3>2 DEF c, s
      <4>2. r[k] = CR /\ r[k + 1] = LF /\ r[k + 2] = CR /\ r[k + 3] = LF
        BY <1>4, <2>4, <4>1, Zenon
      <4> HIDE DEF k
      <4>3. k + 3 = Len(r)
        BY <4>1, <4>2, RequestsAssumption
      <4> QED
        BY <1>1, <1>4, <4>1, <4>3
    <3>4. <<>> # KeepAlive
      <4>1. Len(<<>>) = 0 /\ Len(KeepAlive) = 2
        BY DEF KeepAlive
      <4> QED
        BY <4>1
    <3>5. m_linger' <=> Lingers(r, Len(r))
      <4>1. ~(i = s + 2)
        BY <1>1, <1>4, <3>2
      <4>2. Lingers(r, c) <=> m_linger
        BY <1>7, <2>2, <4>1
      <4> QED
        BY <2>3, <2>5, <3>3, <3>4, <4>2
    <3>6. Response(read_ret', m_url', m_linger') = Expected(r)
      <4>1. read_ret' = DoRequest(r[1][2]) /\ m_url' = r[1][2]
        BY <2>1, <2>2, <3>1, Zenon
      <4>2. CASE m_linger' = TRUE
        <5>1. Expected(r) = Response(DoRequest(r[1][2]), r[1][2], TRUE)
          BY <1>9, <2>2, <3>5, <4>2, ExpectedOf
        <5> QED
          BY <4>1, <4>2, <5>1, Zenon
      <4>3. CASE m_linger' = FALSE
        <5>1. Expected(r) = Response(DoRequest(r[1][2]), r[1][2], FALSE)
          BY <1>9, <2>2, <3>5, <4>3, ExpectedOf
        <5> QED
          BY <4>1, <4>3, <5>1, Zenon
      <4> QED
        BY <2>3, <4>2, <4>3, Zenon
    <3> QED
      BY <2>3, <3>1, <3>3, <3>6, Zenon
  <2>6. CASE Text # <<>>
    <3>1. at' = at
      BY <2>1, <2>6, Zenon
    <3>2. i = s + 2 /\ Text = r[s + 1]
      BY <1>6, <2>6, Zenon
    <3>3. m_linger' <=> Lingers(r, c)
      <4>1. s >= 1
        BY <1>1, <2>4 DEF s
      <4> QED
        BY <1>7, <2>2, <2>3, <3>2, <4>1
    <3>4. ParserIsAt(r, c, c, m_check_state', m_url', m_linger')
      BY <1>8, <2>1, <2>2, <3>3, Zenon DEF ParserIsAt
    <3> QED
      BY <2>3, <3>1, <3>4, Zenon
  <2> QED
    BY <2>5, <2>6
<1>12. m_checked_idx' \in Nat /\ m_start_line' = m_checked_idx' /\ m_checked_idx' <= m_read_idx
  BY <1>4, <1>5
<1> QED
  BY <1>5, <1>10, <1>11, <1>12, Zenon

(* The connection, as long as every writev(2) has taken all of the response. *)

ConnTypes ==
  /\ asked \in Seq(Requests)
  /\ unsent \in Seq(ConnByte) /\ inbound \in Seq(ConnByte) /\ m_read_buf \in Seq(ConnByte)
  /\ m_checked_idx \in Nat /\ m_start_line \in Nat /\ m_linger \in BOOLEAN
  /\ m_start_line <= m_checked_idx /\ m_checked_idx <= m_read_idx

(* The request that has come last. *)
LastAsked == asked[Len(asked)]

(* All is answered, and init() has left nothing behind. *)
Idle ==
  /\ at = "poll" /\ interest = "IN"
  /\ m_read_buf = <<>> /\ inbound = <<>> /\ unsent = <<>>
  /\ m_checked_idx = 0 /\ m_start_line = 0
  /\ m_check_state = "REQUESTLINE" /\ m_url = "" /\ m_linger = FALSE
  /\ arrived = Answers(asked, Len(asked))

(* The last request is not answered, and lies in the buffer, in the socket  *)
(* and with the client, one after the other.                                *)
Pending ==
  /\ asked # <<>>
  /\ (m_read_buf \o inbound) \o unsent = LastAsked
  /\ arrived = Answers(asked, Len(asked) - 1)

Parsing ==
  /\ Pending
  /\ ParserIsAt(LastAsked, m_checked_idx, m_start_line, m_check_state, m_url, m_linger)
  /\ (at = "poll" /\ interest = "IN") \/ at = "process_read"

(* process_read() has the result: with m_linger the request has been read   *)
(* to its end, so that init() wipes nothing of another.                      *)
Filling ==
  /\ Pending
  /\ m_linger => m_read_buf = LastAsked
  /\ at = "process_write" /\ Response(read_ret, m_url, m_linger) = Expected(LastAsked)

Writing ==
  /\ Pending
  /\ m_linger => m_read_buf = LastAsked
  /\ (at = "poll" /\ interest = "OUT") \/ (at = "write" /\ bytes_have_send = 0)
  /\ m_iv = Expected(LastAsked)

Closed == at = "closed" /\ IsPrefix(arrived, Answers(asked, Len(asked)))

Stands == ConnTypes /\ (Idle \/ Parsing \/ Filling \/ Writing \/ Closed)

ConnInv == ConnTypes /\ (~shortened => Stands)

(* There is a last request. *)
LEMMA LastIs ==
  ASSUME asked \in Seq(Requests), asked # <<>>
  PROVE  /\ Len(asked) \in Nat /\ Len(asked) >= 1
         /\ LastAsked \in Requests /\ LastAsked \in Seq(ConnByte)
<1>1. Len(asked) \in Nat /\ Len(asked) >= 1
  BY LenProperties, EmptySeq
<1>2. Len(asked) \in 1 .. Len(asked)
  BY <1>1
<1>3. LastAsked \in Requests
  BY <1>2, ElementOfSeq DEF LastAsked
<1> QED
  BY <1>1, <1>3, RequestsAssumption DEF ConnByte

(* What has been answered, and what is next. *)
LEMMA NextAnswer ==
  ASSUME asked \in Seq(Requests), asked # <<>>
  PROVE  /\ Answers(asked, Len(asked) - 1) \in Seq(Units)
         /\ Expected(LastAsked) \in Seq(Units) /\ Len(Expected(LastAsked)) >= 2
         /\ Answers(asked, Len(asked)) = Answers(asked, Len(asked) - 1) \o Expected(LastAsked)
<1> DEFINE n == Len(asked) - 1
<1>1. n \in Nat /\ n <= Len(asked) /\ n + 1 = Len(asked) /\ n + 1 <= Len(asked)
  BY LastIs
<1> HIDE DEF n
<1>2. Answers(asked, n) \in Seq(Units)
  BY <1>1, AnswersAreUnits
<1>3. Answers(asked, n + 1) = Answers(asked, n) \o Expected(asked[n + 1])
  BY <1>1, AnswersToMore
<1>4. Expected(LastAsked) \in Seq(Units) /\ Len(Expected(LastAsked)) >= 2
  BY LastIs, ExpectedIs
<1> QED
  BY <1>1, <1>2, <1>3, <1>4 DEF LastAsked, n

(* A sequence is a prefix of what it begins. *)
LEMMA PrefixIs ==
  ASSUME NEW S, NEW s \in Seq(S), NEW t \in Seq(S)
  PROVE  IsPrefix(s, s \o t) /\ IsPrefix(s, s)
<1>1. Len(s) \in Nat /\ Len(t) \in Nat
  BY LenProperties
<1>2. SubSeq(s, 1, Len(s)) = s
  BY SubSeqFull
<1>3. s \o t \in Seq(S) /\ Len(s \o t) = Len(s) + Len(t)
  BY ConcatProperties
<1>4. SubSeq(s \o t, 1, Len(s)) = SubSeq(s, 1, Len(s))
  <2>1. CASE Len(s) = 0
    <3>1. SubSeq(s \o t, 1, 0) = <<>> /\ SubSeq(s, 1, 0) = <<>>
      BY SubSeqEmpty
    <3> QED
      BY <2>1, <3>1
  <2>2. CASE Len(s) # 0
    <3>1. 1 \in 1 .. Len(s) /\ Len(s) \in 1 .. Len(s)
      BY <1>1, <2>2
    <3> QED
      BY <3>1, SubSeqOfConcat1
  <2> QED
    BY <2>1, <2>2
<1> QED
  BY <1>1, <1>3, <1>4 DEF IsPrefix

(* Whatever the connection is doing. *)
LEMMA ArrivedIsPrefix ==
  ASSUME Stands
  PROVE  IsPrefix(arrived, Answers(asked, Len(asked)))
<1>1. asked \in Seq(Requests)
  BY DEF Stands, ConnTypes
<1>2. CASE Idle
  <2>1. Len(asked) \in Nat /\ Len(asked) <= Len(asked)
    BY <1>1, LenProperties
  <2>2. Answers(asked, Len(asked)) \in Seq(Units)
    BY <1>1, <2>1, AnswersAreUnits
  <2>3. arrived = Answers(asked, Len(asked))
    BY <1>2, Zenon DEF Idle
  <2> QED
    BY <2>2, <2>3, PrefixIs
<1>3. CASE Pending
  <2>1. asked # <<>> /\ arrived = Answers(asked, Len(asked) - 1)
    BY <1>3 DEF Pending
  <2> DEFINE a == Answers(asked, Len(asked) - 1)
             e == Expected(LastAsked)
  <2>2. a \in Seq(Units) /\ e \in Seq(Units) /\ Answers(asked, Len(asked)) = a \o e
    BY <1>1, <2>1, NextAnswer
  <2> HIDE DEF a, e
  <2>3. IsPrefix(a, a \o e)
    BY <2>2, PrefixIs
  <2> QED
    BY <2>1, <2>2, <2>3 DEF a
<1>4. CASE Closed
  BY <1>4 DEF Closed
<1> QED
  BY <1>2, <1>3, <1>4, Zenon DEF Stands, Parsing, Filling, Writing

(* A request that is not answered is not what was last answered. *)
LEMMA PendingIsOwed ==
  ASSUME ConnTypes, Pending
  PROVE  arrived # Answers(asked, Len(asked))
<1>1. asked \in Seq(Requests) /\ asked # <<>> /\ arrived = Answers(asked, Len(asked) - 1)
  BY DEF ConnTypes, Pending
<1> DEFINE a == Answers(asked, Len(asked) - 1)
           e == Expected(LastAsked)
<1>2. /\ a \in Seq(Units) /\ e \in Seq(Units) /\ Len(e) >= 2
      /\ Answers(asked, Len(asked)) = a \o e /\ arrived = a
  BY <1>1, NextAnswer
<1> HIDE DEF a, e
<1>3. Len(a \o e) = Len(a) + Len(e) /\ Len(a) \in Nat /\ Len(e) \in Nat
  BY <1>2, ConcatProperties, LenProperties
<1>4. Len(a \o e) # Len(a)
  BY <1>2, <1>3
<1> QED
  BY <1>2, <1>4

(* What is in the buffer is what the request begins with. *)
LEMMA PendingReads ==
  ASSUME ConnTypes, Pending
  PROVE  /\ LastAsked \in Requests /\ Reads(LastAsked)
         /\ m_read_idx = Len(LastAsked) => m_read_buf = LastAsked
         /\ m_read_buf = LastAsked => inbound = <<>> /\ unsent = <<>>
<1>1. /\ asked \in Seq(Requests) /\ asked # <<>>
      /\ unsent \in Seq(ConnByte) /\ inbound \in Seq(ConnByte) /\ m_read_buf \in Seq(ConnByte)
  BY DEF ConnTypes, Pending
<1>2. (m_read_buf \o inbound) \o unsent = LastAsked
  BY DEF Pending
<1>3. LastAsked \in Requests /\ LastAsked \in Seq(ConnByte)
  BY <1>1, LastIs
<1> DEFINE rest == inbound \o unsent
<1>4. rest \in Seq(ConnByte) /\ Len(rest) = Len(inbound) + Len(unsent)
  BY <1>1, ConcatProperties
<1>5. m_read_buf \o rest = LastAsked
  <2>1. (m_read_buf \o inbound) \o unsent = m_read_buf \o rest
    BY <1>1, ConcatAssociative
  <2> QED
    BY <1>2, <2>1
<1>6. Len(inbound) \in Nat /\ Len(unsent) \in Nat /\ Len(m_read_buf) \in Nat /\ Len(rest) \in Nat
  BY <1>1, <1>4, LenProperties
<1> HIDE DEF rest
<1>7. /\ Len(LastAsked) = Len(m_read_buf) + Len(rest)
      /\ \A i \in 1 .. Len(m_read_buf) + Len(rest) :
           LastAsked[i] = IF i <= Len(m_read_buf) THEN m_read_buf[i] ELSE rest[i - Len(m_read_buf)]
  <2>0. m_read_buf \in Seq(ConnByte) /\ rest \in Seq(ConnByte)
    BY <1>1, <1>4
  <2>1. /\ Len(m_read_buf \o rest) = Len(m_read_buf) + Len(rest)
        /\ \A i \in 1 .. Len(m_read_buf) + Len(rest) :
             (m_read_buf \o rest)[i]
                = IF i <= Len(m_read_buf) THEN m_read_buf[i] ELSE rest[i - Len(m_read_buf)]
    BY <2>0, ConcatProperties
  <2> QED
    BY <1>5, <2>1, Zenon
<1>8. \A i \in 1 .. Len(m_read_buf) : m_read_buf[i] = LastAsked[i]
  BY <1>6, <1>7
<1>9. Reads(LastAsked)
  <2>1. Len(m_read_buf) <= Len(LastAsked)
    BY <1>6, <1>7
  <2> QED
    BY <1>1, <1>3, <1>8, <2>1 DEF Reads, ConnTypes, m_read_idx
<1>10. m_read_idx = Len(LastAsked) => m_read_buf = LastAsked
  <2>1. SUFFICES ASSUME Len(m_read_buf) = Len(LastAsked) PROVE m_read_buf = LastAsked
    BY DEF m_read_idx
  <2>2. \A i \in 1 .. Len(LastAsked) : m_read_buf[i] = LastAsked[i]
    BY <1>8, <2>1
  <2> QED
    BY <1>1, <1>3, <2>1, <2>2, SeqEqual
<1>11. ASSUME m_read_buf = LastAsked PROVE inbound = <<>> /\ unsent = <<>>
  <2>1. Len(rest) = 0
    BY <1>6, <1>7, <1>11
  <2>2. Len(inbound) = 0 /\ Len(unsent) = 0
    BY <1>4, <1>6, <2>1
  <2> QED
    BY <1>1, <2>2, EmptySeq
<1> QED
  BY <1>3, <1>9, <1>10, <1>11

(* A new connection is idle. *)
LEMMA InitStands == ASSUME HttpConnInit PROVE Stands
<1>1. /\ asked = <<>> /\ unsent = <<>> /\ inbound = <<>> /\ arrived = <<>> /\ m_read_buf = <<>>
      /\ m_checked_idx = 0 /\ m_start_line = 0 /\ m_linger = FALSE
  BY Zenon DEF HttpConnInit
<1>2. Len(asked) = 0 /\ m_read_idx = 0
  BY <1>1 DEF m_read_idx
<1>3. ConnTypes
  <2>1. asked \in Seq(Requests) /\ <<>> \in Seq(ConnByte) /\ 0 \in Nat /\ FALSE \in BOOLEAN
    BY <1>1
  <2>2. m_start_line <= m_checked_idx /\ m_checked_idx <= m_read_idx
    BY <1>1, <1>2
  <2> QED
    BY <1>1, <2>1, <2>2, Zenon DEF ConnTypes
<1>4. arrived = Answers(asked, Len(asked))
  BY <1>1, <1>2, AnswersToNone
<1>5. Idle
  BY <1>4, Zenon DEF HttpConnInit, Idle
<1> QED
  BY <1>3, <1>5, Zenon DEF Stands

(* A request is sent only when all before it are answered. *)
LEMMA AskNextStands ==
  ASSUME Stands, NEW r \in Requests, AskNext(r)
  PROVE  Stands'
<1>1. /\ at # "closed" /\ arrived = Owed(Len(asked))
      /\ asked' = Append(asked, r) /\ unsent' = r
      /\ UNCHANGED <<inbound, at, interest, arrived>>
      /\ UNCHANGED <<m_read_buf, m_checked_idx, m_start_line, m_check_state, m_url, m_linger>>
  BY Zenon DEF AskNext, parserVars, writerVars
<1>2. ConnTypes /\ asked \in Seq(Requests) /\ arrived = Answers(asked, Len(asked))
  BY <1>1, OwedIs DEF Stands, ConnTypes
<1>3. Idle
  <2>1. ~Pending
    BY <1>2, PendingIsOwed
  <2> QED
    BY <1>1, <2>1, Zenon DEF Stands, Parsing, Filling, Writing, Closed
<1>4. r \in Seq(ConnByte)
  BY RequestsAssumption DEF ConnByte
<1> DEFINE n == Len(asked)
<1>5. /\ n \in Nat /\ asked' \in Seq(Requests) /\ asked' # <<>>
      /\ Len(asked') = n + 1 /\ asked'[n + 1] = r
  <2>1. n \in Nat
    BY <1>2, LenProperties
  <2>2. /\ Append(asked, r) \in Seq(Requests) /\ Append(asked, r) # <<>>
        /\ Len(Append(asked, r)) = n + 1 /\ Append(asked, r)[n + 1] = r
    BY <1>2, AppendProperties
  <2> QED
    BY <1>1, <2>1, <2>2
<1>6. LastAsked' = r
  BY <1>5 DEF LastAsked
<1>7. Len(asked') - 1 = n
  BY <1>5
<1>8. ConnTypes'
  <2>1. UNCHANGED m_read_idx
    BY <1>1 DEF m_read_idx
  <2> QED
    BY <1>1, <1>2, <1>4, <1>5, <2>1 DEF ConnTypes
<1>9. arrived' = Answers(asked', Len(asked') - 1)
  <2>1. n <= Len(asked)
    BY <1>5
  <2> HIDE DEF n
  <2>2. Answers(Append(asked, r), n) = Answers(asked, n)
    BY <1>2, <1>5, <2>1, AnswersToSame
  <2> QED
    BY <1>1, <1>2, <1>7, <2>2 DEF n
<1>10. /\ m_read_buf = <<>> /\ inbound = <<>> /\ m_checked_idx = 0 /\ m_start_line = 0
       /\ at = "poll" /\ interest = "IN"
  BY <1>3, Zenon DEF Idle
<1>11. (m_read_buf' \o inbound') \o unsent' = LastAsked'
  <2>1. (<<>> \o <<>>) \o r = r
    BY <1>4, ConcatEmptySeq
  <2> QED
    BY <1>1, <1>6, <1>10, <2>1, Zenon
<1>12. Pending'
  BY <1>5, <1>9, <1>11, Zenon DEF Pending
<1>13. ParserIsAt(LastAsked, m_checked_idx, m_start_line, m_check_state, m_url, m_linger)'
  <2>1. Quiet(r, 0, 0)
    BY DEF Quiet
  <2>2. m_check_state = "REQUESTLINE" /\ m_url = "" /\ m_linger = FALSE
    BY <1>3, Zenon DEF Idle
  <2> QED
    BY <1>1, <1>6, <1>10, <2>1, <2>2, Zenon DEF ParserIsAt
<1>14. at' = "poll" /\ interest' = "IN"
  BY <1>1, <1>10
<1>15. Parsing'
  BY <1>12, <1>13, <1>14, Zenon DEF Parsing
<1> QED
  BY <1>8, <1>15, Zenon DEF Stands

Associative(S) == \A a, b, c \in Seq(S) : (a \o b) \o c = a \o (b \o c)

(* Concatenation, in the form in which it is applied below. *)
LEMMA Associates == ASSUME NEW S PROVE Associative(S)
BY ConcatAssociative DEF Associative

(* What is sent goes behind what was, and before what is left. *)
GoesBehind(S, s, t, u, n) ==
  /\ t \o SubSeq(u, 1, n) \in Seq(S)
  /\ SubSeq(u, n + 1, Len(u)) \in Seq(S)
  /\ (s \o (t \o SubSeq(u, 1, n))) \o SubSeq(u, n + 1, Len(u)) = (s \o t) \o u

LEMMA PieceGoesBehind ==
  ASSUME NEW S, NEW s \in Seq(S), NEW t \in Seq(S), NEW u \in Seq(S), NEW n \in 1 .. Len(u)
  PROVE  GoesBehind(S, s, t, u, n)
<1> DEFINE p == SubSeq(u, 1, n)
           q == SubSeq(u, n + 1, Len(u))
<1>1. Len(u) \in Nat /\ n \in Nat /\ n <= Len(u) /\ n >= 1
  BY LenProperties
<1>2. \A i \in 1 .. Len(u) : u[i] \in S
  BY ElementOfSeq
<1>3. p \in Seq(S)
  <2>1. 1 \in Int /\ n \in Int /\ \A i \in 1 .. n : u[i] \in S
    BY <1>1, <1>2
  <2> QED
    BY <2>1, SubSeqProperties
<1>4. q \in Seq(S)
  <2>1. n + 1 \in Int /\ Len(u) \in Int /\ \A i \in n + 1 .. Len(u) : u[i] \in S
    BY <1>1, <1>2
  <2> QED
    BY <2>1, SubSeqProperties
<1>5. p \o q = u
  <2>1. 1 \in 1 .. Len(u) + 1 /\ n \in 1 - 1 .. Len(u) /\ Len(u) \in n .. Len(u)
    BY <1>1
  <2>2. p \o q = SubSeq(u, 1, Len(u))
    BY <2>1, ConcatAdjacentSubSeq
  <2>3. SubSeq(u, 1, Len(u)) = u
    BY SubSeqFull
  <2> QED
    BY <2>2, <2>3
<1> HIDE DEF p, q
<1>6. t \o p \in Seq(S) /\ s \o t \in Seq(S)
  BY <1>3, ConcatProperties
<1>7. \A a, b, c \in Seq(S) : (a \o b) \o c = a \o (b \o c)
  <2>1. Associative(S)
    BY Associates
  <2> QED
    BY <2>1, Zenon DEF Associative
<1>8. (s \o t) \o p = s \o (t \o p)
  BY <1>3, <1>7, Zenon
<1>9. ((s \o t) \o p) \o q = (s \o t) \o (p \o q)
  <2> DEFINE v == s \o t
  <2>1. v \in Seq(S)
    BY <1>6
  <2> HIDE DEF v
  <2>2. (v \o p) \o q = v \o (p \o q)
    BY <1>3, <1>4, <1>7, <2>1, Zenon
  <2> QED
    BY <2>2 DEF v
<1>10. (s \o (t \o p)) \o q = (s \o t) \o u
  BY <1>5, <1>8, <1>9, Zenon
<1> QED
  BY <1>4, <1>6, <1>10 DEF p, q, GoesBehind

(* What is sent stays behind what has been read. *)
LEMMA ClientSendsStands ==
  ASSUME Stands, NEW n \in 1 .. Len(unsent), ClientSends(n)
  PROVE  Stands'
<1>1. /\ at # "closed"
      /\ inbound' = inbound \o SubSeq(unsent, 1, n)
      /\ unsent' = SubSeq(unsent, n + 1, Len(unsent))
      /\ UNCHANGED <<asked, at, interest, read_ret, arrived, m_iv, bytes_have_send>>
      /\ UNCHANGED <<m_read_buf, m_checked_idx, m_start_line, m_check_state, m_url, m_linger>>
  BY Zenon DEF ClientSends, parserVars, writerVars
<1>2. ConnTypes /\ m_read_buf \in Seq(ConnByte) /\ inbound \in Seq(ConnByte) /\ unsent \in Seq(ConnByte)
  BY DEF Stands, ConnTypes
<1>3. /\ inbound' \in Seq(ConnByte) /\ unsent' \in Seq(ConnByte)
      /\ (m_read_buf \o inbound') \o unsent' = (m_read_buf \o inbound) \o unsent
  <2>1. /\ inbound \o SubSeq(unsent, 1, n) \in Seq(ConnByte)
        /\ SubSeq(unsent, n + 1, Len(unsent)) \in Seq(ConnByte)
        /\ (m_read_buf \o (inbound \o SubSeq(unsent, 1, n)))
             \o SubSeq(unsent, n + 1, Len(unsent)) = (m_read_buf \o inbound) \o unsent
    <3>1. GoesBehind(ConnByte, m_read_buf, inbound, unsent, n)
      BY <1>2, PieceGoesBehind
    <3> QED
      BY <3>1, Zenon DEF GoesBehind
  <2> QED
    BY <1>1, <2>1, Zenon
<1>4. UNCHANGED <<m_read_idx, LastAsked>>
  BY <1>1 DEF m_read_idx, LastAsked
<1>5. ConnTypes'
  BY <1>1, <1>2, <1>3, <1>4 DEF ConnTypes
<1>6. ~Idle
  <2>1. unsent # <<>>
    OBVIOUS
  <2> QED
    BY <2>1, Zenon DEF Idle
<1>7. Pending => Pending'
  BY <1>1, <1>3, <1>4, Zenon DEF Pending
<1>8. CASE Parsing
  <2>1. Parsing'
    BY <1>1, <1>4, <1>7, <1>8, Zenon DEF Parsing
  <2> QED
    BY <1>5, <2>1, Zenon DEF Stands
<1>9. CASE Filling
  <2>1. Filling'
    BY <1>1, <1>4, <1>7, <1>9, Zenon DEF Filling
  <2> QED
    BY <1>5, <2>1, Zenon DEF Stands
<1>10. CASE Writing
  <2>1. Writing'
    BY <1>1, <1>4, <1>7, <1>10, Zenon DEF Writing
  <2> QED
    BY <1>5, <2>1, Zenon DEF Stands
<1> QED
  BY <1>1, <1>6, <1>8, <1>9, <1>10, Zenon DEF Stands, Closed

(* Whatever ends the connection, what has arrived stays. *)
LEMMA EndStands ==
  ASSUME Stands, at' = "closed", ConnTypes', UNCHANGED <<asked, arrived>>
  PROVE  Stands'
<1>1. IsPrefix(arrived, Answers(asked, Len(asked)))
  BY ArrivedIsPrefix
<1>2. Closed'
  BY <1>1 DEF Closed
<1> QED
  BY <1>2, Zenon DEF Stands

(* read() takes all of it into the buffer, or ends the connection. *)
LEMMA ReadAllStands ==
  ASSUME Stands, ReadAll
  PROVE  Stands'
<1>1. /\ at = "poll" /\ interest = "IN" /\ inbound # <<>> /\ inbound' = <<>>
      /\ UNCHANGED <<asked, unsent, interest, arrived>>
      /\ UNCHANGED <<m_checked_idx, m_start_line, m_check_state, m_url, m_linger>>
      /\ \/ at' = "closed" /\ UNCHANGED m_read_buf
         \/ at' = "process_read" /\ m_read_buf' = m_read_buf \o inbound
  BY Zenon DEF ReadAll, writerVars, Ends
<1>2. ConnTypes /\ m_read_buf \in Seq(ConnByte) /\ inbound \in Seq(ConnByte) /\ unsent \in Seq(ConnByte)
      /\ m_start_line <= m_checked_idx /\ m_checked_idx <= m_read_idx
      /\ m_checked_idx \in Nat
  BY DEF Stands, ConnTypes
<1>3. m_read_buf' \in Seq(ConnByte) /\ Len(m_read_buf) \in Nat /\ Len(m_read_buf') \in Nat
      /\ Len(m_read_buf) <= Len(m_read_buf')
  <2>1. m_read_buf \o inbound \in Seq(ConnByte)
        /\ Len(m_read_buf \o inbound) = Len(m_read_buf) + Len(inbound)
        /\ Len(m_read_buf) \in Nat /\ Len(inbound) \in Nat
    BY <1>2, ConcatProperties, LenProperties
  <2>2. CASE m_read_buf' = m_read_buf
    BY <1>2, <2>1, <2>2
  <2>3. CASE m_read_buf' = m_read_buf \o inbound
    BY <2>1, <2>3
  <2> QED
    BY <1>1, <2>2, <2>3, Zenon
<1>4. m_checked_idx' <= m_read_idx'
  BY <1>1, <1>2, <1>3 DEF m_read_idx
<1>5. ConnTypes'
  <2>1. <<>> \in Seq(ConnByte)
    OBVIOUS
  <2> QED
    BY <1>1, <1>2, <1>3, <1>4, <2>1 DEF ConnTypes
<1>6. CASE at' = "closed"
  BY <1>1, <1>5, <1>6, EndStands
<1>7. CASE at' = "process_read" /\ m_read_buf' = m_read_buf \o inbound
  <2>1. Parsing
    <3>1. "poll" # "process_write" /\ "poll" # "write" /\ "poll" # "closed" /\ "IN" # "OUT"
      OBVIOUS
    <3> QED
      BY <1>1, <3>1, Zenon DEF Stands, Idle, Filling, Writing, Closed
  <2>2. (m_read_buf' \o inbound') \o unsent' = (m_read_buf \o inbound) \o unsent
    <3>1. m_read_buf' \o <<>> = m_read_buf'
      BY <1>3, ConcatEmptySeq
    <3> QED
      BY <1>1, <1>7, <3>1, Zenon
  <2>3. UNCHANGED LastAsked
    BY <1>1 DEF LastAsked
  <2>4. Pending'
    BY <1>1, <2>1, <2>2, <2>3, Zenon DEF Parsing, Pending
  <2>5. Parsing'
    BY <1>1, <1>7, <2>1, <2>3, <2>4, Zenon DEF Parsing
  <2> QED
    BY <1>5, <2>5, Zenon DEF Stands
<1> QED
  BY <1>1, <1>6, <1>7, Zenon

(* The places a connection can be at. *)
LEMMA PlacesDiffer ==
  /\ "poll" # "process_read" /\ "poll" # "process_write" /\ "poll" # "write" /\ "poll" # "closed"
  /\ "process_read" # "process_write" /\ "process_read" # "write" /\ "process_read" # "closed"
  /\ "process_write" # "write" /\ "process_write" # "closed" /\ "write" # "closed"
  /\ "IN" # "OUT"
OBVIOUS

(* Only a request that is not answered keeps a worker or write() busy. *)
LEMMA PlaceIs ==
  ASSUME Stands
  PROVE  /\ at = "process_read" => Parsing
         /\ at = "process_write" => Filling
         /\ at = "write" \/ (at = "poll" /\ interest = "OUT") => Writing
BY PlacesDiffer, Zenon DEF Stands, Idle, Parsing, Filling, Writing, Closed

(* A turn of the loop in process_read(). *)
LEMMA ParseOneLineStands ==
  ASSUME Stands, ParseOneLine
  PROVE  Stands'
<1>1. /\ at = "process_read" /\ ParseLine.status = "OK"
      /\ m_checked_idx' = ParseLine.checked /\ m_start_line' = ParseLine.checked
      /\ CheckRequestLine \/ CheckHeader
      /\ UNCHANGED <<asked, unsent, inbound, m_read_buf, arrived, interest>>
  BY Zenon DEF ParseOneLine, clientVars, writerVars
<1>2. ConnTypes /\ Parsing /\ Pending /\ m_linger \in BOOLEAN
  BY <1>1, PlaceIs, Zenon DEF Stands, Parsing, ConnTypes
<1>3. ParserIsAt(LastAsked, m_checked_idx, m_start_line, m_check_state, m_url, m_linger)
  BY <1>2, Zenon DEF Parsing
<1>4. LastAsked \in Requests /\ Reads(LastAsked) /\ (m_read_idx = Len(LastAsked) => m_read_buf = LastAsked)
  BY <1>2, PendingReads
<1>5. /\ m_checked_idx' \in Nat /\ m_start_line' = m_checked_idx'
      /\ m_checked_idx' <= m_read_idx /\ m_linger' \in BOOLEAN
      /\ \/ /\ at' = at
            /\ ParserIsAt(LastAsked, m_checked_idx', m_start_line', m_check_state', m_url', m_linger')
         \/ /\ at' = "process_write"
            /\ Response(read_ret', m_url', m_linger') = Expected(LastAsked)
            /\ m_linger' => m_read_idx = Len(LastAsked)
  BY <1>1, <1>2, <1>3, <1>4, LineIsParsed
<1>6. UNCHANGED <<LastAsked, m_read_idx>>
  BY <1>1 DEF LastAsked, m_read_idx
<1>7. ConnTypes'
  <2>1. /\ asked \in Seq(Requests)
        /\ unsent \in Seq(ConnByte) /\ inbound \in Seq(ConnByte) /\ m_read_buf \in Seq(ConnByte)
    BY <1>2 DEF ConnTypes
  <2>2. m_start_line' \in Nat /\ m_start_line' <= m_checked_idx' /\ m_checked_idx' <= m_read_idx'
    BY <1>5, <1>6
  <2> QED
    BY <1>1, <1>5, <2>1, <2>2, Zenon DEF ConnTypes
<1>8. Pending'
  BY <1>1, <1>2, <1>6, Zenon DEF Pending
<1>9. Parsing' \/ Filling'
  BY <1>1, <1>4, <1>5, <1>6, <1>8, Zenon DEF Parsing, Filling
<1> QED
  BY <1>7, <1>9, Zenon DEF Stands

(* NO_REQUEST: the parser goes on from where it stopped. *)
LEMMA LineIsNotThereStands ==
  ASSUME Stands, LineIsNotThere
  PROVE  Stands'
<1>1. /\ at = "process_read" /\ ParseLine.status # "OK"
      /\ m_checked_idx' = ParseLine.checked
      /\ at' = "poll" /\ interest' = "IN"
      /\ UNCHANGED <<asked, unsent, inbound, m_read_buf, arrived>>
      /\ UNCHANGED <<m_start_line, m_check_state, m_url, m_linger>>
  BY Zenon DEF LineIsNotThere, clientVars, writerVars
<1>2. ConnTypes /\ Parsing /\ Pending
  BY <1>1, PlaceIs, Zenon DEF Stands, Parsing
<1>3. ParserIsAt(LastAsked, m_checked_idx, m_start_line, m_check_state, m_url, m_linger)
  BY <1>2, Zenon DEF Parsing
<1>4. LastAsked \in Requests /\ Reads(LastAsked)
  BY <1>2, PendingReads
<1>5. NoLineYet(LastAsked)
  <2>1. Quiet(LastAsked, m_start_line, m_checked_idx)
    BY <1>3, Zenon DEF ParserIsAt
  <2>2. m_start_line = 0 \/ LastAsked[m_start_line] = LF
    BY <1>3, Zenon DEF ParserIsAt
  <2>3. (\E i : LineEndsAt(LastAsked, i)) \/ NoLineYet(LastAsked)
    BY <1>4, <2>1, <2>2, ParseLineIs
  <2>4. ~ \E i : LineEndsAt(LastAsked, i)
    BY <1>1 DEF LineEndsAt
  <2> QED
    BY <2>3, <2>4
<1>6. m_checked_idx' \in m_checked_idx .. m_read_idx /\ Quiet(LastAsked, m_start_line, m_checked_idx')
  BY <1>1, <1>5 DEF NoLineYet
<1>7. UNCHANGED <<LastAsked, m_read_idx>>
  BY <1>1 DEF LastAsked, m_read_idx
<1>8. ConnTypes'
  <2>1. /\ asked \in Seq(Requests)
        /\ unsent \in Seq(ConnByte) /\ inbound \in Seq(ConnByte) /\ m_read_buf \in Seq(ConnByte)
        /\ m_start_line \in Nat /\ m_linger \in BOOLEAN /\ m_checked_idx \in Nat
        /\ m_start_line <= m_checked_idx
    BY <1>2 DEF ConnTypes
  <2>2. m_read_idx \in Nat
    BY <2>1, LenProperties DEF m_read_idx
  <2>3. m_checked_idx' \in Nat /\ m_start_line <= m_checked_idx' /\ m_checked_idx' <= m_read_idx
    BY <1>6, <2>1, <2>2
  <2> QED
    BY <1>1, <1>7, <2>1, <2>3, Zenon DEF ConnTypes
<1>9. Pending'
  BY <1>1, <1>2, <1>7, Zenon DEF Pending
<1>10. ParserIsAt(LastAsked, m_checked_idx, m_start_line, m_check_state, m_url, m_linger)'
  BY <1>1, <1>3, <1>6, <1>7, Zenon DEF ParserIsAt
<1>11. Parsing'
  BY <1>1, <1>9, <1>10, Zenon DEF Parsing
<1> QED
  BY <1>8, <1>11, Zenon DEF Stands

(* process_write() fills m_iv with the response that is owed. *)
LEMMA FillResponseStands ==
  ASSUME Stands, FillResponse
  PROVE  Stands'
<1>1. /\ at = "process_write" /\ m_iv' = Response(read_ret, m_url, m_linger)
      /\ at' = "poll" /\ interest' = "OUT"
      /\ UNCHANGED <<asked, unsent, inbound, arrived>>
      /\ UNCHANGED <<m_read_buf, m_checked_idx, m_start_line, m_linger>>
  BY Zenon DEF FillResponse, clientVars, parserVars
<1>2. ConnTypes /\ Filling
  BY <1>1, PlaceIs, Zenon DEF Stands
<1>3. UNCHANGED <<LastAsked, m_read_idx>>
  BY <1>1 DEF LastAsked, m_read_idx
<1>4. ConnTypes'
  BY <1>1, <1>2, <1>3, Zenon DEF ConnTypes
<1>5. Pending'
  BY <1>1, <1>2, <1>3, Zenon DEF Filling, Pending
<1>6. Writing'
  BY <1>1, <1>2, <1>3, <1>5, Zenon DEF Filling, Writing
<1> QED
  BY <1>4, <1>6, Zenon DEF Stands

(* write() is called, and called again after EAGAIN. *)
LEMMA WriteWaitsStands ==
  ASSUME Stands, StartWrite \/ WritevHasNoRoom
  PROVE  Stands'
<1>1. /\ at = "write" \/ (at = "poll" /\ interest = "OUT")
      /\ (at' = "poll" /\ interest' = "OUT") \/ (at' = "write" /\ bytes_have_send' = 0)
      /\ UNCHANGED <<asked, unsent, inbound, arrived, m_iv>>
      /\ UNCHANGED <<m_read_buf, m_checked_idx, m_start_line, m_linger>>
  BY Zenon DEF StartWrite, WritevHasNoRoom, clientVars, parserVars, writerVars
<1>2. ConnTypes /\ Writing
  BY <1>1, PlaceIs, Zenon DEF Stands
<1>3. UNCHANGED <<LastAsked, m_read_idx>>
  BY <1>1 DEF LastAsked, m_read_idx
<1>4. ConnTypes'
  BY <1>1, <1>2, <1>3, Zenon DEF ConnTypes
<1>5. Pending'
  BY <1>1, <1>2, <1>3, Zenon DEF Writing, Pending
<1>6. Writing'
  BY <1>1, <1>2, <1>3, <1>5, Zenon DEF Writing
<1> QED
  BY <1>4, <1>6, Zenon DEF Stands

(* All of the response is taken: what has arrived are the responses to all  *)
(* requests, and the connection ends or is as it began.                      *)
LEMMA WritevStands ==
  ASSUME Stands, NEW n \in 1 .. Len(m_iv), Writev(n), ~shortened'
  PROVE  Stands'
<1>1. /\ at = "write" /\ arrived' = arrived \o SubSeq(m_iv, 1, n)
      /\ bytes_have_send' = bytes_have_send + n
      /\ shortened' = (shortened \/ n < Len(m_iv))
      /\ UNCHANGED <<asked, unsent, inbound>>
  BY Zenon DEF Writev, clientVars
<1>0. IF bytes_have_send' >= Len(Header("", "", FALSE)) THEN WriteIsDone
      ELSE UNCHANGED <<at, ended, interest, parserVars>>
  BY Zenon DEF Writev
<1>2. ConnTypes /\ Writing
  BY <1>1, PlaceIs, Zenon DEF Stands
<1>3. /\ asked \in Seq(Requests) /\ asked # <<>> /\ m_iv = Expected(LastAsked)
      /\ arrived = Answers(asked, Len(asked) - 1) /\ bytes_have_send = 0
      /\ Pending
      /\ m_linger => m_read_buf = LastAsked
  BY <1>1, <1>2, PlacesDiffer, Zenon DEF ConnTypes, Writing, Pending
<1>4. /\ arrived \in Seq(Units) /\ m_iv \in Seq(Units) /\ Len(m_iv) >= 2
      /\ Answers(asked, Len(asked)) = arrived \o m_iv
  BY <1>3, NextAnswer
<1>5. n = Len(m_iv) /\ n \in Nat
  <2>1. ~(n < Len(m_iv)) /\ Len(m_iv) \in Nat
    BY <1>1, <1>4, LenProperties
  <2> QED
    BY <2>1
<1>6. arrived' = Answers(asked', Len(asked'))
  <2>1. SubSeq(m_iv, 1, Len(m_iv)) = m_iv
    BY <1>4, SubSeqFull
  <2> QED
    BY <1>1, <1>4, <1>5, <2>1, Zenon
<1>7. WriteIsDone
  <2>1. ASSUME NEW code, NEW url, NEW linger PROVE Len(Header(code, url, linger)) = 2
    BY DEF Header
  <2>2. Len(Header("", "", FALSE)) = 2
    BY <2>1, Zenon
  <2>3. bytes_have_send' >= 2
    BY <1>1, <1>3, <1>4, <1>5
  <2> QED
    BY <1>0, <2>2, <2>3, Zenon
<1>8. Answers(asked, Len(asked)) \in Seq(Units)
  BY <1>4, ConcatProperties
<1>9. CASE m_linger
  <2>1. inbound = <<>> /\ unsent = <<>>
    BY <1>2, <1>3, <1>9, PendingReads
  <2>2. /\ at' = "poll" /\ interest' = "IN" /\ m_read_buf' = <<>>
        /\ m_checked_idx' = 0 /\ m_start_line' = 0 /\ m_linger' = FALSE
        /\ m_check_state' = "REQUESTLINE" /\ m_url' = ""
    BY <1>7, <1>9, Zenon DEF WriteIsDone, ResetConn
  <2>3. Idle'
    BY <1>1, <1>6, <2>1, <2>2, Zenon DEF Idle
  <2>4. /\ m_read_buf' = <<>> /\ m_checked_idx' = 0 /\ m_start_line' = 0 /\ m_linger' = FALSE
    BY <2>2, Zenon
  <2>5. ConnTypes'
    <3>1. m_read_idx' = 0
      BY <2>4 DEF m_read_idx
    <3>2. /\ <<>> \in Seq(ConnByte) /\ 0 \in Nat /\ FALSE \in BOOLEAN
          /\ m_start_line' <= m_checked_idx' /\ m_checked_idx' <= m_read_idx'
      BY <2>4, <3>1
    <3> QED
      BY <1>1, <1>2, <2>4, <3>2, Zenon DEF ConnTypes
  <2> QED
    BY <2>3, <2>5, Zenon DEF Stands
<1>10. CASE ~m_linger
  <2>1. at' = "closed" /\ UNCHANGED <<m_read_buf, m_checked_idx, m_start_line, m_linger>>
    BY <1>7, <1>10, Zenon DEF WriteIsDone, Ends, parserVars
  <2>2. ConnTypes'
    <3>1. UNCHANGED m_read_idx
      BY <2>1 DEF m_read_idx
    <3> QED
      BY <1>1, <1>2, <2>1, <3>1, Zenon DEF ConnTypes
  <2>3. Closed'
    <3>1. IsPrefix(Answers(asked, Len(asked)), Answers(asked, Len(asked)))
      BY <1>8, PrefixIs
    <3> QED
      BY <1>1, <1>6, <2>1, <3>1, Zenon DEF Closed
  <2> QED
    BY <2>2, <2>3, Zenon DEF Stands
<1> QED
  BY <1>9, <1>10

(* The client or an error ends the connection. *)
LEMMA ConnEndsStands ==
  ASSUME Stands, ClientCloses \/ WritevFails
  PROVE  Stands'
<1>1. /\ at' = "closed" /\ UNCHANGED <<asked, unsent, inbound, arrived>>
      /\ UNCHANGED <<m_read_buf, m_checked_idx, m_start_line, m_linger>>
  BY Zenon DEF ClientCloses, WritevFails, Ends, clientVars, parserVars, writerVars
<1>2. UNCHANGED m_read_idx
  BY <1>1 DEF m_read_idx
<1>3. ConnTypes'
  BY <1>1, <1>2, Zenon DEF Stands, ConnTypes
<1> QED
  BY <1>1, <1>3, EndStands

(* A step of another part of the program. *)
LEMMA StutterStands ==
  ASSUME Stands, UNCHANGED connVars
  PROVE  Stands'
<1>1. /\ UNCHANGED <<asked, unsent, inbound, arrived, m_iv, bytes_have_send>>
      /\ UNCHANGED <<m_read_buf, m_checked_idx, m_start_line, m_check_state, m_url, m_linger>>
      /\ UNCHANGED <<at, interest, read_ret>>
  BY Zenon DEF connVars, clientVars, parserVars, writerVars
<1>2. UNCHANGED <<LastAsked, m_read_idx>>
  BY <1>1 DEF LastAsked, m_read_idx
<1>3. ConnTypes'
  BY <1>1, <1>2, Zenon DEF Stands, ConnTypes
<1>4. Pending => Pending'
  BY <1>1, <1>2, Zenon DEF Pending
<1>5. /\ Idle => Idle'
      /\ Parsing => Parsing'
      /\ Filling => Filling'
      /\ Writing => Writing'
      /\ Closed => Closed'
  BY <1>1, <1>2, <1>4, Zenon DEF Idle, Parsing, Filling, Writing, Closed
<1> QED
  BY <1>3, <1>5, Zenon DEF Stands

(* Where parse_line() stops, it has gone forward, and not beyond the bytes. *)
LEMMA ParseLineInBuffer ==
  ASSUME ConnTypes
  PROVE  ParseLine.checked \in m_checked_idx .. m_read_idx
<1> DEFINE found == {i \in m_checked_idx + 1..m_read_idx : m_read_buf[i] \in {CR, LF}}
           m == Min(found)
           open == [status |-> "OPEN", end |-> 0, checked |-> 0]
           atEnd == m_read_buf[m] = CR /\ m = m_read_idx
           crlf == m_read_buf[m] = CR /\ m_read_buf[m + 1] = LF
           late == m_read_buf[m] = LF /\ m > 2 /\ m_read_buf[m - 1] = CR
<1>1. ParseLine =
        IF found = {} THEN [open EXCEPT !.checked = m_read_idx]
        ELSE IF atEnd THEN [open EXCEPT !.checked = m - 1]
        ELSE IF crlf THEN [status |-> "OK", end |-> m - 1, checked |-> m + 1]
        ELSE IF late THEN [status |-> "OK", end |-> m - 2, checked |-> m]
        ELSE [status |-> "BAD", end |-> 0, checked |-> m - 1]
  BY Zenon DEF ParseLine
<1>2. m_checked_idx \in Nat /\ m_read_idx \in Nat /\ m_checked_idx <= m_read_idx
  BY LenProperties DEF ConnTypes, m_read_idx
<1>3. CASE found = {}
  <2>1. ParseLine = [open EXCEPT !.checked = m_read_idx]
    BY <1>1, <1>3, Zenon
  <2> QED
    BY <1>2, <2>1
<1>4. CASE found # {}
  <2>1. m \in found
    <3>1. found \in SUBSET Nat
      BY <1>2
    <3> HIDE DEF found
    <3> QED
      BY <1>4, <3>1, MinIsLeast
  <2>2. m \in m_checked_idx + 1 .. m_read_idx
    BY <2>1
  <2>3. \/ ParseLine = [open EXCEPT !.checked = m - 1]
        \/ ~atEnd /\ crlf /\ ParseLine = [status |-> "OK", end |-> m - 1, checked |-> m + 1]
        \/ ParseLine = [status |-> "OK", end |-> m - 2, checked |-> m]
        \/ ParseLine = [status |-> "BAD", end |-> 0, checked |-> m - 1]
    BY <1>1, <1>4, Zenon
  <2> HIDE DEF m, found
  <2>4. \/ ParseLine.checked = m - 1 \/ ParseLine.checked = m
        \/ m # m_read_idx /\ ParseLine.checked = m + 1
    BY <2>3
  <2> QED
    BY <1>2, <2>2, <2>4
<1> QED
  BY <1>3, <1>4

(* The indices, whatever writev(2) takes. *)
LEMMA ConnTypesNext ==
  ASSUME ConnTypes, [HttpConnNext]_connVars
  PROVE  ConnTypes'
<1>1. /\ asked \in Seq(Requests)
      /\ unsent \in Seq(ConnByte) /\ inbound \in Seq(ConnByte) /\ m_read_buf \in Seq(ConnByte)
      /\ m_checked_idx \in Nat /\ m_start_line \in Nat /\ m_linger \in BOOLEAN
      /\ m_start_line <= m_checked_idx /\ m_checked_idx <= m_read_idx
  BY DEF ConnTypes
<1>2. ASSUME NEW r \in Requests, AskNext(r) PROVE ConnTypes'
  <2>1. asked' = Append(asked, r) /\ unsent' = r
        /\ UNCHANGED <<inbound, m_read_buf, m_checked_idx, m_start_line, m_linger>>
    BY <1>2, Zenon DEF AskNext, parserVars
  <2>2. asked' \in Seq(Requests) /\ unsent' \in Seq(ConnByte)
    BY <1>1, <2>1, AppendProperties, RequestsAssumption DEF ConnByte
  <2>3. UNCHANGED m_read_idx
    BY <2>1 DEF m_read_idx
  <2> QED
    BY <1>1, <2>1, <2>2, <2>3, Zenon DEF ConnTypes
<1>3. ASSUME NEW n \in 1 .. Len(unsent), ClientSends(n) PROVE ConnTypes'
  <2>1. /\ inbound' = inbound \o SubSeq(unsent, 1, n)
        /\ unsent' = SubSeq(unsent, n + 1, Len(unsent))
        /\ UNCHANGED <<asked, m_read_buf, m_checked_idx, m_start_line, m_linger>>
    BY <1>3, Zenon DEF ClientSends, parserVars
  <2>2. GoesBehind(ConnByte, m_read_buf, inbound, unsent, n)
    BY <1>1, PieceGoesBehind
  <2>3. inbound' \in Seq(ConnByte) /\ unsent' \in Seq(ConnByte)
    BY <2>1, <2>2, Zenon DEF GoesBehind
  <2>4. UNCHANGED m_read_idx
    BY <2>1 DEF m_read_idx
  <2> QED
    BY <1>1, <2>1, <2>3, <2>4, Zenon DEF ConnTypes
<1>4. CASE ReadAll
  <2>1. /\ inbound' = <<>> /\ UNCHANGED <<asked, unsent, m_checked_idx, m_start_line, m_linger>>
        /\ m_read_buf' = m_read_buf \/ m_read_buf' = m_read_buf \o inbound
    BY <1>4, Zenon DEF ReadAll, Ends
  <2>2. /\ m_read_buf \o inbound \in Seq(ConnByte)
        /\ Len(m_read_buf \o inbound) = Len(m_read_buf) + Len(inbound)
        /\ Len(m_read_buf) \in Nat /\ Len(inbound) \in Nat
    BY <1>1, ConcatProperties, LenProperties
  <2>3. m_checked_idx <= Len(m_read_buf) /\ m_checked_idx <= Len(m_read_buf \o inbound)
    BY <1>1, <2>2 DEF m_read_idx
  <2>4. m_read_buf' \in Seq(ConnByte) /\ m_checked_idx' <= m_read_idx'
    BY <1>1, <2>1, <2>2, <2>3, Zenon DEF m_read_idx
  <2>5. <<>> \in Seq(ConnByte)
    OBVIOUS
  <2> QED
    BY <1>1, <2>1, <2>4, <2>5, Zenon DEF ConnTypes
<1>5. CASE ParseOneLine \/ LineIsNotThere
  <2>1. /\ m_checked_idx' = ParseLine.checked
        /\ m_start_line' = ParseLine.checked \/ m_start_line' = m_start_line
        /\ UNCHANGED <<asked, unsent, inbound, m_read_buf>>
        /\ \/ m_linger' = m_linger
           \/ m_linger' = (m_linger \/ Text = <<"Connection:", "keep-alive">>)
    BY <1>5, Zenon
    DEF ParseOneLine, LineIsNotThere, clientVars, CheckRequestLine, CheckHeader
  <2>2. m_linger' \in BOOLEAN
    BY <1>1, <2>1
  <2>3. ParseLine.checked \in m_checked_idx .. m_read_idx /\ m_read_idx \in Nat
    BY <1>1, LenProperties, ParseLineInBuffer DEF m_read_idx
  <2>4. /\ m_checked_idx' \in Nat /\ m_start_line' \in Nat
        /\ m_start_line' <= m_checked_idx' /\ m_checked_idx' <= m_read_idx
    BY <1>1, <2>1, <2>3
  <2>5. UNCHANGED m_read_idx
    BY <2>1 DEF m_read_idx
  <2> QED
    BY <1>1, <2>1, <2>2, <2>4, <2>5, Zenon DEF ConnTypes
<1>6. ASSUME UNCHANGED <<asked, unsent, inbound, m_read_buf, m_checked_idx, m_start_line, m_linger>>
      PROVE  ConnTypes'
  <2>1. UNCHANGED m_read_idx
    BY <1>6 DEF m_read_idx
  <2> QED
    BY <1>1, <1>6, <2>1, Zenon DEF ConnTypes
<1>7. ASSUME NEW n \in 1 .. Len(m_iv), Writev(n) PROVE ConnTypes'
  <2>1. /\ UNCHANGED <<asked, unsent, inbound>>
        /\ WriteIsDone \/ UNCHANGED parserVars
    BY <1>7, Zenon DEF Writev, clientVars
  <2>2. \/ UNCHANGED <<m_read_buf, m_checked_idx, m_start_line, m_linger>>
        \/ m_read_buf' = <<>> /\ m_checked_idx' = 0 /\ m_start_line' = 0 /\ m_linger' = FALSE
    BY <2>1, Zenon DEF WriteIsDone, ResetConn, parserVars
  <2>3. CASE UNCHANGED <<m_read_buf, m_checked_idx, m_start_line, m_linger>>
    BY <1>6, <2>1, <2>3, Zenon
  <2>4. CASE m_read_buf' = <<>> /\ m_checked_idx' = 0 /\ m_start_line' = 0 /\ m_linger' = FALSE
    <3>1. m_read_idx' = 0
      BY <2>4 DEF m_read_idx
    <3>2. /\ <<>> \in Seq(ConnByte) /\ 0 \in Nat /\ FALSE \in BOOLEAN
          /\ m_start_line' <= m_checked_idx' /\ m_checked_idx' <= m_read_idx'
      BY <2>4, <3>1
    <3> QED
      BY <1>1, <2>1, <2>4, <3>2, Zenon DEF ConnTypes
  <2> QED
    BY <2>2, <2>3, <2>4
<1>8. CASE ClientCloses \/ FillResponse \/ StartWrite \/ WritevHasNoRoom \/ WritevFails
  BY <1>6, <1>8, Zenon
  DEF ClientCloses, FillResponse, StartWrite, WritevHasNoRoom, WritevFails, clientVars, parserVars
<1>9. CASE UNCHANGED connVars
  BY <1>6, <1>9, Zenon DEF connVars, clientVars, parserVars
<1> QED
  BY <1>2, <1>3, <1>4, <1>5, <1>7, <1>8, <1>9, Zenon DEF HttpConnNext, ServerStep

(* Every step keeps the invariant: the indices whatever writev(2) takes, and *)
(* what is owed as long as it takes all.                                     *)
LEMMA ConnInvNext == ASSUME ConnInv, [HttpConnNext]_connVars PROVE ConnInv'
<1> SUFFICES ASSUME ~shortened' PROVE Stands'
  BY ConnTypesNext DEF ConnInv
<1>1. ASSUME shortened' = shortened PROVE Stands
  BY <1>1 DEF ConnInv
<1>2. ASSUME NEW r \in Requests, AskNext(r) PROVE Stands'
  <2>1. shortened' = shortened
    BY <1>2 DEF AskNext, writerVars
  <2> QED
    BY <1>1, <1>2, <2>1, AskNextStands
<1>3. ASSUME NEW n \in 1 .. Len(unsent), ClientSends(n) PROVE Stands'
  <2>1. shortened' = shortened
    BY <1>3 DEF ClientSends, writerVars
  <2> QED
    BY <1>1, <1>3, <2>1, ClientSendsStands
<1>4. CASE ClientCloses \/ WritevFails
  <2>1. shortened' = shortened
    BY <1>4 DEF ClientCloses, WritevFails, writerVars
  <2> QED
    BY <1>1, <1>4, <2>1, ConnEndsStands
<1>5. CASE ReadAll
  <2>1. shortened' = shortened
    BY <1>5 DEF ReadAll, writerVars
  <2> QED
    BY <1>1, <1>5, <2>1, ReadAllStands
<1>6. CASE ParseOneLine
  <2>1. shortened' = shortened
    BY <1>6, Zenon DEF ParseOneLine, writerVars
  <2> QED
    BY <1>1, <1>6, <2>1, ParseOneLineStands
<1>7. CASE LineIsNotThere
  <2>1. shortened' = shortened
    BY <1>7 DEF LineIsNotThere, writerVars
  <2> QED
    BY <1>1, <1>7, <2>1, LineIsNotThereStands
<1>8. CASE FillResponse
  <2>1. shortened' = shortened
    BY <1>8 DEF FillResponse
  <2> QED
    BY <1>1, <1>8, <2>1, FillResponseStands
<1>9. CASE StartWrite \/ WritevHasNoRoom
  <2>1. shortened' = shortened
    BY <1>9 DEF StartWrite, WritevHasNoRoom, writerVars
  <2> QED
    BY <1>1, <1>9, <2>1, WriteWaitsStands
<1>10. ASSUME NEW n \in 1 .. Len(m_iv), Writev(n) PROVE Stands'
  <2>1. shortened' = (shortened \/ n < Len(m_iv))
    BY <1>10, Zenon DEF Writev
  <2>2. Stands
    BY <2>1 DEF ConnInv
  <2> QED
    BY <1>10, <2>2, WritevStands
<1>11. CASE UNCHANGED connVars
  <2>1. shortened' = shortened
    BY <1>11 DEF connVars, writerVars
  <2> QED
    BY <1>1, <1>11, <2>1, StutterStands
<1>12. CASE HttpConnNext
  BY <1>2, <1>3, <1>4, <1>5, <1>6, <1>7, <1>8, <1>9, <1>10, <1>12, Zenon
  DEF HttpConnNext, ServerStep
<1> QED
  BY <1>11, <1>12

(* However the requests are cut, the client gets the responses to them, one *)
(* after the other and each as its own lines ask, unless a writev(2) took a  *)
(* part of one, and the indices stay in what has been read                   *)
(* (http_conn.cpp: read(), parse_line(), process_read(), write(), init()).   *)
THEOREM ResponsesCorrect ==
  HttpConnInit /\ [][HttpConnNext]_connVars => []ResponsesAreTheRequests
<1>1. ASSUME HttpConnInit PROVE ConnInv
  BY <1>1, InitStands DEF ConnInv, Stands
<1>2. ASSUME ConnInv PROVE ResponsesAreTheRequests
  <2>1. asked \in Seq(Requests) /\ m_start_line <= m_checked_idx /\ m_checked_idx <= m_read_idx
    BY <1>2 DEF ConnInv, ConnTypes
  <2>2. ~shortened => IsPrefix(arrived, Owed(Len(asked)))
    BY <1>2, <2>1, ArrivedIsPrefix, OwedIs DEF ConnInv
  <2> QED
    BY <2>1, <2>2 DEF ResponsesAreTheRequests
<1> QED
  BY <1>1, <1>2, ConnInvNext, PTL
============================================================================
