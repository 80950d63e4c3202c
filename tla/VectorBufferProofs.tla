------------------------- MODULE VectorBufferProofs -------------------------
(***************************************************************************)
(* Lemmas about the operations of Buffer.h, for every vector, reserve and  *)
(* extrabuf size and every width of size_t.                                *)
(*                                                                         *)
(* Two lemmas per operation of Buffer.h: a good buffer is left fine by any *)
(* call (good, or the program has ended) and sound by a legal one (good,   *)
(* or it has thrown).                                                      *)
(***************************************************************************)
EXTENDS VectorBuffer, SequenceTheorems, TLAPS

BufferType ==
    [buffer_: Seq(Nat), kreadIndex_: Nat, kwriteIndex_: Nat,
     status: {"ok", "throw", "overrun", "abort"}, intact: BOOLEAN]

Good(b) ==
    /\ b \in BufferType /\ b.status = "ok"
    /\ b.kreadIndex_ <= b.kwriteIndex_ /\ b.kwriteIndex_ <= size(b) /\ size(b) <= MaxSize
    /\ kinitPreSize <= size(b)

Sound(b) == Good(b) \/ (b \in BufferType /\ b.status = "throw")

Fine(b) == Good(b) \/ (b \in BufferType /\ b.status # "ok")

(* The arithmetic of size_t: below Word, a remainder is the number itself. *)
LEMMA Sizes ==
    /\ Word \in Nat \ {0} /\ MaxSize \in Nat /\ 2 * MaxSize + 2 <= Word
    /\ kinitSize \in Nat \ {0} /\ kinitSize <= MaxSize
    /\ kinitPreSize \in Nat /\ kinitPreSize <= kinitSize
BY SizeAssumption DEF MaxSize

LEMMA NoWrap == ASSUME NEW x \in Nat, x < Word PROVE x % Word = x
BY Sizes

LEMMA GoodSizes ==
    ASSUME NEW b, Good(b)
    PROVE  /\ b.buffer_ \in Seq(Nat) /\ size(b) \in Nat
           /\ b.kreadIndex_ \in Nat /\ b.kwriteIndex_ \in Nat
           /\ readable(b) = b.kwriteIndex_ - b.kreadIndex_ /\ readable(b) \in Nat
           /\ writable(b) = size(b) - b.kwriteIndex_ /\ writable(b) \in Nat
<1>1. /\ b.buffer_ \in Seq(Nat) /\ b.kreadIndex_ \in Nat /\ b.kwriteIndex_ \in Nat
      /\ b.kreadIndex_ <= b.kwriteIndex_ /\ b.kwriteIndex_ <= size(b) /\ size(b) <= MaxSize
  BY DEF Good, BufferType
<1>2. size(b) \in Nat
  BY <1>1, LenProperties DEF size
<1>3. /\ b.kwriteIndex_ - b.kreadIndex_ \in Nat /\ b.kwriteIndex_ - b.kreadIndex_ < Word
      /\ size(b) - b.kwriteIndex_ \in Nat /\ size(b) - b.kwriteIndex_ < Word
  BY <1>1, <1>2, Sizes
<1>4. QED BY <1>1, <1>2, <1>3, NoWrap DEF readable, writable

(* A function on 1 .. n is a sequence of length n.                         *)
LEMMA FunctionIsSeq ==
    ASSUME NEW n \in Nat, NEW f \in [1 .. n -> Nat]
    PROVE  f \in Seq(Nat) /\ Len(f) = n
OBVIOUS

(* memcpy() into the vector changes neither its size nor its type.         *)
LEMMA WrittenType ==
    ASSUME NEW mem \in Seq(Nat), NEW at \in Nat, NEW bytes \in Seq(Nat)
    PROVE  Written(mem, at, bytes) \in Seq(Nat) /\ Len(Written(mem, at, bytes)) = Len(mem)
<1>1. Len(mem) \in Nat /\ Len(bytes) \in Nat
  BY LenProperties
<1>2. ASSUME NEW i \in 1 .. Len(mem)
      PROVE  (IF at < i /\ i <= at + Len(bytes) THEN bytes[i - at] ELSE mem[i]) \in Nat
  <2>1. CASE at < i /\ i <= at + Len(bytes)
    <3>1. i - at \in 1 .. Len(bytes)
      BY <1>1, <2>1
    <3>2. bytes[i - at] \in Nat
      BY <3>1, ElementOfSeq
    <3>3. QED BY <2>1, <3>2
  <2>2. CASE ~ (at < i /\ i <= at + Len(bytes))
    BY <2>2, ElementOfSeq
  <2>3. QED BY <2>1, <2>2
<1>3. Written(mem, at, bytes) \in [1 .. Len(mem) -> Nat]
  BY <1>2 DEF Written
<1>4. QED BY <1>1, <1>3, FunctionIsSeq
-----------------------------------------------------------------------------
(* enlarge(): a larger vector keeps the window; growing never wraps for    *)
(* lengths below a quarter of the address space.                           *)
LEMMA GrowFine ==
    ASSUME NEW b, Good(b), NEW len \in Nat, NEW newSize \in Nat,
           newSize = (size(b) + 2 * len) % Word
    PROVE  /\ Fine(Grow(b, len))
           /\ Grow(b, len).status = "ok" =>
                  Good(Grow(b, len)) /\ writable(Grow(b, len)) = newSize - b.kwriteIndex_
           /\ newSize >= size(b) => Sound(Grow(b, len))
<1> DEFINE grown   == [b EXCEPT !.buffer_ = b.buffer_ \o Zeros(newSize - size(b))]
           thrown  == [b EXCEPT !.buffer_ = <<>>, !.status = "throw"]
           wrapped == [b EXCEPT !.status = "overrun"]
<1>1. /\ b.buffer_ \in Seq(Nat) /\ size(b) \in Nat /\ size(b) <= MaxSize
      /\ b.kreadIndex_ \in Nat /\ b.kwriteIndex_ \in Nat /\ b \in BufferType
      /\ b.kreadIndex_ <= b.kwriteIndex_ /\ b.kwriteIndex_ <= size(b) /\ b.status = "ok"
  BY GoodSizes DEF Good
<1>2. CASE newSize > MaxSize
  <2>1. Grow(b, len) = thrown
    BY <1>2 DEF Grow
  <2>2. thrown \in BufferType /\ thrown.status = "throw"
    BY <1>1, EmptySeq DEF BufferType
  <2>3. QED BY <2>1, <2>2 DEF Sound, Fine
<1>3. CASE ~ (newSize > MaxSize) /\ newSize < size(b)
  <2>1. Grow(b, len) = wrapped
    BY <1>3, Zenon DEF Grow
  <2>2. wrapped \in BufferType /\ wrapped.status = "overrun"
    BY <1>1 DEF BufferType
  <2> HIDE DEF wrapped
  <2>3. ~ (newSize >= size(b))
    BY <1>1, <1>3
  <2>4. QED BY <2>1, <2>2, <2>3 DEF Fine
<1>4. CASE ~ (newSize > MaxSize) /\ ~ (newSize < size(b))
  <2>1. Grow(b, len) = grown
    BY <1>4, Zenon DEF Grow
  <2>2. newSize - size(b) \in Nat
    BY <1>1, <1>4
  <2>3. Zeros(newSize - size(b)) \in Seq(Nat) /\ Len(Zeros(newSize - size(b))) = newSize - size(b)
    BY <2>2 DEF Zeros
  <2>4. /\ b.buffer_ \o Zeros(newSize - size(b)) \in Seq(Nat)
        /\ Len(b.buffer_ \o Zeros(newSize - size(b))) = newSize
    <3> DEFINE zeros == Zeros(newSize - size(b))
    <3>1. zeros \in Seq(Nat) /\ Len(zeros) = newSize - size(b)
      BY <2>3
    <3> HIDE DEF zeros
    <3>2. b.buffer_ \o zeros \in Seq(Nat) /\ Len(b.buffer_ \o zeros) = Len(b.buffer_) + Len(zeros)
      BY <1>1, <3>1, ConcatProperties
    <3>3. Len(b.buffer_) = size(b) /\ size(b) \in Nat
      BY <1>1 DEF size
    <3>4. Len(b.buffer_) + Len(zeros) = newSize
      BY <3>1, <3>3
    <3>5. QED BY <3>2, <3>4 DEF zeros
  <2>5. /\ grown \in BufferType /\ grown.status = "ok" /\ size(grown) = newSize
        /\ grown.kreadIndex_ = b.kreadIndex_ /\ grown.kwriteIndex_ = b.kwriteIndex_
    BY <1>1, <2>4 DEF BufferType, size
  <2> HIDE DEF grown
  <2>6. Good(grown)
    BY <1>1, <1>4, <2>5, Sizes DEF Good
  <2>7. writable(grown) = newSize - b.kwriteIndex_
    BY <2>5, <2>6, GoodSizes
  <2>8. QED BY <2>1, <2>6, <2>7 DEF Sound, Fine
<1>5. QED BY <1>2, <1>3, <1>4

LEMMA GrowSound ==
    ASSUME NEW b, Good(b), NEW len \in Nat, 4 * len <= Word
    PROVE  /\ Sound(Grow(b, len))
           /\ Grow(b, len).status = "ok" => len <= writable(Grow(b, len))
<1> DEFINE newSize == size(b) + 2 * len
<1>1. size(b) \in Nat /\ b.kwriteIndex_ \in Nat /\ b.kwriteIndex_ <= size(b) /\ size(b) <= MaxSize
  BY GoodSizes DEF Good
<1>2. newSize \in Nat /\ newSize < Word /\ newSize >= size(b)
  BY <1>1, Sizes
<1>3. newSize = (size(b) + 2 * len) % Word
  <2> HIDE DEF newSize
  <2>1. newSize % Word = newSize
    BY <1>2, NoWrap
  <2>2. QED BY <2>1 DEF newSize
<1>4. len <= newSize - b.kwriteIndex_
  BY <1>1
<1> HIDE DEF newSize
<1>5. QED BY <1>2, <1>3, <1>4, GrowFine

(* Whatever bytes of the window come out wrong, it has its length.         *)
LEMMA MovedType ==
    ASSUME NEW b, Good(b), NEW wrong
    PROVE  MovedWindow(b, wrong) \in Seq(Nat) /\ Len(MovedWindow(b, wrong)) = readable(b)
<1> DEFINE n == readable(b)
           from == b.kreadIndex_
<1>1. /\ b.buffer_ \in Seq(Nat) /\ size(b) \in Nat /\ from \in Nat /\ n \in Nat
      /\ from + n <= size(b) /\ size(b) = Len(b.buffer_)
  BY GoodSizes DEF Good, size
<1>2. ASSUME NEW i \in 1 .. n PROVE (IF i \in wrong THEN Spoiled ELSE b.buffer_[from + i]) \in Nat
  <2>1. from + i \in 1 .. Len(b.buffer_)
    BY <1>1, SMTT(30)
  <2>2. b.buffer_[from + i] \in Nat
    BY <1>1, <2>1, ElementOfSeq
  <2>3. QED BY <2>2 DEF Spoiled
<1>3. MovedWindow(b, wrong) \in [1 .. n -> Nat]
  BY <1>2 DEF MovedWindow
<1>4. QED BY <1>1, <1>3, FunctionIsSeq

(* The second branch of enlarge(), with the bytes that come out wrong.     *)
Moved(b, wrong) ==
    [b EXCEPT !.buffer_ = Written(b.buffer_, kinitPreSize, MovedWindow(b, wrong)),
              !.kreadIndex_ = kinitPreSize, !.kwriteIndex_ = kinitPreSize + readable(b),
              !.intact = b.intact /\ wrong = {}]

LEMMA CompactMoves ==
    ASSUME NEW b, size(b) \in Nat, kinitPreSize + readable(b) \in Nat,
           kinitPreSize + readable(b) <= size(b), NEW e \in Compact(b)
    PROVE  \E wrong \in SUBSET Overlap(b) : e = Moved(b, wrong)
<1>1. ~ (kinitPreSize + readable(b) > size(b))
  OBVIOUS
<1>2. Compact(b) = {Moved(b, wrong) : wrong \in SUBSET Overlap(b)}
  BY <1>1, Zenon DEF Compact, Moved
<1>3. QED BY <1>2

LEMMA CompactGood ==
    ASSUME NEW b, Good(b), kinitPreSize + readable(b) <= size(b), NEW e \in Compact(b)
    PROVE  /\ Good(e)
           /\ writable(e) = size(b) - (kinitPreSize + readable(b))
<1>1. /\ b.buffer_ \in Seq(Nat) /\ size(b) \in Nat /\ size(b) <= MaxSize
      /\ b.kreadIndex_ \in Nat /\ b.kwriteIndex_ \in Nat /\ b \in BufferType
      /\ b.status = "ok" /\ readable(b) \in Nat
  BY GoodSizes DEF Good
<1>2. kinitPreSize + readable(b) \in Nat
  BY <1>1, Sizes
<1>3. PICK wrong \in SUBSET Overlap(b) : e = Moved(b, wrong)
  BY <1>1, <1>2, CompactMoves
<1> DEFINE mem == Written(b.buffer_, kinitPreSize, MovedWindow(b, wrong))
           whole == b.intact /\ wrong = {}
<1>4. mem \in Seq(Nat) /\ Len(mem) = size(b) /\ whole \in BOOLEAN
  BY <1>1, Sizes, MovedType, WrittenType DEF size
<1> HIDE DEF mem, whole
<1>5. e = [b EXCEPT !.buffer_ = mem, !.kreadIndex_ = kinitPreSize,
                    !.kwriteIndex_ = kinitPreSize + readable(b), !.intact = whole]
  BY <1>3 DEF Moved, mem, whole
<1>6. /\ e \in BufferType /\ e.status = "ok" /\ size(e) = size(b)
      /\ e.kreadIndex_ = kinitPreSize /\ e.kwriteIndex_ = kinitPreSize + readable(b)
  BY <1>1, <1>2, <1>4, <1>5, Sizes DEF BufferType, size
<1>7. Good(e)
  BY <1>1, <1>2, <1>6, Sizes DEF Good
<1>8. QED BY <1>6, <1>7, GoodSizes

(* enlarge(), whatever the arithmetic of its condition gives.              *)
LEMMA EnlargeFine ==
    ASSUME NEW b, Good(b), NEW len \in Nat, NEW e \in enlarge(b, len) PROVE Fine(e)
<1>1. size(b) \in Nat /\ readable(b) \in Nat /\ b \in BufferType
  BY GoodSizes DEF Good
<1>2. CASE e = Grow(b, len)
  <2> DEFINE newSize == (size(b) + 2 * len) % Word
  <2>1. newSize \in Nat
    BY <1>1, Sizes
  <2> HIDE DEF newSize
  <2>2. newSize = (size(b) + 2 * len) % Word
    BY DEF newSize
  <2>3. QED BY <1>2, <2>1, <2>2, GrowFine
<1>3. CASE e \in Compact(b)
  <2>1. CASE kinitPreSize + readable(b) <= size(b)
    BY <1>3, <2>1, CompactGood DEF Fine
  <2>2. CASE ~ (kinitPreSize + readable(b) <= size(b))
    <3>1. kinitPreSize + readable(b) > size(b)
      BY <1>1, <2>2, Sizes
    <3>2. e = [b EXCEPT !.status = "overrun"]
      BY <1>3, <3>1 DEF Compact
    <3>3. QED BY <1>1, <3>2 DEF Fine, BufferType
  <2>3. QED BY <2>1, <2>2
<1>4. QED BY <1>2, <1>3 DEF enlarge

(* After enlarge(len), len bytes fit: the assert of append() holds.        *)
LEMMA EnlargeSound ==
    ASSUME NEW b, Good(b), kinitPreSize <= b.kreadIndex_,
           NEW len \in Nat, 4 * len <= Word, NEW e \in enlarge(b, len)
    PROVE  Sound(e) /\ (e.status = "ok" => len <= writable(e))
<1>1. /\ writable(b) \in Nat /\ b.kreadIndex_ \in Nat /\ size(b) <= MaxSize /\ size(b) \in Nat
      /\ writable(b) = size(b) - b.kwriteIndex_ /\ b.kreadIndex_ <= b.kwriteIndex_ /\ b.kwriteIndex_ \in Nat
  BY GoodSizes DEF Good
<1> DEFINE room == writable(b) + b.kreadIndex_ - kinitPreSize
<1>2. room \in Nat /\ room < Word
  BY <1>1, Sizes
<1>3. (writable(b) + b.kreadIndex_ - kinitPreSize) % Word = room
  <2> HIDE DEF room
  <2>1. room % Word = room
    BY <1>2, NoWrap
  <2>2. QED BY <2>1 DEF room
<1>4. CASE len > room
  <2>1. e = Grow(b, len)
    BY <1>3, <1>4 DEF enlarge
  <2>2. QED BY <2>1, GrowSound
<1>5. CASE ~ (len > room)
  <2>1. e \in Compact(b)
    BY <1>3, <1>5 DEF enlarge
  <2>2. kinitPreSize + readable(b) <= size(b) /\ size(b) - (kinitPreSize + readable(b)) = room
    <3>1. readable(b) = b.kwriteIndex_ - b.kreadIndex_ /\ kinitPreSize \in Nat
      BY Sizes, GoodSizes
    <3> DEFINE r == b.kreadIndex_
               w == b.kwriteIndex_
               s == size(b)
    <3>2. /\ r \in Nat /\ w \in Nat /\ s \in Nat /\ writable(b) = s - w
          /\ w - r + kinitPreSize <= s /\ s - (kinitPreSize + (w - r)) = s - w + r - kinitPreSize
      <4>1. r \in Nat /\ w \in Nat /\ s \in Nat /\ writable(b) = s - w /\ s - w \in Nat /\ kinitPreSize <= r
        BY <1>1
      <4> HIDE DEF r, w, s
      <4>2. QED BY <3>1, <4>1
    <3>3. QED BY <3>1, <3>2
  <2>3. Good(e) /\ writable(e) = room
    BY <2>1, <2>2, CompactGood
  <2>4. QED BY <1>2, <1>5, <2>3 DEF Sound
<1>6. QED BY <1>4, <1>5
-----------------------------------------------------------------------------
(* append(): bytes that fit are written behind the window.                 *)
LEMMA FilledGood ==
    ASSUME NEW e, Good(e), NEW len \in Nat, len <= writable(e), NEW bytes \in Seq(Nat)
    PROVE  Good(Filled(e, bytes, len))
<1>1. /\ e.buffer_ \in Seq(Nat) /\ size(e) \in Nat /\ size(e) <= MaxSize
      /\ e.kreadIndex_ \in Nat /\ e.kwriteIndex_ \in Nat /\ e \in BufferType
      /\ e.kreadIndex_ <= e.kwriteIndex_ /\ writable(e) = size(e) - e.kwriteIndex_
      /\ writable(e) \in Nat /\ e.status = "ok"
  BY GoodSizes DEF Good
<1> DEFINE mem == Written(e.buffer_, e.kwriteIndex_, bytes)
           full == [e EXCEPT !.buffer_ = mem, !.kwriteIndex_ = @ + len]
<1>2. ~ (len > writable(e)) /\ ~ (e.kwriteIndex_ + len > size(e))
  BY <1>1
<1>3. Filled(e, bytes, len) = full
  BY <1>1, <1>2, Zenon DEF Filled
<1>4. mem \in Seq(Nat) /\ Len(mem) = size(e)
  BY <1>1, WrittenType DEF size
<1> HIDE DEF mem
<1>5. /\ full \in BufferType /\ full.status = "ok" /\ size(full) = size(e)
      /\ full.kreadIndex_ = e.kreadIndex_ /\ full.kwriteIndex_ = e.kwriteIndex_ + len
  <2> DEFINE w == e.kwriteIndex_ + len
  <2>1. w \in Nat /\ full = [e EXCEPT !.buffer_ = mem, !.kwriteIndex_ = w]
    BY <1>1
  <2> HIDE DEF w, full
  <2>2. full \in BufferType /\ full.status = "ok"
    BY <1>1, <1>4, <2>1 DEF BufferType
  <2>3. full.buffer_ = mem /\ full.kreadIndex_ = e.kreadIndex_ /\ full.kwriteIndex_ = w
    BY <1>1, <2>1 DEF BufferType
  <2>4. QED BY <1>4, <2>2, <2>3 DEF size, w
<1> HIDE DEF full
<1>6. Good(full)
  BY <1>1, <1>2, <1>5 DEF Good
<1>7. QED BY <1>3, <1>6

LEMMA FilledFine ==
    ASSUME NEW e, Fine(e), NEW len \in Nat, NEW bytes \in Seq(Nat)
    PROVE  Fine(Filled(e, bytes, len))
<1>1. CASE e.status # "ok"
  BY <1>1 DEF Filled, Fine
<1>2. CASE e.status = "ok" /\ len > writable(e)
  <2>1. Filled(e, bytes, len) = [e EXCEPT !.status = "abort"]
    BY <1>2, Zenon DEF Filled
  <2>2. e \in BufferType
    BY DEF Fine, Good
  <2>3. QED BY <2>1, <2>2 DEF Fine, BufferType
<1>3. CASE e.status = "ok" /\ ~ (len > writable(e))
  <2>1. Good(e)
    BY <1>3 DEF Fine
  <2>2. len <= writable(e)
    BY <1>3, <2>1, GoodSizes
  <2>3. QED BY <2>1, <2>2, FilledGood DEF Fine
<1>4. QED BY <1>1, <1>2, <1>3

LEMMA AppendFine ==
    ASSUME NEW b, Good(b), NEW len \in Nat, NEW bytes \in Seq(Nat),
           NEW a \in append(b, bytes, len)
    PROVE  Fine(a)
<1>1. PICK e \in (IF len > writable(b) THEN enlarge(b, len) ELSE {b}) : a = Filled(e, bytes, len)
  BY Zenon DEF append
<1>2. e = b \/ e \in enlarge(b, len)
  BY <1>1
<1>3. Fine(e)
  BY <1>2, EnlargeFine DEF Fine
<1>4. QED BY <1>1, <1>3, FilledFine

(* append(), for a buffer with its reserve or bytes that fit as it is.     *)
LEMMA AppendSound ==
    ASSUME NEW b, Good(b), NEW len \in Nat, 4 * len <= Word,
           kinitPreSize <= b.kreadIndex_ \/ len <= writable(b),
           NEW bytes \in Seq(Nat), NEW a \in append(b, bytes, len)
    PROVE  Sound(a)
<1>1. PICK e \in (IF len > writable(b) THEN enlarge(b, len) ELSE {b}) : a = Filled(e, bytes, len)
  BY Zenon DEF append
<1>2. Sound(e) /\ (e.status = "ok" => len <= writable(e))
  <2>1. CASE len > writable(b)
    <3>1. kinitPreSize <= b.kreadIndex_
      BY <2>1, GoodSizes
    <3>2. e \in enlarge(b, len)
      BY <1>1, <2>1
    <3>3. QED BY <3>1, <3>2, EnlargeSound
  <2>2. CASE ~ (len > writable(b))
    <3>1. e = b
      BY <1>1, <2>2
    <3>2. QED BY <2>2, <3>1, GoodSizes DEF Sound
  <2>3. QED BY <2>1, <2>2
<1>3. CASE e.status # "ok"
  BY <1>1, <1>2, <1>3 DEF Filled
<1>4. CASE e.status = "ok"
  <2>1. Good(e) /\ len <= writable(e)
    BY <1>2, <1>4 DEF Sound
  <2>2. QED BY <1>1, <2>1, FilledGood DEF Sound
<1>5. QED BY <1>3, <1>4

(* readFd(), for any result of readv(), -1 included: what does not fit     *)
(* goes through append() on a vector that is full.                         *)
LEMMA ReadFdCases ==
    ASSUME NEW b, Good(b), NEW n \in Nat, NEW bytes \in Seq(Nat), NEW a \in readFd(b, bytes, n)
    PROVE  \/ Good(a) /\ n <= writable(b)
           \/ /\ writable(b) < n
              /\ \E over, rest \in Seq(Nat) :
                    LET full == [b EXCEPT !.buffer_ = over, !.kwriteIndex_ = size(b)]
                    IN  Good(full) /\ a \in append(full, rest, n - writable(b))
<1> DEFINE room  == writable(b)
           inVec == IF Len(bytes) < room THEN Len(bytes) ELSE room
           part  == SubSeq(bytes, 1, inVec)
           rest  == SubSeq(bytes, inVec + 1, Len(bytes))
           mem   == Written(b.buffer_, b.kwriteIndex_, part)
           read  == [b EXCEPT !.buffer_ = mem, !.kwriteIndex_ = @ + n]
           over  == [b EXCEPT !.buffer_ = mem, !.kwriteIndex_ = size(b)]
<1>1. /\ b.buffer_ \in Seq(Nat) /\ size(b) \in Nat /\ size(b) <= MaxSize
      /\ b.kreadIndex_ \in Nat /\ b.kwriteIndex_ \in Nat /\ b \in BufferType
      /\ b.kreadIndex_ <= b.kwriteIndex_ /\ b.kwriteIndex_ <= size(b) /\ b.status = "ok"
      /\ room = size(b) - b.kwriteIndex_ /\ room \in Nat
  BY GoodSizes DEF Good
<1>2. inVec \in Nat /\ inVec <= Len(bytes) /\ Len(bytes) \in Nat
  BY <1>1
<1>3. part \in Seq(Nat) /\ rest \in Seq(Nat)
  <2> HIDE DEF inVec
  <2>1. \A i \in 1 .. Len(bytes) : bytes[i] \in Nat
    BY ElementOfSeq
  <2>2. part \in Seq(Nat)
    BY <1>2, <2>1, SubSeqProperties
  <2>3. rest \in Seq(Nat)
    BY <1>2, <2>1, SubSeqProperties
  <2>4. QED BY <2>2, <2>3
<1>4. mem \in Seq(Nat) /\ Len(mem) = size(b)
  <2> HIDE DEF part
  <2>1. QED BY <1>1, <1>3, WrittenType DEF size
<1>5. CASE n <= 0
  <2>1. a = b
    BY <1>5 DEF readFd
  <2>2. n <= writable(b)
    <3> HIDE DEF mem, inVec
    <3>1. QED BY <1>1, <1>5
  <2>3. QED BY <2>1, <2>2
<1>6. CASE ~ (n <= 0) /\ n <= room
  <2>1. a = read
    BY <1>6, Zenon DEF readFd
  <2> HIDE DEF mem
  <2>2. /\ read \in BufferType /\ read.status = "ok" /\ size(read) = size(b)
        /\ read.kreadIndex_ = b.kreadIndex_ /\ read.kwriteIndex_ = b.kwriteIndex_ + n
    <3> DEFINE w == b.kwriteIndex_ + n
    <3>1. w \in Nat /\ read = [b EXCEPT !.buffer_ = mem, !.kwriteIndex_ = w]
      BY <1>1
    <3> HIDE DEF w, read
    <3>2. read \in BufferType /\ read.status = "ok"
      BY <1>1, <1>4, <3>1 DEF BufferType
    <3>3. read.buffer_ = mem /\ read.kreadIndex_ = b.kreadIndex_ /\ read.kwriteIndex_ = w
      BY <1>1, <3>1 DEF BufferType
    <3>4. QED BY <1>4, <3>2, <3>3 DEF size, w
  <2> HIDE DEF read
  <2>3. Good(read)
    BY <1>1, <1>6, <2>2 DEF Good
  <2>4. QED BY <1>6, <2>1, <2>3
<1>7. CASE ~ (n <= 0) /\ ~ (n <= room)
  <2>1. a \in append(over, rest, n - room)
    BY <1>7, Zenon DEF readFd
  <2>2. writable(b) < n
    BY <1>1, <1>7
  <2> HIDE DEF mem, room, rest
  <2>3. /\ over \in BufferType /\ over.status = "ok" /\ size(over) = size(b)
        /\ over.kreadIndex_ = b.kreadIndex_ /\ over.kwriteIndex_ = size(b)
    BY <1>1, <1>4 DEF BufferType, size
  <2>4. Good(over)
    <3> HIDE DEF over
    <3>1. QED BY <1>1, <2>3 DEF Good
  <2>5. QED BY <1>3, <1>4, <2>1, <2>2, <2>4 DEF room
<1>8. QED BY <1>5, <1>6, <1>7

LEMMA ReadFdFine ==
    ASSUME NEW b, Good(b), NEW n \in Nat, NEW bytes \in Seq(Nat), NEW a \in readFd(b, bytes, n)
    PROVE  Fine(a)
<1> DEFINE excess == n - writable(b)
<1>1. CASE Good(a)
  BY <1>1 DEF Fine
<1>2. ASSUME writable(b) < n, NEW full, Good(full), NEW rest \in Seq(Nat), a \in append(full, rest, excess)
      PROVE  Fine(a)
  <2>1. excess \in Nat
    BY <1>2, GoodSizes
  <2> HIDE DEF excess
  <2>2. QED BY <1>2, <2>1, AppendFine
<1>3. QED BY <1>1, <1>2, ReadFdCases

(* readFd(), when readv() has not failed.                                  *)
LEMMA ReadFdSound ==
    ASSUME NEW b, Good(b), NEW n \in Nat, 4 * n <= Word, n <= MaxRead(b),
           kinitPreSize <= b.kreadIndex_ \/ MaxRead(b) <= writable(b),
           NEW bytes \in Seq(Nat), NEW a \in readFd(b, bytes, n)
    PROVE  Sound(a)
<1> DEFINE excess == n - writable(b)
<1>1. writable(b) \in Nat /\ MaxRead(b) \in Nat /\ b \in BufferType /\ size(b) \in Nat
  BY GoodSizes, SizeAssumption, SMTT(30) DEF MaxRead, Good
<1>2. CASE Good(a)
  BY <1>2 DEF Sound
<1>3. ASSUME writable(b) < n, NEW over \in Seq(Nat), NEW full, Good(full), NEW rest \in Seq(Nat),
             full = [b EXCEPT !.buffer_ = over, !.kwriteIndex_ = size(b)],
             a \in append(full, rest, excess)
      PROVE  Sound(a)
  <2>1. excess \in Nat /\ 4 * excess <= Word
    <3>1. excess \in Nat /\ excess <= n
      BY <1>1, <1>3
    <3> HIDE DEF excess
    <3>2. QED BY <3>1, Sizes
  <2>2. kinitPreSize <= b.kreadIndex_
    BY <1>1, <1>3
  <2>3. full.kreadIndex_ = b.kreadIndex_
    BY <1>1, <1>3 DEF BufferType
  <2> HIDE DEF excess
  <2>4. kinitPreSize <= full.kreadIndex_
    BY <2>2, <2>3
  <2>5. QED BY <1>3, <2>1, <2>4, AppendSound
<1>4. QED BY <1>2, <1>3, ReadFdCases
-----------------------------------------------------------------------------
(* prepend(), retrieve() and retrieveAll() move the indices within the     *)
(* vector.                                                                 *)
LEMMA PrependGood ==
    ASSUME NEW b, Good(b), NEW len \in Nat, len <= prependable(b), NEW bytes \in Seq(Nat)
    PROVE  Good(prepend(b, bytes, len))
<1> DEFINE mem == Written(b.buffer_, b.kreadIndex_ - len, bytes)
           after == [b EXCEPT !.kreadIndex_ = @ - len, !.buffer_ = mem]
<1>1. /\ b.buffer_ \in Seq(Nat) /\ size(b) \in Nat /\ size(b) <= MaxSize
      /\ b.kreadIndex_ \in Nat /\ b.kwriteIndex_ \in Nat /\ b \in BufferType
      /\ b.kreadIndex_ <= b.kwriteIndex_ /\ b.kwriteIndex_ <= size(b) /\ b.status = "ok"
      /\ len <= b.kreadIndex_ /\ b.kreadIndex_ - len \in Nat
  BY GoodSizes DEF Good, prependable
<1>2. prepend(b, bytes, len) = after
  BY <1>1 DEF prepend, prependable
<1>3. mem \in Seq(Nat) /\ Len(mem) = size(b)
  BY <1>1, WrittenType DEF size
<1> HIDE DEF mem
<1>4. /\ after \in BufferType /\ after.status = "ok" /\ size(after) = size(b)
      /\ after.kreadIndex_ = b.kreadIndex_ - len /\ after.kwriteIndex_ = b.kwriteIndex_
  BY <1>1, <1>3 DEF BufferType, size
<1> HIDE DEF after
<1>5. Good(after)
  BY <1>1, <1>4 DEF Good
<1>6. QED BY <1>2, <1>5

LEMMA RetrieveAllGood == ASSUME NEW b, Good(b) PROVE Good(retrieveAll(b))
<1> DEFINE after == [b EXCEPT !.kreadIndex_ = kinitPreSize, !.kwriteIndex_ = kinitPreSize]
<1>1. /\ b.buffer_ \in Seq(Nat) /\ b \in BufferType /\ b.status = "ok"
      /\ kinitPreSize <= size(b) /\ size(b) <= MaxSize /\ kinitPreSize \in Nat
  BY Sizes DEF Good, BufferType
<1>2. /\ after \in BufferType /\ after.status = "ok" /\ after.buffer_ = b.buffer_
      /\ after.kreadIndex_ = kinitPreSize /\ after.kwriteIndex_ = kinitPreSize
  BY <1>1 DEF BufferType
<1> HIDE DEF after
<1>3. Good(after)
  BY <1>1, <1>2 DEF Good, size
<1>4. QED BY <1>3 DEF retrieveAll, after

LEMMA RetrieveGood == ASSUME NEW b, Good(b), NEW len \in Nat PROVE Good(retrieve(b, len))
<1> DEFINE after == [b EXCEPT !.kreadIndex_ = @ + len]
<1>1. CASE len >= readable(b)
  BY <1>1, RetrieveAllGood DEF retrieve
<1>2. CASE ~ (len >= readable(b))
  <2>1. /\ b.kreadIndex_ \in Nat /\ b.kwriteIndex_ \in Nat /\ b \in BufferType /\ b.status = "ok"
        /\ b.kreadIndex_ + len <= b.kwriteIndex_ /\ b.kwriteIndex_ <= size(b) /\ size(b) <= MaxSize
        /\ b.kreadIndex_ + len \in Nat /\ kinitPreSize <= size(b)
    BY <1>2, GoodSizes DEF Good
  <2>2. /\ after \in BufferType /\ after.status = "ok" /\ after.buffer_ = b.buffer_
        /\ after.kreadIndex_ = b.kreadIndex_ + len /\ after.kwriteIndex_ = b.kwriteIndex_
    BY <2>1 DEF BufferType
  <2>3. retrieve(b, len) = after
    BY <1>2, Zenon DEF retrieve
  <2> HIDE DEF after
  <2>4. Good(after)
    BY <2>1, <2>2 DEF Good, size
  <2>5. QED BY <2>3, <2>4
<1>3. QED BY <1>1, <1>2

(* What is handed out is a string of bytes.                                *)
LEMMA PreViewType ==
    ASSUME NEW b, Good(b), NEW len \in Nat PROVE preView(b, len) \in Seq(Nat)
<1> DEFINE last == b.kreadIndex_ + (IF len > readable(b) THEN readable(b) ELSE len)
<1>1. /\ b.buffer_ \in Seq(Nat) /\ b.kreadIndex_ \in Nat /\ readable(b) \in Nat
      /\ readable(b) = b.kwriteIndex_ - b.kreadIndex_ /\ b.kwriteIndex_ <= size(b)
      /\ size(b) \in Nat /\ b.kwriteIndex_ \in Nat
  BY GoodSizes DEF Good
<1>2. last \in Nat /\ last <= Len(b.buffer_)
  BY <1>1, SMTT(30) DEF size
<1> HIDE DEF last
<1>3. \A i \in 1 .. Len(b.buffer_) : b.buffer_[i] \in Nat
  BY <1>1, ElementOfSeq
<1>4. SubSeq(b.buffer_, b.kreadIndex_ + 1, last) \in Seq(Nat)
  BY <1>1, <1>2, <1>3, SubSeqProperties, SMTT(30)
<1>5. QED BY <1>4 DEF preView, last
-----------------------------------------------------------------------------
(* The bytes in the window.  A sequence is the window of a good buffer if  *)
(* it has its length and its bytes.                                        *)
LEMMA WindowFacts ==
    ASSUME NEW b, Good(b)
    PROVE  /\ window(b) \in Seq(Nat) /\ Len(window(b)) = readable(b)
           /\ \A i \in 1 .. readable(b) : window(b)[i] = b.buffer_[b.kreadIndex_ + i]
<1>1. /\ b.buffer_ \in Seq(Nat) /\ b.kreadIndex_ \in Nat /\ b.kwriteIndex_ \in Nat
      /\ readable(b) = b.kwriteIndex_ - b.kreadIndex_ /\ readable(b) \in Nat
      /\ b.kwriteIndex_ <= Len(b.buffer_) /\ Len(b.buffer_) \in Nat
  BY GoodSizes DEF Good, size
<1>2. \A i \in b.kreadIndex_ + 1 .. b.kwriteIndex_ : b.buffer_[i] \in Nat
  BY <1>1, ElementOfSeq, SMTT(30)
<1> DEFINE first == b.kreadIndex_ + 1
           last  == b.kwriteIndex_
<1>3. first \in Int /\ last \in Int /\ \A i \in first .. last : b.buffer_[i] \in Nat
  BY <1>1, <1>2
<1>4. /\ last - first + 1 = readable(b) /\ (first <= last <=> readable(b) # 0)
      /\ \A i \in Nat : first + i - 1 = b.kreadIndex_ + i
  BY <1>1
<1> HIDE DEF first, last
<1>5. /\ SubSeq(b.buffer_, first, last) \in Seq(Nat)
      /\ Len(SubSeq(b.buffer_, first, last)) = IF first <= last THEN last - first + 1 ELSE 0
      /\ \A i \in 1 .. last - first + 1 : SubSeq(b.buffer_, first, last)[i] = b.buffer_[first + i - 1]
  BY <1>3, SubSeqProperties
<1>6. window(b) = SubSeq(b.buffer_, first, last)
  BY DEF window, first, last
<1>7. Len(window(b)) = readable(b)
  BY <1>1, <1>4, <1>5, <1>6
<1>8. ASSUME NEW i \in 1 .. readable(b) PROVE window(b)[i] = b.buffer_[b.kreadIndex_ + i]
  <2>1. i \in 1 .. last - first + 1 /\ i \in Nat
    BY <1>4
  <2>2. QED BY <1>4, <1>5, <1>6, <2>1
<1>9. QED BY <1>5, <1>6, <1>7, <1>8

LEMMA WindowIs ==
    ASSUME NEW b, Good(b), NEW s \in Seq(Nat), Len(s) = readable(b),
           \A i \in 1 .. Len(s) : b.buffer_[b.kreadIndex_ + i] = s[i]
    PROVE  window(b) = s
BY WindowFacts, SeqEqual

(* memcpy() changes the bytes it is told to, and no others.                *)
LEMMA WrittenBytes ==
    ASSUME NEW mem \in Seq(Nat), NEW at \in Nat, NEW bytes \in Seq(Nat), at + Len(bytes) <= Len(mem)
    PROVE  /\ \A i \in 1 .. at : Written(mem, at, bytes)[i] = mem[i]
           /\ \A i \in 1 .. Len(bytes) : Written(mem, at, bytes)[at + i] = bytes[i]
           /\ \A i \in at + Len(bytes) + 1 .. Len(mem) : Written(mem, at, bytes)[i] = mem[i]
<1>1. Len(mem) \in Nat /\ Len(bytes) \in Nat
  BY LenProperties
<1>2. \A i \in 1 .. Len(mem) :
         Written(mem, at, bytes)[i] = IF at < i /\ i <= at + Len(bytes) THEN bytes[i - at] ELSE mem[i]
  BY DEF Written
<1>3. ASSUME NEW i \in 1 .. at PROVE Written(mem, at, bytes)[i] = mem[i]
  BY <1>1, <1>2
<1>4. ASSUME NEW i \in 1 .. Len(bytes) PROVE Written(mem, at, bytes)[at + i] = bytes[i]
  <2>1. at + i \in 1 .. Len(mem) /\ at < at + i /\ at + i <= at + Len(bytes) /\ (at + i) - at = i
    BY <1>1
  <2>2. QED BY <1>2, <2>1
<1>5. ASSUME NEW i \in at + Len(bytes) + 1 .. Len(mem) PROVE Written(mem, at, bytes)[i] = mem[i]
  <2>1. i \in 1 .. Len(mem) /\ ~ (i <= at + Len(bytes))
    BY <1>1
  <2>2. QED BY <1>2, <2>1
<1>6. QED BY <1>3, <1>4, <1>5

(* After enlarge() for n bytes: the window as it was, in a vector that has *)
(* grown by 2n at most; or the exception, since it would be too large.     *)
Kept(e, b, n) ==
    /\ Good(e) /\ window(e) = window(b)
    /\ e.kreadIndex_ \in {b.kreadIndex_, kinitPreSize}
    /\ size(e) <= size(b) + 2 * n

Threw(e, b, n) == e \in BufferType /\ e.status = "throw" /\ size(b) + 2 * n > MaxSize

LEMMA GrowKeeps ==
    ASSUME NEW b, Good(b), NEW len \in Nat, 4 * len <= Word
    PROVE  Kept(Grow(b, len), b, len) \/ Threw(Grow(b, len), b, len)
<1> DEFINE g == Grow(b, len)
           newSize == size(b) + 2 * len
           zeros == Zeros(newSize - size(b))
<1>1. /\ b.buffer_ \in Seq(Nat) /\ size(b) \in Nat /\ size(b) = Len(b.buffer_) /\ size(b) <= MaxSize
      /\ b.kreadIndex_ \in Nat /\ b.kwriteIndex_ \in Nat /\ b \in BufferType
      /\ b.kreadIndex_ <= b.kwriteIndex_ /\ b.kwriteIndex_ <= size(b)
      /\ readable(b) = b.kwriteIndex_ - b.kreadIndex_
  BY GoodSizes DEF Good, size
<1>2. newSize \in Nat /\ newSize < Word /\ ~ (newSize < size(b)) /\ newSize - size(b) \in Nat
  <2>1. size(b) \in Nat /\ size(b) <= MaxSize
    BY <1>1
  <2>2. QED BY <2>1, Sizes
<1>3. newSize % Word = newSize /\ Sound(g)
  <2>1. newSize % Word = newSize
    <3> HIDE DEF newSize
    <3>1. QED BY <1>2, NoWrap
  <2>2. QED BY <2>1, GrowSound
<1>4. CASE newSize > MaxSize
  <2>1. g = [b EXCEPT !.buffer_ = <<>>, !.status = "throw"]
    BY <1>3, <1>4 DEF Grow
  <2> HIDE DEF g
  <2>2. g.status = "throw"
    BY <1>1, <2>1 DEF BufferType
  <2>3. QED BY <1>3, <1>4, <2>2 DEF Threw, Sound, Good, g
<1>5. CASE ~ (newSize > MaxSize)
  <2>1. g = [b EXCEPT !.buffer_ = b.buffer_ \o zeros]
    <3>1. /\ ~ ((size(b) + 2 * len) % Word > MaxSize) /\ ~ ((size(b) + 2 * len) % Word < size(b))
          /\ ((size(b) + 2 * len) % Word) - size(b) = newSize - size(b)
      BY <1>2, <1>3, <1>5
    <3>2. Grow(b, len) = [b EXCEPT !.buffer_ = b.buffer_ \o Zeros(((size(b) + 2 * len) % Word) - size(b))]
      BY <3>1, Zenon DEF Grow
    <3>3. QED BY <3>1, <3>2
  <2>2. zeros \in Seq(Nat) /\ Len(zeros) = newSize - size(b)
    BY <1>2 DEF Zeros
  <2> HIDE DEF zeros
  <2>3. /\ Len(b.buffer_ \o zeros) = Len(b.buffer_) + Len(zeros)
        /\ \A i \in 1 .. Len(b.buffer_) + Len(zeros) : (b.buffer_ \o zeros)[i] =
                     IF i <= Len(b.buffer_) THEN b.buffer_[i] ELSE zeros[i - Len(b.buffer_)]
    BY <1>1, <2>2, ConcatProperties
  <2>4. /\ g.buffer_ = b.buffer_ \o zeros /\ g.status = "ok"
        /\ g.kreadIndex_ = b.kreadIndex_ /\ g.kwriteIndex_ = b.kwriteIndex_
    BY <1>1, <2>1 DEF BufferType, Good
  <2>5. size(g) = newSize
    <3>1. size(g) = Len(b.buffer_ \o zeros)
      BY <2>4 DEF size
    <3>2. QED BY <1>1, <1>2, <2>2, <2>3, <3>1
  <2>6. \A i \in 1 .. size(b) : g.buffer_[i] = b.buffer_[i]
    BY <1>1, <1>2, <2>2, <2>3, <2>4
  <2> HIDE DEF g, newSize
  <2>7. Good(g)
    BY <1>3, <2>4 DEF Sound
  <2>8. window(g) = window(b)
    <3>1. readable(g) = readable(b)
      BY <1>1, <2>4, <2>7, GoodSizes
    <3>2. window(b) \in Seq(Nat) /\ Len(window(b)) = readable(b)
          /\ \A i \in 1 .. readable(b) : window(b)[i] = b.buffer_[b.kreadIndex_ + i]
      BY WindowFacts
    <3>3. \A i \in 1 .. readable(b) : b.kreadIndex_ + i \in 1 .. size(b)
      BY <1>1, SMTT(30)
    <3>4. QED BY <2>4, <2>6, <2>7, <3>1, <3>2, <3>3, WindowIs
  <2>9. QED BY <1>1, <2>4, <2>5, <2>7, <2>8 DEF Kept, newSize, g
<1>6. QED BY <1>4, <1>5

(* A window of which no byte came out wrong is the window as it was.       *)
LEMMA CompactKeeps ==
    ASSUME NEW b, Good(b), kinitPreSize <= b.kreadIndex_, NEW e \in Compact(b), e.intact, NEW len \in Nat
    PROVE  Kept(e, b, len)
<1> DEFINE n == readable(b)
           from == b.kreadIndex_
           whole == MovedWindow(b, {})
           mem == Written(b.buffer_, kinitPreSize, whole)
<1>1. /\ b.buffer_ \in Seq(Nat) /\ size(b) \in Nat /\ size(b) = Len(b.buffer_)
      /\ from \in Nat /\ n \in Nat /\ from + n <= size(b) /\ kinitPreSize \in Nat
      /\ b \in BufferType
  BY GoodSizes, Sizes DEF Good, size
<1>2. kinitPreSize + n <= size(b)
  <2> HIDE DEF n, from
  <2>1. QED BY <1>1 DEF from
<1>3. PICK wrong \in SUBSET Overlap(b) : e = Moved(b, wrong)
  BY <1>1, <1>2, CompactMoves, SMTT(30)
<1>4. wrong = {}
  BY <1>1, <1>3 DEF Moved, BufferType
<1>5. e = Moved(b, {})
  BY <1>3, <1>4
<1>6. e.buffer_ = mem /\ e.kreadIndex_ = kinitPreSize /\ e.kwriteIndex_ = kinitPreSize + readable(b)
  BY <1>1, <1>5 DEF BufferType, Moved
<1>7. whole = window(b)
  <2>1. /\ window(b) \in Seq(Nat) /\ Len(window(b)) = readable(b)
        /\ \A i \in 1 .. readable(b) : window(b)[i] = b.buffer_[b.kreadIndex_ + i]
    BY WindowFacts
  <2>2. window(b) \in [1 .. n -> Nat]
    BY <2>1, LenProperties
  <2>3. whole = [i \in 1 .. n |-> b.buffer_[b.kreadIndex_ + i]]
    BY DEF MovedWindow
  <2>4. QED BY <2>1, <2>2, <2>3
<1> HIDE DEF whole
<1>8. whole \in Seq(Nat) /\ Len(whole) = n
  BY <1>7, WindowFacts
<1>9. Len(mem) = size(b) /\ \A i \in 1 .. n : mem[kinitPreSize + i] = whole[i]
  <2> HIDE DEF n
  <2>1. Len(mem) = size(b)
    BY <1>1, <1>8, WrittenType
  <2>2. \A i \in 1 .. Len(whole) : mem[kinitPreSize + i] = whole[i]
    <3>1. kinitPreSize + Len(whole) <= Len(b.buffer_)
      BY <1>1, <1>2, <1>8 DEF n
    <3>2. QED BY <1>1, <1>8, <3>1, WrittenBytes, ZenonT(30)
  <2>3. QED BY <1>8, <2>1, <2>2
<1>10. Good(e)
  BY <1>2, CompactGood
<1> HIDE DEF mem
<1>11. readable(e) = n
  BY <1>1, <1>6, <1>10, GoodSizes
<1>12. window(e) = whole
  BY <1>6, <1>8, <1>9, <1>10, <1>11, WindowIs
<1>13. size(e) = size(b)
  BY <1>6, <1>9 DEF size
<1>14. size(e) <= size(b) + 2 * len
  <2>1. size(b) \in Nat
    BY <1>1
  <2>2. QED BY <1>13, <2>1
<1>15. QED BY <1>6, <1>7, <1>10, <1>12, <1>14 DEF Kept

LEMMA EnlargeKeeps ==
    ASSUME NEW b, Good(b), kinitPreSize <= b.kreadIndex_,
           NEW len \in Nat, 4 * len <= Word, NEW e \in enlarge(b, len), e.intact
    PROVE  Kept(e, b, len) \/ Threw(e, b, len)
<1>1. e = Grow(b, len) \/ e \in Compact(b)
  BY DEF enlarge
<1>2. QED BY <1>1, GrowKeeps, CompactKeeps
-----------------------------------------------------------------------------
(* What an overlapping memcpy() has spoilt stays so; and none is made as   *)
(* long as the window begins where it is to be moved to.                   *)
LEMMA EnlargeIntact ==
    ASSUME NEW b, Good(b), NEW len \in Nat, NEW e \in enlarge(b, len)
    PROVE  /\ e.intact => b.intact
           /\ b.kreadIndex_ = kinitPreSize /\ len > writable(b) => e.intact = b.intact
<1>1. /\ b \in BufferType /\ size(b) \in Nat /\ readable(b) \in Nat /\ writable(b) \in Nat
      /\ b.kreadIndex_ \in Nat /\ kinitPreSize + readable(b) \in Nat /\ writable(b) < Word
  <2>1. /\ b \in BufferType /\ size(b) \in Nat /\ readable(b) \in Nat /\ writable(b) \in Nat
        /\ b.kreadIndex_ \in Nat /\ b.kwriteIndex_ \in Nat /\ size(b) <= MaxSize
        /\ writable(b) = size(b) - b.kwriteIndex_
    BY GoodSizes DEF Good
  <2>2. QED BY <2>1, Sizes
<1>2. Grow(b, len).intact = b.intact
  BY <1>1 DEF Grow, BufferType
<1>3. ASSUME NEW m \in Compact(b) PROVE m.intact => b.intact
  <2>1. CASE kinitPreSize + readable(b) <= size(b)
    <3>1. PICK wrong \in SUBSET Overlap(b) : m = Moved(b, wrong)
      BY <1>1, <2>1, CompactMoves
    <3>2. QED BY <1>1, <3>1 DEF Moved, BufferType
  <2>2. CASE ~ (kinitPreSize + readable(b) <= size(b))
    <3>1. kinitPreSize + readable(b) > size(b)
      BY <1>1, <2>2
    <3>2. m = [b EXCEPT !.status = "overrun"]
      BY <3>1 DEF Compact
    <3>3. QED BY <1>1, <3>2 DEF BufferType
  <2>3. QED BY <2>1, <2>2
<1>4. ASSUME b.kreadIndex_ = kinitPreSize, len > writable(b) PROVE e = Grow(b, len)
  <2>1. writable(b) + b.kreadIndex_ - kinitPreSize = writable(b)
    BY <1>1, <1>4
  <2>2. (writable(b) + b.kreadIndex_ - kinitPreSize) % Word = writable(b)
    BY <1>1, <2>1, NoWrap
  <2>3. QED BY <1>4, <2>2 DEF enlarge
<1>5. QED BY <1>2, <1>3, <1>4 DEF enlarge

LEMMA FilledIntact == \A e, bytes, len : Filled(e, bytes, len).intact = e.intact
BY DEF Filled

LEMMA AppendIntact ==
    ASSUME NEW b, Good(b), NEW len \in Nat, NEW bytes, NEW a \in append(b, bytes, len)
    PROVE  (a.intact => b.intact) /\ (b.kreadIndex_ = kinitPreSize => a.intact = b.intact)
<1>1. PICK e \in (IF len > writable(b) THEN enlarge(b, len) ELSE {b}) : a = Filled(e, bytes, len)
  BY Zenon DEF append
<1>2. a.intact = e.intact
  BY <1>1, FilledIntact
<1>3. CASE len > writable(b)
  BY <1>1, <1>2, <1>3, EnlargeIntact
<1>4. CASE ~ (len > writable(b))
  BY <1>1, <1>2, <1>4
<1>5. QED BY <1>3, <1>4

LEMMA ReadFdIntact ==
    ASSUME NEW b, Good(b), NEW bytes \in Seq(Nat), NEW n \in Nat, NEW a \in readFd(b, bytes, n)
    PROVE  (a.intact => b.intact) /\ (b.kreadIndex_ = kinitPreSize => a.intact = b.intact)
<1>1. writable(b) \in Nat /\ b \in BufferType
  BY GoodSizes DEF Good
<1>2. CASE n <= writable(b)
  <2>1. n <= 0 => a = b
    BY DEF readFd
  <2>2. \E mem : a = b \/ a = [b EXCEPT !.buffer_ = mem, !.kwriteIndex_ = @ + n]
    BY <1>2, <2>1 DEF readFd
  <2>3. QED BY <1>1, <2>2 DEF BufferType
<1>3. CASE ~ (n <= writable(b))
  <2>1. PICK mem \in Seq(Nat) : \E rest \in Seq(Nat) :
           LET full == [b EXCEPT !.buffer_ = mem, !.kwriteIndex_ = size(b)]
           IN  Good(full) /\ a \in append(full, rest, n - writable(b))
    BY <1>1, <1>3, ReadFdCases
  <2> DEFINE full == [b EXCEPT !.buffer_ = mem, !.kwriteIndex_ = size(b)]
  <2>2. PICK rest \in Seq(Nat) : Good(full) /\ a \in append(full, rest, n - writable(b))
    BY <2>1
  <2>3. full.intact = b.intact /\ full.kreadIndex_ = b.kreadIndex_ /\ n - writable(b) \in Nat
    BY <1>1, <1>3 DEF BufferType
  <2> HIDE DEF full
  <2>4. QED BY <2>2, <2>3, AppendIntact
<1>4. QED BY <1>2, <1>3
-----------------------------------------------------------------------------
(* append() and readFd() put the bytes behind those in the window, or      *)
(* throw; the vector has not grown by more than twice their number.        *)
Added(a, b, bytes) ==
    /\ Good(a) /\ window(a) = window(b) \o bytes
    /\ a.kreadIndex_ \in {b.kreadIndex_, kinitPreSize}
    /\ size(a) <= size(b) + 2 * Len(bytes)

(* A good buffer whose bytes, from the window on, are those of the window  *)
(* of b and then bytes.                                                    *)
LEMMA AddedWhen ==
    ASSUME NEW b, Good(b), NEW a, Good(a), NEW bytes \in Seq(Nat),
           a.kreadIndex_ = b.kreadIndex_, a.kwriteIndex_ = b.kwriteIndex_ + Len(bytes),
           \A i \in 1 .. b.kwriteIndex_ : a.buffer_[i] = b.buffer_[i],
           \A i \in 1 .. Len(bytes) : a.buffer_[b.kwriteIndex_ + i] = bytes[i]
    PROVE  window(a) = window(b) \o bytes
<1> DEFINE n == readable(b)
           r == b.kreadIndex_
           m == Len(bytes)
           s == window(b) \o bytes
<1>1. r \in Nat /\ n \in Nat /\ m \in Nat /\ b.kwriteIndex_ = r + n /\ readable(a) = n + m
  <2>1. /\ r \in Nat /\ b.kwriteIndex_ \in Nat /\ n \in Nat /\ n = b.kwriteIndex_ - r
        /\ readable(a) = (b.kwriteIndex_ + m) - r
    BY GoodSizes
  <2>2. m \in Nat
    BY LenProperties
  <2> HIDE DEF n, r, m
  <2>3. b.kwriteIndex_ = r + n
    BY <2>1
  <2>4. readable(a) = n + m
    BY <2>1, <2>2, <2>3
  <2>5. QED BY <2>1, <2>2, <2>3, <2>4
<1>2. window(b) \in Seq(Nat) /\ Len(window(b)) = n /\ \A i \in 1 .. n : window(b)[i] = b.buffer_[r + i]
  BY WindowFacts
<1> HIDE DEF n, r, m
<1>3. /\ s \in Seq(Nat) /\ Len(s) = n + m
      /\ \A i \in 1 .. n + m : s[i] = IF i <= n THEN window(b)[i] ELSE bytes[i - n]
  BY <1>2, ConcatProperties DEF m
<1> HIDE DEF s
<1>4. ASSUME NEW i \in 1 .. n + m PROVE a.buffer_[r + i] = s[i]
  <2>1. CASE i <= n
    <3>1. r + i \in 1 .. b.kwriteIndex_ /\ i \in 1 .. n
      BY <1>1, <2>1
    <3>2. QED BY <1>2, <1>3, <2>1, <3>1
  <2>2. CASE ~ (i <= n)
    <3>1. i - n \in 1 .. m /\ b.kwriteIndex_ + (i - n) = r + i
      BY <1>1, <2>2
    <3>2. a.buffer_[r + i] = bytes[i - n]
      BY <3>1 DEF m
    <3>3. QED BY <1>3, <2>2, <3>2
  <2>3. QED BY <2>1, <2>2
<1>5. QED BY <1>1, <1>3, <1>4, WindowIs DEF r, s

LEMMA FilledAdds ==
    ASSUME NEW e, Good(e), NEW bytes \in Seq(Nat), Len(bytes) <= writable(e)
    PROVE  /\ Good(Filled(e, bytes, Len(bytes)))
           /\ window(Filled(e, bytes, Len(bytes))) = window(e) \o bytes
           /\ Filled(e, bytes, Len(bytes)).kreadIndex_ = e.kreadIndex_
           /\ size(Filled(e, bytes, Len(bytes))) = size(e)
<1> DEFINE len == Len(bytes)
           f == Filled(e, bytes, len)
           mem == Written(e.buffer_, e.kwriteIndex_, bytes)
           w == e.kwriteIndex_ + len
<1>1. len \in Nat
  BY LenProperties
<1>2. /\ e.buffer_ \in Seq(Nat) /\ size(e) \in Nat /\ size(e) = Len(e.buffer_)
      /\ e.kwriteIndex_ \in Nat /\ writable(e) = size(e) - e.kwriteIndex_ /\ e.status = "ok" /\ e \in BufferType
  BY GoodSizes DEF Good, size
<1>3. Good(f)
  <2> HIDE DEF len
  <2>1. len <= writable(e)
    BY DEF len
  <2>2. QED BY <1>1, <2>1, FilledGood
<1>4. ~ (len > writable(e)) /\ ~ (e.kwriteIndex_ + len > size(e)) /\ e.kwriteIndex_ + len <= Len(e.buffer_)
  <2> HIDE DEF len
  <2>1. len <= writable(e)
    BY DEF len
  <2>2. QED BY <1>1, <1>2, <2>1
<1>5. f = [e EXCEPT !.buffer_ = mem, !.kwriteIndex_ = w]
  BY <1>2, <1>4, Zenon DEF Filled
<1> HIDE DEF f, mem
<1>6. f.buffer_ = mem /\ f.kreadIndex_ = e.kreadIndex_ /\ f.kwriteIndex_ = w
  BY <1>2, <1>5 DEF BufferType
<1>7. /\ \A i \in 1 .. e.kwriteIndex_ : mem[i] = e.buffer_[i]
      /\ \A i \in 1 .. len : mem[e.kwriteIndex_ + i] = bytes[i]
      /\ Len(mem) = Len(e.buffer_)
  BY <1>2, <1>4, WrittenBytes, WrittenType DEF mem
<1>8. window(f) = window(e) \o bytes
  BY <1>3, <1>6, <1>7, AddedWhen
<1>9. QED BY <1>2, <1>3, <1>6, <1>7, <1>8 DEF size, f

LEMMA AppendAdds ==
    ASSUME NEW b, Good(b), NEW bytes \in Seq(Nat), 4 * Len(bytes) <= Word,
           kinitPreSize <= b.kreadIndex_ \/ Len(bytes) <= writable(b),
           NEW a \in append(b, bytes, Len(bytes)), a.intact
    PROVE  Added(a, b, bytes) \/ Threw(a, b, Len(bytes))
<1> DEFINE len == Len(bytes)
<1>1. len \in Nat /\ size(b) \in Nat /\ writable(b) \in Nat
  BY LenProperties, GoodSizes
<1>2. PICK e \in (IF len > writable(b) THEN enlarge(b, len) ELSE {b}) : a = Filled(e, bytes, len)
  BY Zenon DEF append
<1>3. e.intact
  BY <1>2, FilledIntact
<1>4. Threw(e, b, len) \/ (Kept(e, b, len) /\ len <= writable(e))
  <2>1. CASE len > writable(b)
    <3>1. kinitPreSize <= b.kreadIndex_
      BY <1>1, <2>1
    <3>2. e \in enlarge(b, len) /\ 4 * len <= Word
      BY <1>2, <2>1
    <3> HIDE DEF len
    <3>3. (Kept(e, b, len) \/ Threw(e, b, len)) /\ (e.status = "ok" => len <= writable(e))
      BY <1>1, <1>3, <3>1, <3>2, EnlargeSound, EnlargeKeeps
    <3>4. QED BY <3>3 DEF Kept, Good
  <2>2. CASE ~ (len > writable(b))
    <3>1. e = b
      BY <1>2, <2>2
    <3> HIDE DEF len
    <3>2. QED BY <1>1, <2>2, <3>1 DEF Kept
  <2>3. QED BY <2>1, <2>2
<1>5. CASE Threw(e, b, len)
  BY <1>2, <1>5 DEF Threw, Filled
<1>6. CASE Kept(e, b, len) /\ len <= writable(e)
  <2>1. Good(a) /\ window(a) = window(e) \o bytes /\ a.kreadIndex_ = e.kreadIndex_ /\ size(a) = size(e)
    BY <1>2, <1>6, FilledAdds DEF Kept
  <2>2. QED BY <1>6, <2>1 DEF Added, Kept
<1>7. QED BY <1>4, <1>5, <1>6

LEMMA BytesAssociative ==
    ASSUME NEW s \in Seq(Nat), NEW t \in Seq(Nat), NEW u \in Seq(Nat)
    PROVE  (s \o t) \o u = s \o (t \o u)
BY ConcatAssociative, SMTT(30)

(* readFd(), when readv() has brought the bytes.                           *)
LEMMA ReadFdAdds ==
    ASSUME NEW b, Good(b), NEW bytes \in Seq(Nat), 4 * (Len(bytes) - writable(b)) <= Word,
           kinitPreSize <= b.kreadIndex_ \/ Len(bytes) <= writable(b),
           NEW a \in readFd(b, bytes, Len(bytes)), a.intact
    PROVE  Added(a, b, bytes) \/ Threw(a, b, Len(bytes))
<1> DEFINE n == Len(bytes)
           room == writable(b)
           inVec == IF n < room THEN n ELSE room
           part == SubSeq(bytes, 1, inVec)
           rest == SubSeq(bytes, inVec + 1, n)
           mem == Written(b.buffer_, b.kwriteIndex_, part)
           read == [b EXCEPT !.buffer_ = mem, !.kwriteIndex_ = @ + n]
           over == [b EXCEPT !.buffer_ = mem, !.kwriteIndex_ = size(b)]
<1>1. /\ b.buffer_ \in Seq(Nat) /\ size(b) \in Nat /\ size(b) = Len(b.buffer_) /\ size(b) <= MaxSize
      /\ b.kreadIndex_ \in Nat /\ b.kwriteIndex_ \in Nat /\ b \in BufferType /\ kinitPreSize <= size(b)
      /\ b.kreadIndex_ <= b.kwriteIndex_ /\ b.kwriteIndex_ <= size(b) /\ b.status = "ok"
      /\ room = size(b) - b.kwriteIndex_ /\ room \in Nat
  BY GoodSizes DEF Good, size
<1>2. n \in Nat /\ inVec \in 0 .. n /\ inVec <= room
  <2>1. n \in Nat
    BY LenProperties
  <2> HIDE DEF n, room
  <2>2. room \in Nat
    BY <1>1
  <2>3. QED BY <2>1, <2>2
<1>3. /\ part \in Seq(Nat) /\ Len(part) = inVec /\ rest \in Seq(Nat) /\ Len(rest) = n - inVec
      /\ part \o rest = bytes
  <2> HIDE DEF inVec
  <2>1. \A i \in 1 .. n : bytes[i] \in Nat
    BY ElementOfSeq
  <2> HIDE DEF n
  <2>2. part \in Seq(Nat) /\ Len(part) = inVec
    <3>1. 1 \in Int /\ inVec \in Int /\ \A i \in 1 .. inVec : bytes[i] \in Nat
      BY <1>2, <2>1
    <3>2. /\ part \in Seq(Nat) /\ Len(part) = IF 1 <= inVec THEN inVec - 1 + 1 ELSE 0
      BY <3>1, SubSeqProperties
    <3>3. QED BY <1>2, <3>2
  <2>3. rest \in Seq(Nat) /\ Len(rest) = n - inVec
    <3>1. inVec + 1 \in Int /\ n \in Int /\ \A i \in inVec + 1 .. n : bytes[i] \in Nat
      BY <1>2, <2>1
    <3>2. /\ rest \in Seq(Nat) /\ Len(rest) = IF inVec + 1 <= n THEN n - (inVec + 1) + 1 ELSE 0
      BY <3>1, SubSeqProperties
    <3>3. QED BY <1>2, <3>2
  <2>4. part \o rest = SubSeq(bytes, 1, n)
    <3>1. 1 \in 1 .. n + 1 /\ inVec \in 1 - 1 .. n /\ n \in inVec .. n
      BY <1>2
    <3>2. QED BY <3>1, ConcatAdjacentSubSeq DEF n
  <2>5. QED BY <2>2, <2>3, <2>4, SubSeqFull DEF n
<1>4. /\ \A i \in 1 .. b.kwriteIndex_ : mem[i] = b.buffer_[i]
      /\ \A i \in 1 .. inVec : mem[b.kwriteIndex_ + i] = part[i]
      /\ mem \in Seq(Nat) /\ Len(mem) = size(b)
  <2> HIDE DEF inVec, part, n, room, rest
  <2>1. b.kwriteIndex_ + inVec <= Len(b.buffer_)
    BY <1>1, <1>2
  <2>2. b.kwriteIndex_ + Len(part) <= Len(b.buffer_)
    BY <1>3, <2>1
  <2>3. /\ \A i \in 1 .. b.kwriteIndex_ : mem[i] = b.buffer_[i]
        /\ \A i \in 1 .. Len(part) : mem[b.kwriteIndex_ + i] = part[i]
    <3> HIDE DEF mem, read, over
    <3>1. b.buffer_ \in Seq(Nat) /\ b.kwriteIndex_ \in Nat /\ part \in Seq(Nat)
      BY <1>1, <1>3
    <3> DEFINE written == Written(b.buffer_, b.kwriteIndex_, part)
    <3>2. /\ \A i \in 1 .. b.kwriteIndex_ : written[i] = b.buffer_[i]
          /\ \A i \in 1 .. Len(part) : written[b.kwriteIndex_ + i] = part[i]
      <4> HIDE DEF written
      <4>1. QED BY <2>2, <3>1, WrittenBytes, ZenonT(30) DEF written
    <3>3. QED BY <3>2 DEF mem
  <2>4. mem \in Seq(Nat) /\ Len(mem) = Len(b.buffer_)
    BY <1>1, <1>3, WrittenType
  <2>5. QED BY <1>1, <1>3, <2>3, <2>4
<1> HIDE DEF mem
<1>5. CASE n <= 0
  <2>1. a = b
    BY <1>5 DEF readFd
  <2>2. Len(bytes) = 0 /\ bytes = <<>>
    BY <1>2, <1>5, EmptySeq
  <2>3. window(b) \o bytes = window(b)
    BY <2>2, WindowFacts, ConcatEmptySeq
  <2>4. size(a) <= size(b) + 2 * Len(bytes)
    BY <1>1, <2>1, <2>2
  <2>5. QED BY <2>1, <2>3, <2>4 DEF Added
<1>6. CASE ~ (n <= 0) /\ n <= room
  <2>1. inVec = n
    BY <1>1, <1>2, <1>6
  <2>2. part = bytes
    BY <2>1, SubSeqFull
  <2>3. a = read
    BY <1>6, Zenon DEF readFd, mem
  <2>4. a.buffer_ = mem /\ a.kreadIndex_ = b.kreadIndex_ /\ a.kwriteIndex_ = b.kwriteIndex_ + n
    BY <1>1, <2>3 DEF BufferType
  <2>5. Good(a)
    <3>1. a \in BufferType /\ a.status = "ok"
      <4> DEFINE w == b.kwriteIndex_ + n
      <4>1. w \in Nat /\ a = [b EXCEPT !.buffer_ = mem, !.kwriteIndex_ = w]
        BY <1>1, <1>2, <2>3, SMTT(30)
      <4> HIDE DEF w, read
      <4>2. QED BY <1>1, <1>4, <4>1 DEF BufferType
    <3> HIDE DEF read, n, room
    <3>2. size(a) = size(b)
      BY <1>4, <2>4 DEF size
    <3>3. b.kreadIndex_ <= b.kwriteIndex_ + n /\ b.kwriteIndex_ + n <= size(b)
      BY <1>1, <1>2, <1>6, SMTT(30)
    <3>4. QED BY <1>1, <2>4, <3>1, <3>2, <3>3 DEF Good
  <2> HIDE DEF read, part, inVec
  <2>6. window(a) = window(b) \o bytes
    BY <1>4, <2>1, <2>2, <2>4, <2>5, AddedWhen
  <2>7. size(a) <= size(b) + 2 * Len(bytes)
    <3>1. size(a) = size(b) /\ size(b) \in Nat
      BY <1>1, <1>4, <2>4 DEF size
    <3> HIDE DEF n
    <3>2. QED BY <1>2, <3>1 DEF n
  <2>8. QED BY <2>4, <2>5, <2>6, <2>7 DEF Added
<1>7. CASE ~ (n <= 0) /\ ~ (n <= room)
  <2>1. inVec = room /\ n - room \in Nat
    BY <1>1, <1>2, <1>7
  <2>2. a \in append(over, rest, n - room)
    BY <1>7, Zenon DEF readFd, mem
  <2>3. Len(rest) = n - room
    BY <1>3, <2>1
  <2>4. over.buffer_ = mem /\ over.kreadIndex_ = b.kreadIndex_ /\ over.kwriteIndex_ = size(b) /\ over.status = "ok"
    BY <1>1 DEF BufferType
  <2>5. over \in BufferType
    BY <1>1, <1>4 DEF BufferType
  <2> HIDE DEF over, rest, part, inVec
  <2>6. Good(over) /\ size(over) = size(b)
    <3> HIDE DEF n, room, read
    <3>1. size(over) = size(b)
      BY <1>4, <2>4 DEF size
    <3>2. b.kreadIndex_ <= size(b) /\ size(b) <= size(b)
      BY <1>1
    <3>3. QED BY <1>1, <2>4, <2>5, <3>1, <3>2 DEF Good
  <2>7. over.kwriteIndex_ = b.kwriteIndex_ + Len(part)
    BY <1>1, <1>3, <2>1, <2>4, SMTT(30)
  <2>8. window(over) = window(b) \o part
    BY <1>3, <1>4, <2>4, <2>6, <2>7, AddedWhen
  <2>9. kinitPreSize <= over.kreadIndex_
    BY <1>1, <1>2, <1>7, <2>4
  <2>10. 4 * Len(rest) <= Word
    BY <2>3
  <2>11. Added(a, over, rest) \/ Threw(a, over, Len(rest))
    BY <1>3, <2>2, <2>3, <2>6, <2>9, <2>10, AppendAdds
  <2>12. window(over) \o rest = window(b) \o bytes
    <3>1. window(b) \in Seq(Nat) /\ part \in Seq(Nat) /\ rest \in Seq(Nat)
      BY <1>3, WindowFacts
    <3>2. (window(b) \o part) \o rest = window(b) \o (part \o rest)
      <4> HIDE DEF part, rest
      <4>1. QED BY <3>1, BytesAssociative, ZenonT(30)
    <3>3. QED BY <1>3, <2>8, <3>2
  <2>13. size(b) \in Nat /\ Len(rest) \in Nat /\ Len(rest) <= n /\ n \in Nat
    <3> HIDE DEF n, room
    <3>1. QED BY <1>1, <1>2, <2>1, <2>3
  <2>14. CASE Added(a, over, rest)
    <3>1. size(a) \in Nat /\ size(a) <= size(b) + 2 * Len(rest)
      BY <2>6, <2>14, GoodSizes DEF Added
    <3>2. size(a) <= size(b) + 2 * n
      <4> HIDE DEF n
      <4>1. QED BY <2>13, <3>1
    <3>3. QED BY <2>4, <2>12, <2>14, <3>2 DEF Added
  <2>15. CASE Threw(a, over, Len(rest))
    <3>1. a \in BufferType /\ a.status = "throw" /\ size(b) + 2 * Len(rest) > MaxSize
      BY <2>6, <2>15 DEF Threw
    <3>2. size(b) + 2 * n > MaxSize
      <4> HIDE DEF n
      <4>1. QED BY <2>13, <3>1, Sizes
    <3>3. QED BY <3>1, <3>2 DEF Threw
  <2>16. QED BY <2>11, <2>14, <2>15
<1>8. QED BY <1>5, <1>6, <1>7

(* More than any vector can hold is never appended.                        *)
LEMMA AppendTooMuch ==
    ASSUME NEW b, Good(b), NEW len \in Nat, len > MaxSize, NEW bytes \in Seq(Nat),
           NEW a \in append(b, bytes, len)
    PROVE  a.status # "ok"
<1>1. PICK e \in (IF len > writable(b) THEN enlarge(b, len) ELSE {b}) : a = Filled(e, bytes, len)
  BY Zenon DEF append
<1>2. Fine(e)
  BY <1>1, EnlargeFine DEF Fine
<1>3. CASE e.status # "ok"
  BY <1>1, <1>3 DEF Filled
<1>4. CASE e.status = "ok"
  <2>1. Good(e)
    BY <1>2, <1>4 DEF Fine
  <2>2. /\ writable(e) \in Nat /\ writable(e) = size(e) - e.kwriteIndex_ /\ e.kwriteIndex_ \in Nat
        /\ size(e) \in Nat /\ size(e) <= MaxSize /\ e \in BufferType
    BY <2>1, GoodSizes DEF Good
  <2>3. len > writable(e)
    BY <2>2, Sizes
  <2>4. a = [e EXCEPT !.status = "abort"]
    BY <1>1, <1>4, <2>3, Zenon DEF Filled
  <2>5. QED BY <2>2, <2>4 DEF BufferType
<1>5. QED BY <1>3, <1>4

(* readFd() after a failed readv(): no vector has room for Word - 1 bytes, *)
(* so that the program ends, one way or another.                           *)
LEMMA ReadErrorEnds ==
    ASSUME NEW b, Good(b), NEW a \in readFd(b, <<>>, Word - 1)
    PROVE  a.status # "ok" /\ Fine(a)
<1> DEFINE n == Word - 1
           excess == n - writable(b)
<1>1. writable(b) \in Nat /\ writable(b) <= MaxSize /\ n \in Nat
  <2>1. /\ size(b) \in Nat /\ writable(b) \in Nat /\ writable(b) = size(b) - b.kwriteIndex_
        /\ size(b) <= MaxSize /\ b.kwriteIndex_ \in Nat
    BY GoodSizes DEF Good
  <2>2. QED BY <2>1, Sizes
<1>2. excess \in Nat /\ excess > MaxSize /\ ~ (n <= writable(b))
  BY <1>1, Sizes
<1>3. <<>> \in Seq(Nat) /\ a \in readFd(b, <<>>, n)
  BY EmptySeq
<1> HIDE DEF n
<1>4. PICK over \in Seq(Nat) : \E rest \in Seq(Nat) :
         LET full == [b EXCEPT !.buffer_ = over, !.kwriteIndex_ = size(b)]
         IN  Good(full) /\ a \in append(full, rest, n - writable(b))
  BY <1>1, <1>2, <1>3, ReadFdCases
<1> HIDE DEF excess
<1>5. a.status # "ok"
  BY <1>2, <1>4, AppendTooMuch DEF excess
<1>6. QED BY <1>1, <1>3, <1>5, ReadFdFine
-----------------------------------------------------------------------------
(* prepend() puts the bytes before the window; what is retrieved leaves it *)
(* at its front, and is what a string returned of it holds.                *)
LEMMA PrependAdds ==
    ASSUME NEW b, Good(b), NEW bytes \in Seq(Nat), Len(bytes) <= prependable(b)
    PROVE  /\ window(prepend(b, bytes, Len(bytes))) = bytes \o window(b)
           /\ size(prepend(b, bytes, Len(bytes))) = size(b)
<1> DEFINE len == Len(bytes)
           p == prepend(b, bytes, len)
           at == b.kreadIndex_ - len
           mem == Written(b.buffer_, at, bytes)
           n == readable(b)
           s == bytes \o window(b)
<1>1. /\ b.buffer_ \in Seq(Nat) /\ size(b) \in Nat /\ size(b) = Len(b.buffer_) /\ b \in BufferType
      /\ b.kreadIndex_ \in Nat /\ b.kreadIndex_ + n <= size(b) /\ n \in Nat /\ n = b.kwriteIndex_ - b.kreadIndex_
      /\ b.kwriteIndex_ \in Nat
  BY GoodSizes DEF Good, size
<1>2. len \in Nat /\ len <= b.kreadIndex_ /\ at \in Nat /\ at + len = b.kreadIndex_
  BY <1>1, LenProperties DEF prependable
<1>3. Good(p)
  <2> HIDE DEF len
  <2>1. len <= prependable(b)
    BY DEF len
  <2>2. QED BY <1>2, <2>1, PrependGood
<1>4. p = [b EXCEPT !.kreadIndex_ = at, !.buffer_ = mem]
  <2>1. ~ (len > prependable(b))
    BY <1>1, <1>2 DEF prependable
  <2>2. QED BY <2>1, Zenon DEF prepend
<1> HIDE DEF p, mem
<1>5. p.buffer_ = mem /\ p.kreadIndex_ = at /\ p.kwriteIndex_ = b.kwriteIndex_
  BY <1>1, <1>4 DEF BufferType
<1>6. /\ Len(mem) = size(b)
      /\ \A i \in 1 .. len : mem[at + i] = bytes[i]
      /\ \A i \in at + len + 1 .. size(b) : mem[i] = b.buffer_[i]
  <2> DEFINE first == at
  <2>1. first \in Nat /\ first + len <= size(b)
    <3> HIDE DEF len, at, n
    <3>1. QED BY <1>1, <1>2
  <2> HIDE DEF first
  <2>2. mem = Written(b.buffer_, first, bytes)
    BY DEF mem, first
  <2>3. /\ Len(mem) = size(b)
        /\ \A i \in 1 .. Len(bytes) : mem[first + i] = bytes[i]
        /\ \A i \in first + Len(bytes) + 1 .. Len(b.buffer_) : mem[i] = b.buffer_[i]
    <3> HIDE DEF len, at, n, s
    <3>1. b.buffer_ \in Seq(Nat) /\ first + Len(bytes) <= Len(b.buffer_) /\ size(b) = Len(b.buffer_)
      BY <1>1, <2>1 DEF len
    <3>2. QED BY <2>1, <2>2, <3>1, WrittenBytes, WrittenType
  <2>4. QED BY <1>1, <2>3 DEF first
<1>7. window(b) \in Seq(Nat) /\ Len(window(b)) = n /\ \A i \in 1 .. n : window(b)[i] = b.buffer_[b.kreadIndex_ + i]
  BY WindowFacts
<1>8. readable(p) = len + n
  <2>1. readable(p) = b.kwriteIndex_ - (b.kreadIndex_ - len)
    BY <1>3, <1>5, GoodSizes
  <2> HIDE DEF n, len
  <2>2. QED BY <1>1, <1>2, <2>1
<1> HIDE DEF n
<1>9. /\ s \in Seq(Nat) /\ Len(s) = len + n
      /\ \A i \in 1 .. len + n : s[i] = IF i <= len THEN bytes[i] ELSE window(b)[i - len]
  BY <1>7, ConcatProperties
<1> HIDE DEF s
<1>10. ASSUME NEW i \in 1 .. len + n PROVE p.buffer_[p.kreadIndex_ + i] = s[i]
  <2>0. /\ i \in Nat \ {0} /\ i <= len + n /\ at + len = b.kreadIndex_
        /\ b.kreadIndex_ \in Nat /\ b.kreadIndex_ + n <= size(b) /\ size(b) \in Nat
        /\ len \in Nat /\ at \in Nat /\ n \in Nat
    BY <1>1, <1>2
  <2> HIDE DEF len, at
  <2>1. CASE i <= len
    <3>1. i \in 1 .. len
      BY <1>2, <2>0, <2>1
    <3>2. QED BY <1>5, <1>6, <1>9, <2>1, <3>1
  <2>2. CASE ~ (i <= len)
    <3>1. i - len \in 1 .. n /\ b.kreadIndex_ + (i - len) = at + i /\ at + i \in at + len + 1 .. size(b)
      BY <2>0, <2>2
    <3>2. QED BY <1>5, <1>6, <1>7, <1>9, <2>2, <3>1, ZenonT(30)
  <2>3. QED BY <2>1, <2>2
<1>11. window(p) = s
  <2> HIDE DEF len
  <2>1. QED BY <1>3, <1>8, <1>9, <1>10, WindowIs
<1>12. size(p) = size(b)
  BY <1>5, <1>6 DEF size
<1>13. QED BY <1>11, <1>12 DEF p, s

\* What a caller that asks for len bytes is given.
Taken(b, len) == IF len > readable(b) THEN readable(b) ELSE len

LEMMA RetrieveDrops ==
    ASSUME NEW b, Good(b), NEW len \in Nat
    PROVE  /\ Taken(b, len) \in 0 .. Len(window(b))
           /\ window(retrieve(b, len)) = SubSeq(window(b), Taken(b, len) + 1, Len(window(b)))
           /\ size(retrieve(b, len)) = size(b)
<1> DEFINE a == retrieve(b, len)
           n == readable(b)
           k == Taken(b, len)
<1>1. /\ b.kreadIndex_ \in Nat /\ b.kwriteIndex_ \in Nat /\ n \in Nat /\ n = b.kwriteIndex_ - b.kreadIndex_
      /\ b \in BufferType
  BY GoodSizes DEF Good
<1>2. window(b) \in Seq(Nat) /\ Len(window(b)) = n /\ \A i \in 1 .. n : window(b)[i] = b.buffer_[b.kreadIndex_ + i]
  BY WindowFacts
<1>3. k \in 0 .. n /\ (len >= n => k = n) /\ (~ (len >= n) => k = len)
  <2> HIDE DEF n
  <2>1. k = IF len > n THEN n ELSE len
    BY DEF Taken, n
  <2> HIDE DEF k
  <2>2. QED BY <1>1, <2>1
<1>4. Good(a)
  BY RetrieveGood
<1>5. a.buffer_ = b.buffer_
  BY <1>1 DEF retrieve, retrieveAll, BufferType
<1>6. CASE len >= n
  <2>1. a.kreadIndex_ = kinitPreSize /\ a.kwriteIndex_ = kinitPreSize
    BY <1>1, <1>6 DEF retrieve, retrieveAll, BufferType
  <2> HIDE DEF a
  <2>2. readable(a) = 0
    BY <1>4, <2>1, GoodSizes, Sizes
  <2>3. window(a) = <<>>
    BY <1>4, <2>2, WindowFacts, EmptySeq
  <2>4. SubSeq(window(b), n + 1, n) = <<>>
    <3> HIDE DEF n
    <3>1. n + 1 \in Int /\ n \in Int /\ n < n + 1
      BY <1>1
    <3>2. QED BY <3>1, SubSeqEmpty
  <2>5. QED BY <1>2, <1>3, <1>5, <1>6, <2>3, <2>4 DEF a, size
<1>7. CASE ~ (len >= n)
  <2>1. a = [b EXCEPT !.kreadIndex_ = @ + len]
    BY <1>7, Zenon DEF retrieve
  <2>2. a.kreadIndex_ = b.kreadIndex_ + k /\ a.kwriteIndex_ = b.kwriteIndex_
    BY <1>1, <1>3, <1>7, <2>1 DEF BufferType
  <2> HIDE DEF a, n, k
  <2>3. readable(a) = n - k
    BY <1>1, <1>3, <1>4, <2>2, GoodSizes
  <2> DEFINE s == SubSeq(window(b), k + 1, n)
  <2>4. s \in Seq(Nat) /\ Len(s) = n - k /\ \A i \in 1 .. n - k : s[i] = window(b)[k + i]
    <3>1. k + 1 \in Int /\ n \in Int /\ \A i \in k + 1 .. n : window(b)[i] \in Nat
      BY <1>1, <1>2, <1>3, ElementOfSeq
    <3>2. /\ s \in Seq(Nat)
          /\ Len(s) = IF k + 1 <= n THEN n - (k + 1) + 1 ELSE 0
          /\ \A i \in 1 .. n - (k + 1) + 1 : s[i] = window(b)[k + 1 + i - 1]
      BY <3>1, SubSeqProperties
    <3>3. n - (k + 1) + 1 = n - k /\ \A i \in 1 .. n - k : k + 1 + i - 1 = k + i
      BY <1>1, <1>3
    <3>4. QED BY <1>1, <1>3, <3>2, <3>3
  <2> HIDE DEF s
  <2>5. ASSUME NEW i \in 1 .. n - k PROVE a.buffer_[a.kreadIndex_ + i] = s[i]
    <3>1. k + i \in 1 .. n /\ b.kreadIndex_ + (k + i) = (b.kreadIndex_ + k) + i
      BY <1>1, <1>3
    <3>2. QED BY <1>2, <1>5, <2>2, <2>4, <3>1 DEF a
  <2>6. window(a) = s
    BY <1>4, <2>3, <2>4, <2>5, WindowIs DEF a
  <2>7. QED BY <1>2, <1>3, <1>5, <2>6 DEF a, k, n, s, size
<1>8. QED BY <1>6, <1>7

LEMMA PreViewPeeks ==
    ASSUME NEW b, Good(b), NEW len \in Nat
    PROVE  preView(b, len) = SubSeq(window(b), 1, Taken(b, len))
<1> DEFINE k == Taken(b, len)
           r == b.kreadIndex_
           s == SubSeq(b.buffer_, r + 1, r + k)
           t == SubSeq(window(b), 1, k)
<1>1. /\ r \in Nat /\ readable(b) \in Nat /\ b.buffer_ \in Seq(Nat)
      /\ r + readable(b) <= Len(b.buffer_) /\ Len(b.buffer_) \in Nat
  BY GoodSizes DEF Good, size
<1>2. /\ window(b) \in Seq(Nat) /\ Len(window(b)) = readable(b)
      /\ \A i \in 1 .. readable(b) : window(b)[i] = b.buffer_[r + i]
  BY WindowFacts
<1>3. k \in Nat /\ k <= readable(b)
  BY <1>1 DEF Taken
<1>4. preView(b, len) = s
  BY DEF preView, Taken
<1> HIDE DEF k, r
<1>5. s \in Seq(Nat) /\ Len(s) = k /\ \A i \in 1 .. k : s[i] = b.buffer_[r + i]
  <2>1. \A i \in r + 1 .. r + k : b.buffer_[i] \in Nat
    <3>1. \A i \in r + 1 .. r + k : i \in 1 .. Len(b.buffer_)
      BY ONLY <1>1, <1>3
    <3>2. QED BY <1>1, <3>1, ElementOfSeq
  <2> DEFINE first == r + 1
             last == r + k
  <2>2. first \in Int /\ last \in Int /\ last - first + 1 = k
    BY <1>1, <1>3
  <2>3. \A i \in first .. last : b.buffer_[i] \in Nat
    BY <2>1
  <2>4. s = SubSeq(b.buffer_, first, last)
    OBVIOUS
  <2>5. \A i \in 1 .. k : first + i - 1 = r + i
    BY <1>1
  <2>6. first <= last \/ k = 0
    BY <1>1, <1>3
  <2> HIDE DEF first, last, s
  <2>7. /\ s \in Seq(Nat)
        /\ Len(s) = IF first <= last THEN last - first + 1 ELSE 0
        /\ \A i \in 1 .. last - first + 1 : s[i] = b.buffer_[first + i - 1]
    BY <2>2, <2>3, <2>4, SubSeqProperties
  <2>8. QED BY <1>3, <2>2, <2>5, <2>6, <2>7
<1>6. t \in Seq(Nat) /\ Len(t) = k /\ \A i \in 1 .. k : t[i] = window(b)[i]
  <2>1. 1 \in Int /\ k \in Int /\ \A i \in 1 .. k : window(b)[i] \in Nat
    BY <1>1, <1>2, <1>3, ElementOfSeq, SMTT(30)
  <2>2. /\ t \in Seq(Nat)
        /\ Len(t) = IF 1 <= k THEN k - 1 + 1 ELSE 0
        /\ \A i \in 1 .. k - 1 + 1 : t[i] = window(b)[1 + i - 1]
    BY <2>1, SubSeqProperties
  <2>3. QED BY <1>3, <2>2
<1> HIDE DEF s, t
<1>7. \A i \in 1 .. k : i \in 1 .. readable(b)
  BY <1>1, <1>3
<1>8. s = t
  BY <1>2, <1>5, <1>6, <1>7, SeqEqual
<1>9. QED BY <1>4, <1>8 DEF k, t
=============================================================================
