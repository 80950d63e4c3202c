--------------------------- MODULE NetBufferProofs ---------------------------
(***************************************************************************)
(* For every vector, reserve and extrabuf size, every length a caller      *)
(* passes and every width of size_t: a buffer keeps its window inside the  *)
(* vector for as long as the program runs normally, and nothing but the    *)
(* exception of a vector that cannot grow ends that while calls are legal. *)
(***************************************************************************)
EXTENDS NetBuffer, VectorBufferProofs

IInv == TypeOK /\ Fine(buf) /\ (legal => Sound(buf))

LEMMA CallSizes == MaxBytes \in Nat /\ 4 * MaxBytes <= Word
BY CallAssumption, Sizes

LEMMA InitIInv == Init => IInv
<1> SUFFICES ASSUME Init PROVE IInv
  OBVIOUS
<1>1. Zeros(kinitSize) \in Seq(Nat) /\ Len(Zeros(kinitSize)) = kinitSize
  BY Sizes DEF Zeros
<1>2. EmptyBuffer \in BufferType /\ Good(EmptyBuffer)
  BY <1>1, Sizes DEF EmptyBuffer, BufferType, Good, size
<1>3. TypeOK
  BY <1>2, EmptySeq DEF Init, TypeOK, BufferType
<1>4. QED BY <1>2, <1>3 DEF Init, IInv, Sound, Fine

LEMMA FreshType ==
    ASSUME TypeOK, NEW n \in Nat
    PROVE  Fresh(n) \in Seq(Nat) /\ Len(Fresh(n)) = n /\ next + n \in Nat \ {0}
<1>1. next \in Nat \ {0} /\ \A i \in 1 .. n : next + i - 1 \in Nat
  BY DEF TypeOK
<1>2. QED BY <1>1 DEF Fresh

(* A length for which a call is made is at most MaxBytes, and the program  *)
(* still runs.                                                             *)
LEMMA CallFacts ==
    ASSUME IInv, NEW n \in Nat, Calls(n)
    PROVE  Good(buf) /\ 4 * n <= Word
<1>1. n <= MaxBytes
  BY CallSizes DEF IInv, TypeOK, Calls
<1>2. Good(buf)
  BY DEF IInv, Fine, Calls
<1>3. QED BY <1>1, <1>2, CallSizes, Sizes

(* What a call returns, and the other histories, only need their types.    *)
LEMMA CallStep ==
    ASSUME Fine(buf'), legal' \in BOOLEAN, legal' => Sound(buf'),
           next' \in Nat \ {0}, out' \in Seq(Nat), syscall' \in Int, ret' \in Int
    PROVE  IInv'
<1>1. buf' \in BufferType
  BY DEF Fine, Good
<1>2. TypeOK'
  BY <1>1 DEF TypeOK, BufferType
<1>3. Fine(buf)' /\ (legal' => Sound(buf)')
  BY DEF Fine, Sound, Good, size, BufferType
<1>4. QED BY <1>2, <1>3 DEF IInv

LEMMA AppendStep == ASSUME IInv, CallAppend PROVE IInv'
<1>1. PICK len \in Lens :
          /\ Calls(len) /\ legal' = (legal /\ CarefulCall(len))
          /\ buf' \in append(buf, Fresh(len), len)
          /\ next' = next + len /\ Returns(<<>>)
  BY DEF CallAppend, Adds
<1>2. len \in Nat
  BY CallAssumption
<1>3. Good(buf) /\ 4 * len <= Word
  BY <1>1, <1>2, CallFacts
<1>4. Fresh(len) \in Seq(Nat) /\ next + len \in Nat \ {0}
  BY <1>2, FreshType DEF IInv
<1>5. Fine(buf')
  BY <1>1, <1>2, <1>3, <1>4, AppendFine
<1>6. legal' \in BOOLEAN
  BY <1>1 DEF IInv, TypeOK
<1>7. ASSUME legal' PROVE Sound(buf')
  <2>1. kinitPreSize <= buf.kreadIndex_ \/ len <= writable(buf)
    BY <1>1, <1>3, <1>7, GoodSizes, Sizes DEF CarefulCall
  <2>2. QED BY <1>1, <1>2, <1>3, <1>4, <2>1, AppendSound
<1>8. QED BY <1>1, <1>4, <1>5, <1>6, <1>7, CallStep, EmptySeq DEF Returns

LEMMA PrependStep == ASSUME IInv, CallPrepend PROVE IInv'
<1>1. PICK len \in Lens :
          /\ Calls(len) /\ len <= prependable(buf)
          /\ buf' = prepend(buf, Fresh(len), len)
          /\ next' = next + len /\ Returns(<<>>) /\ legal' = legal
  BY DEF CallPrepend
<1>2. len \in Nat
  BY CallAssumption
<1>3. Good(buf) /\ Fresh(len) \in Seq(Nat) /\ next + len \in Nat \ {0} /\ legal \in BOOLEAN
  BY <1>1, <1>2, CallFacts, FreshType DEF IInv, TypeOK
<1>4. Good(buf')
  BY <1>1, <1>2, <1>3, PrependGood
<1>5. QED BY <1>1, <1>3, <1>4, CallStep, EmptySeq DEF Returns, Fine, Sound

LEMMA ReadFdStep == ASSUME IInv, CallReadFd PROVE IInv'
<1>1. PICK n \in 0 .. MaxBytes :
          /\ Calls(n) /\ legal' = (legal /\ CarefulCall(MaxRead(buf))) /\ n <= MaxRead(buf)
          /\ buf' \in readFd(buf, Fresh(n), n)
          /\ next' = next + n
          /\ syscall' = n /\ ret' = IF buf'.status = "ok" THEN n ELSE 0
          /\ out' = <<>>
  BY DEF CallReadFd, Adds
<1>2. n \in Nat
  BY CallSizes
<1>3. Good(buf) /\ 4 * n <= Word
  BY <1>1, <1>2, CallFacts
<1>4. Fresh(n) \in Seq(Nat) /\ next + n \in Nat \ {0}
  BY <1>2, FreshType DEF IInv
<1>5. Fine(buf')
  BY <1>1, <1>2, <1>3, <1>4, ReadFdFine
<1>6. legal' \in BOOLEAN
  BY <1>1 DEF IInv, TypeOK
<1>7. ASSUME legal' PROVE Sound(buf')
  <2>1. kinitPreSize <= buf.kreadIndex_ \/ MaxRead(buf) <= writable(buf)
    BY <1>1, <1>3, <1>7, GoodSizes, Sizes DEF CarefulCall
  <2>2. QED BY <1>1, <1>2, <1>3, <1>4, <2>1, ReadFdSound
<1>8. syscall' \in Int /\ ret' \in Int
  BY <1>1, <1>2
<1>9. QED BY <1>1, <1>4, <1>5, <1>6, <1>7, <1>8, CallStep, EmptySeq

(* A failed readv(): the buffer may be overrun, but then legal is FALSE.   *)
LEMMA ReadFdErrorStep == ASSUME IInv, CallReadFdError PROVE IInv'
<1>1. /\ Calls(0) /\ buf' \in readFd(buf, <<>>, Word - 1)
      /\ syscall' = -1 /\ ret' = IF buf'.status = "ok" THEN -1 ELSE 0
      /\ out' = <<>> /\ legal' = FALSE /\ next' = next
  BY DEF CallReadFdError
<1> DEFINE minusOne == Word - 1
<1>2. minusOne \in Nat /\ Good(buf) /\ next \in Nat \ {0}
  BY <1>1, Sizes, CallFacts DEF IInv, TypeOK
<1>3. Fine(buf')
  <2> HIDE DEF minusOne
  <2>1. buf' \in readFd(buf, <<>>, minusOne)
    BY <1>1 DEF minusOne
  <2>2. QED BY <1>2, <2>1, EmptySeq, ReadFdFine
<1>4. legal' \in BOOLEAN /\ ~ legal'
  BY <1>1
<1>5. syscall' \in Int /\ ret' \in Int /\ out' \in Seq(Nat) /\ next' \in Nat \ {0}
  BY <1>1, <1>2, EmptySeq
<1>6. QED BY <1>3, <1>4, <1>5, CallStep, Zenon

(* The calls that take bytes out.                                          *)
LEMMA RetrieveSteps ==
    ASSUME IInv,
           \/ CallRetrieve \/ CallRetrieveAll \/ CallRetrieveAsString
           \/ CallRetrieveAllAsString \/ CallPreViewAsString
    PROVE  IInv'
<1>1. Good(buf) /\ next \in Nat \ {0} /\ legal \in BOOLEAN
  <2>1. Calls(0)
    BY DEF CallRetrieve, CallRetrieveAll, CallRetrieveAsString, CallRetrieveAllAsString, CallPreViewAsString
  <2>2. QED BY <2>1, CallFacts DEF IInv, TypeOK
<1>2. Lens \subseteq Nat /\ <<>> \in Seq(Nat) /\ readable(buf) \in Nat
  BY <1>1, CallAssumption, EmptySeq, GoodSizes
<1>3. ASSUME NEW s \in Seq(Nat), Returns(s), next' = next, legal' = legal, Good(buf') PROVE IInv'
  BY <1>1, <1>3, CallStep DEF Returns, Sound, Fine
<1>4. CASE CallRetrieve
  BY <1>1, <1>2, <1>3, <1>4, RetrieveGood DEF CallRetrieve
<1>5. CASE CallRetrieveAll
  BY <1>1, <1>2, <1>3, <1>5, RetrieveAllGood DEF CallRetrieveAll
<1>6. CASE CallRetrieveAsString
  BY <1>1, <1>2, <1>3, <1>6, RetrieveGood, PreViewType DEF CallRetrieveAsString
<1>7. CASE CallRetrieveAllAsString
  <2> DEFINE b == retrieve(buf, readable(buf))
  <2>1. b = retrieveAll(buf)
    BY <1>2 DEF retrieve
  <2>2. Good(b)
    BY <1>1, <2>1, RetrieveAllGood
  <2>3. b.kwriteIndex_ = b.kreadIndex_
    BY <1>1, <2>1 DEF retrieveAll, Good, BufferType
  <2>4. readable(b) = 0
    <3> HIDE DEF b
    <3>1. QED BY <2>2, <2>3, GoodSizes
  <2>5. buf' = b
    BY <1>7, <2>4 DEF CallRetrieveAllAsString
  <2>6. /\ preView(buf, readable(buf)) \in Seq(Nat) /\ Returns(preView(buf, readable(buf)))
        /\ next' = next /\ legal' = legal
    BY <1>1, <1>2, <1>7, PreViewType DEF CallRetrieveAllAsString
  <2>7. Good(buf')
    <3> HIDE DEF b
    <3>1. QED BY <2>2, <2>5
  <2>8. QED BY <1>3, <2>6, <2>7
<1>8. CASE CallPreViewAsString
  BY <1>1, <1>2, <1>3, <1>8, PreViewType DEF CallPreViewAsString
<1>9. QED BY <1>4, <1>5, <1>6, <1>7, <1>8

LEMMA NextIInv == IInv /\ [Next]_vars => IInv'
<1> SUFFICES ASSUME IInv, [Next]_vars PROVE IInv'
  OBVIOUS
<1>1. CASE Next
  BY <1>1, AppendStep, PrependStep, ReadFdStep, ReadFdErrorStep, RetrieveSteps DEF Next
<1>2. CASE UNCHANGED vars
  BY <1>2 DEF IInv, TypeOK, Fine, Sound, Good, size, BufferType, vars
<1>3. QED BY <1>1, <1>2

LEMMA Invariance == Spec => []IInv
BY InitIInv, NextIInv, PTL DEF Spec

(* The members keep their types under any calls: the indices never become  *)
(* negative, that is, no size_t wraps.                                     *)
THEOREM TypeCorrect == Spec => []TypeOK
<1>1. IInv => TypeOK
  BY DEF IInv
<1>2. QED BY <1>1, Invariance, PTL

(* Whatever is called in whatever order, and with readv() failing or not,  *)
(* the window of readable bytes stays in the vector for as long as the     *)
(* program runs normally (note.md:3).                                      *)
THEOREM WindowInVector == Spec => []Window
<1>1. IInv => Window
  BY DEF IInv, Fine, Good, Window
<1>2. QED BY <1>1, Invariance, PTL

(* While the calls are legal, no assert fails and no memcpy() or readv()   *)
(* writes outside the vector (Buffer.h:42-80 and 123-154), whatever the    *)
(* sizes and the width of size_t.                                          *)
THEOREM NoOverrun == Spec => []NeverOverruns
<1>1. IInv => NeverOverruns
  BY DEF IInv, Sound, Good, NeverOverruns, AssertsHold
<1>2. QED BY <1>1, Invariance, PTL
-----------------------------------------------------------------------------
(* The bytes.  While it can be relied on, the vector grows by at most      *)
(* twice what is handed in, so the exception of a full vector cannot come  *)
(* early.                                                                  *)
Sized == reliable /\ buf.status = "ok" => size(buf) <= kinitSize + 2 * (next - 1)

CInv == IInv /\ Sized

LEMMA InitCInv == Init => CInv
<1> SUFFICES ASSUME Init PROVE Sized
  BY InitIInv DEF CInv
<1>1. size(buf) = kinitSize /\ next = 1
  BY Sizes DEF Init, EmptyBuffer, Zeros, size
<1>2. QED BY <1>1, Sizes DEF Sized

(* A call adds bytes at the back, or the vector cannot grow.               *)
LEMMA BackStep ==
    ASSUME CInv, NEW n \in Nat, Calls(n), reliable, reliable', next' = next + n, out' = <<>>,
           Added(buf', buf, Fresh(n)) \/ Threw(buf', buf, n)
    PROVE  Abstract!Call /\ Sized'
<1>1. /\ Good(buf) /\ size(buf) \in Nat /\ content = window(buf) /\ next \in Nat \ {0}
      /\ size(buf) <= kinitSize + 2 * (next - 1) /\ buf.status = "ok"
  BY CallFacts, GoodSizes DEF CInv, IInv, Sized, Calls, content, TypeOK
<1>2. Len(Fresh(n)) = n /\ n \in 0 .. MaxBytes - next + 1
  <2>1. Len(Fresh(n)) = n
    BY FreshType DEF CInv, IInv
  <2>2. next + n <= MaxBytes + 1
    BY DEF Calls
  <2>3. QED BY <1>1, <2>1, <2>2, CallSizes
<1>3. Abstract!Fresh(n) = Fresh(n)
  BY DEF Abstract!Fresh, Fresh
<1>4. CASE Added(buf', buf, Fresh(n))
  <2>1. content' = content \o Fresh(n)
    BY <1>1, <1>4 DEF Added, Good, content
  <2>2. Abstract!Put
    BY <1>2, <1>3, <2>1 DEF Abstract!Put
  <2>3. size(buf') \in Nat /\ size(buf') <= size(buf) + 2 * n
    BY <1>2, <1>4, GoodSizes DEF Added
  <2>4. size(buf') <= kinitSize + 2 * (next' - 1)
    BY <1>1, <2>3, Sizes
  <2>5. QED BY <2>2, <2>4 DEF Abstract!Call, Sized, size
<1>5. CASE Threw(buf', buf, n)
  <2>1. content' = <<>> /\ buf'.status # "ok"
    BY <1>5 DEF Threw, content
  <2>2. next + n - 1 > (MaxSize - kinitSize) \div 2
    BY <1>1, <1>5, Sizes DEF Threw
  <2>3. Abstract!PutThrows
    BY <1>2, <2>1, <2>2 DEF Abstract!PutThrows
  <2>4. QED BY <2>1, <2>3 DEF Abstract!Call, Sized
<1>6. QED BY <1>4, <1>5

LEMMA AppendRefines ==
    ASSUME CInv, CallAppend PROVE (Abstract!Call \/ Abstract!CannotRely) /\ Sized'
<1>1. PICK len \in Lens :
          /\ Calls(len) /\ legal' = (legal /\ CarefulCall(len))
          /\ buf' \in append(buf, Fresh(len), len)
          /\ next' = next + len /\ out' = <<>>
  BY DEF CallAppend, Adds, Returns
<1>2. CASE ~ reliable'
  BY <1>2 DEF Abstract!CannotRely, Sized
<1>3. CASE reliable'
  <2>1. len \in Nat /\ legal /\ CarefulCall(len) /\ buf'.intact
    BY <1>1, <1>3, CallAssumption DEF reliable
  <2>2. Good(buf) /\ 4 * len <= Word /\ Fresh(len) \in Seq(Nat) /\ Len(Fresh(len)) = len
    BY <1>1, <2>1, CallFacts, FreshType DEF CInv, IInv
  <2>3. kinitPreSize <= buf.kreadIndex_ \/ Len(Fresh(len)) <= writable(buf)
    BY <2>1, <2>2, GoodSizes, Sizes DEF CarefulCall
  <2>4. Added(buf', buf, Fresh(len)) \/ Threw(buf', buf, len)
    BY <1>1, <2>1, <2>2, <2>3, AppendAdds
  <2>5. reliable
    BY <1>1, <2>1, <2>2, AppendIntact DEF reliable
  <2>6. QED BY <1>1, <1>3, <2>1, <2>4, <2>5, BackStep
<1>4. QED BY <1>2, <1>3

LEMMA ReadFdRefines ==
    ASSUME CInv, CallReadFd PROVE (Abstract!Call \/ Abstract!CannotRely) /\ Sized'
<1>1. PICK n \in 0 .. MaxBytes :
          /\ Calls(n) /\ legal' = (legal /\ CarefulCall(MaxRead(buf))) /\ n <= MaxRead(buf)
          /\ buf' \in readFd(buf, Fresh(n), n)
          /\ next' = next + n /\ out' = <<>>
  BY DEF CallReadFd, Adds
<1>2. CASE ~ reliable'
  BY <1>2 DEF Abstract!CannotRely, Sized
<1>3. CASE reliable'
  <2>1. n \in Nat /\ legal /\ CarefulCall(MaxRead(buf)) /\ buf'.intact
    <3>1. n \in Nat
      BY CallSizes
    <3>2. legal /\ CarefulCall(MaxRead(buf)) /\ buf'.intact
      BY <1>1, <1>3, Zenon DEF reliable
    <3>3. QED BY <3>1, <3>2
  <2>2. /\ Good(buf) /\ 4 * n <= Word /\ Fresh(n) \in Seq(Nat) /\ Len(Fresh(n)) = n
        /\ writable(buf) \in Nat /\ buf.kreadIndex_ \in Nat
    BY <1>1, <2>1, CallFacts, FreshType, GoodSizes DEF CInv, IInv
  <2>3. MaxRead(buf) \in Nat
    BY <2>2, SizeAssumption DEF MaxRead
  <2>4. kinitPreSize <= buf.kreadIndex_ \/ n <= writable(buf)
    BY <1>1, <2>1, <2>2, <2>3, Sizes DEF CarefulCall
  <2>5. 4 * (n - writable(buf)) <= Word
    BY <2>1, <2>2, Sizes
  <2>6. Added(buf', buf, Fresh(n)) \/ Threw(buf', buf, n)
    BY <1>1, <2>1, <2>2, <2>4, <2>5, ReadFdAdds
  <2>7. reliable
    BY <1>1, <2>1, <2>2, ReadFdIntact DEF reliable
  <2>8. QED BY <1>1, <1>3, <2>1, <2>6, <2>7, BackStep
<1>4. QED BY <1>2, <1>3

LEMMA PrependRefines ==
    ASSUME CInv, CallPrepend PROVE (Abstract!Call \/ Abstract!CannotRely) /\ Sized'
<1>1. PICK len \in Lens :
          /\ Calls(len) /\ len <= prependable(buf)
          /\ buf' = prepend(buf, Fresh(len), len)
          /\ next' = next + len /\ out' = <<>> /\ legal' = legal
  BY DEF CallPrepend, Returns
<1>2. CASE ~ reliable'
  BY <1>2 DEF Abstract!CannotRely, Sized
<1>3. CASE reliable'
  <2>1. len \in Nat /\ legal /\ next \in Nat \ {0} /\ next + len <= MaxBytes + 1
    BY <1>1, <1>3, CallAssumption DEF CInv, IInv, TypeOK, Calls, reliable
  <2>2. Good(buf) /\ Fresh(len) \in Seq(Nat) /\ Len(Fresh(len)) = len
    BY <1>1, <2>1, CallFacts, FreshType DEF CInv, IInv
  <2>3. Good(buf') /\ window(buf') = Fresh(len) \o window(buf) /\ size(buf') = size(buf)
    BY <1>1, <2>2, PrependGood, PrependAdds
  <2>4. content' = Fresh(len) \o content
    BY <2>2, <2>3 DEF content, Good
  <2>5. Abstract!Fresh(len) = Fresh(len)
    BY DEF Abstract!Fresh, Fresh
  <2>6. Abstract!Put
    <3>1. len \in 0 .. MaxBytes - next + 1
      BY <2>1, CallSizes
    <3>2. QED BY <1>1, <2>4, <2>5, <3>1 DEF Abstract!Put
  <2>7. reliable
    <3>1. buf \in BufferType /\ ~ (len > prependable(buf))
      BY <1>1, <2>1, <2>2, GoodSizes DEF Good, prependable
    <3>2. buf'.intact = buf.intact
      BY <1>1, <3>1 DEF prepend, BufferType
    <3>3. QED BY <1>3, <2>1, <3>2 DEF reliable
  <2>8. Sized'
    <3>1. size(buf) \in Nat /\ size(buf) <= kinitSize + 2 * (next - 1)
      BY <2>2, <2>7, GoodSizes DEF CInv, Sized, Good
    <3>2. size(buf') <= kinitSize + 2 * (next' - 1)
      BY <1>1, <2>1, <2>3, <3>1, Sizes
    <3>3. QED BY <3>2 DEF Sized, size
  <2>9. QED BY <1>3, <2>6, <2>7, <2>8 DEF Abstract!Call
<1>4. QED BY <1>2, <1>3

(* The calls that look at bytes, or take some of them.                     *)
LEMMA TakingRefines ==
    ASSUME CInv,
           \/ CallRetrieve \/ CallRetrieveAll \/ CallRetrieveAsString
           \/ CallRetrieveAllAsString \/ CallPreViewAsString
    PROVE  (Abstract!Call \/ Abstract!CannotRely) /\ Sized'
<1>1. next' = next /\ legal' = legal /\ Calls(0)
  BY DEF CallRetrieve, CallRetrieveAll, CallRetrieveAsString, CallRetrieveAllAsString, CallPreViewAsString
<1>2. CASE ~ reliable'
  BY <1>2 DEF Abstract!CannotRely, Sized
<1>3. CASE reliable'
  <2>1. Good(buf) /\ content = window(buf) /\ window(buf) \in Seq(Nat)
    BY <1>1, CallFacts, WindowFacts DEF CInv, IInv, content, Good
  <2>2. Lens \subseteq Nat /\ readable(buf) \in Nat /\ Len(content) = readable(buf)
    BY <2>1, CallAssumption, GoodSizes, WindowFacts
  \* What a call leaves of content, and what it returns, decide the step.
  <2>3. ASSUME NEW k \in 0 .. Len(content), Good(buf'), size(buf') = size(buf), buf'.intact = buf.intact,
               \/ window(buf') = SubSeq(content, k + 1, Len(content)) /\ out' = <<>>
               \/ /\ window(buf') \in {content, SubSeq(content, k + 1, Len(content))}
                  /\ out' = SubSeq(content, 1, k)
        PROVE  Abstract!Call /\ Sized'
    <3>1. content' = window(buf')
      BY <2>3 DEF Good, content
    <3>2. Abstract!Drop \/ Abstract!Peek
      BY <1>1, <2>3, <3>1 DEF Abstract!Drop, Abstract!Peek
    <3>3. reliable
      BY <1>1, <1>3, <2>3 DEF reliable
    <3>4. Sized'
      BY <1>1, <2>1, <2>3, <3>3 DEF CInv, Sized, Good, size
    <3>5. QED BY <1>3, <3>2, <3>3, <3>4 DEF Abstract!Call
  <2>4. ASSUME NEW len \in Nat, buf' = retrieve(buf, len)
        PROVE  /\ Good(buf') /\ size(buf') = size(buf) /\ buf'.intact = buf.intact
               /\ Taken(buf, len) \in 0 .. Len(content)
               /\ window(buf') = SubSeq(content, Taken(buf, len) + 1, Len(content))
               /\ preView(buf, len) = SubSeq(content, 1, Taken(buf, len))
    <3>1. buf'.intact = buf.intact
      BY <2>1, <2>4 DEF retrieve, retrieveAll, Good, BufferType
    <3>2. QED BY <2>1, <2>4, <3>1, RetrieveGood, RetrieveDrops, PreViewPeeks
  <2>5. retrieveAll(buf) = retrieve(buf, readable(buf))
    BY <2>2 DEF retrieve
  <2>6. CASE CallRetrieve
    <3>1. PICK len \in Lens : buf' = retrieve(buf, len) /\ out' = <<>>
      BY <2>6 DEF CallRetrieve, Returns
    <3>2. QED BY <2>2, <2>3, <2>4, <3>1
  <2>7. CASE CallRetrieveAll
    <3>1. buf' = retrieve(buf, readable(buf)) /\ out' = <<>>
      BY <2>5, <2>7 DEF CallRetrieveAll, Returns
    <3>2. QED BY <2>2, <2>3, <2>4, <3>1
  <2>8. CASE CallRetrieveAsString
    <3>1. PICK len \in Lens : out' = preView(buf, len) /\ buf' = retrieve(buf, len)
      BY <2>8 DEF CallRetrieveAsString, Returns
    <3>2. QED BY <2>2, <2>3, <2>4, <3>1
  <2>9. CASE CallRetrieveAllAsString
    <3>1. readable(retrieve(buf, readable(buf))) = 0
      <4> DEFINE b == retrieveAll(buf)
      <4>1. Good(b) /\ b.kwriteIndex_ = b.kreadIndex_
        BY <2>1, RetrieveAllGood DEF retrieveAll, Good, BufferType
      <4> HIDE DEF b
      <4>2. readable(b) = 0
        BY <4>1, GoodSizes
      <4>3. QED BY <2>5, <4>2 DEF b
    <3>2. buf' = retrieve(buf, readable(buf)) /\ out' = preView(buf, readable(buf))
      BY <2>9, <3>1 DEF CallRetrieveAllAsString, Returns
    <3>3. QED BY <2>2, <2>3, <2>4, <3>2
  <2>10. CASE CallPreViewAsString
    <3>1. PICK len \in Lens : out' = preView(buf, len) /\ buf' = buf
      BY <2>10 DEF CallPreViewAsString, Returns
    <3>2. len \in Nat
      BY <2>2
    <3>3. Taken(buf, len) \in 0 .. Len(content) /\ preView(buf, len) = SubSeq(content, 1, Taken(buf, len))
      BY <2>1, <3>2, RetrieveDrops, PreViewPeeks
    <3>4. QED BY <2>1, <2>3, <3>1, <3>3
  <2>11. QED BY <2>6, <2>7, <2>8, <2>9, <2>10
<1>4. QED BY <1>2, <1>3

LEMMA NextRefines == CInv /\ [Next]_vars => [Abstract!Next]_(Abstract!vars) /\ CInv'
<1> SUFFICES ASSUME CInv, [Next]_vars PROVE [Abstract!Next]_(Abstract!vars) /\ Sized'
  BY NextIInv DEF CInv
<1>1. CASE UNCHANGED vars
  <2>1. UNCHANGED <<buf, next, out, legal>>
    BY <1>1 DEF vars
  <2>2. UNCHANGED <<content, reliable>>
    BY <2>1 DEF content, reliable
  <2>3. Sized'
    BY <2>1, <2>2 DEF CInv, Sized, size
  <2>4. QED BY <2>1, <2>2, <2>3 DEF Abstract!vars
<1>2. CASE CallReadFdError
  BY <1>2 DEF CallReadFdError, Abstract!Next, Abstract!CannotRely, Sized, reliable
<1>3. CASE Next /\ ~ CallReadFdError
  BY <1>3, AppendRefines, ReadFdRefines, PrependRefines, TakingRefines DEF Next, Abstract!Next
<1>4. QED BY <1>1, <1>2, <1>3

(* As long as the calls are legal and no overlapping memcpy() has spoilt a *)
(* byte (Buffer.h:67; nothing is claimed of the bytes after one has), and  *)
(* through every growth, compaction and overflow of readFd() into          *)
(* extrabuf, Buffer.h is a queue of bytes: none is lost, repeated, changed *)
(* or handed out in another order, and the exception of a full vector does *)
(* not come before (MaxSize - kinitSize) \div 2 bytes.  The calls refine   *)
(* ByteQueue step by step.                                                 *)
THEOREM RefinesByteQueue == Spec => ImplementsByteQueue
<1>1. Init => Abstract!Init
  <2> SUFFICES ASSUME Init PROVE content = <<>>
    BY DEF Init, Abstract!Init, reliable, EmptyBuffer
  <2>1. Good(EmptyBuffer) /\ buf = EmptyBuffer /\ EmptyBuffer.kreadIndex_ = EmptyBuffer.kwriteIndex_
    <3>1. Zeros(kinitSize) \in Seq(Nat) /\ Len(Zeros(kinitSize)) = kinitSize
      BY Sizes DEF Zeros
    <3>2. QED BY <3>1, Sizes DEF Init, EmptyBuffer, BufferType, Good, size
  <2>2. readable(EmptyBuffer) = 0
    <3>1. readable(EmptyBuffer) = EmptyBuffer.kwriteIndex_ - EmptyBuffer.kreadIndex_ /\ EmptyBuffer.kreadIndex_ \in Nat
      BY <2>1, GoodSizes
    <3>2. QED BY <2>1, <3>1
  <2>3. window(EmptyBuffer) = <<>>
    BY <2>1, <2>2, WindowFacts, EmptySeq
  <2>4. QED BY <2>1, <2>3 DEF content
<1>2. QED BY <1>1, InitCInv, NextRefines, PTL DEF Spec, ImplementsByteQueue, Abstract!Spec
=============================================================================
