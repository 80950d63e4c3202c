--------------------------- MODULE AsyncLogProofs ---------------------------
(***************************************************************************)
(* Type correctness and memory discipline of the logger, and that it is    *)
(* the queue of lines of module LogQueue, for every block size, every set  *)
(* of line lengths and every number of append() calls.                     *)
(***************************************************************************)
EXTENDS AsyncLogMC, SequenceTheorems, FiniteSetTheorems, WellFoundedInduction, TLAPS

IInv == TypeOK /\ SparesMatchBlocks /\ NoFault

(* Every block of a sequence can still be appended to.                     *)
AllUsable(bufs) == \A i \in DOMAIN bufs : Usable(bufs[i])

(* LogBuffer's append() leaves a block usable and its cursor in the block. *)
LEMMA PutLineUsable ==
    ASSUME NEW buf, Usable(buf), NEW line \in Nat, NEW len \in Nat
    PROVE  Usable(PutLine(buf, line, len))
<1>1. buf.cur \in Nat /\ buf.lines \in Seq(Nat) /\ buf.cur < BufSize /\ BufSize \in Nat
  BY BufSizeAssumption DEF Usable, Buffer
<1>2. Append(buf.lines, line) \in Seq(Nat)
  BY <1>1, AppendProperties
<1>3. CASE avail(buf) > len
  BY <1>1, <1>2, <1>3 DEF PutLine, avail, Usable, Buffer
<1>4. CASE ~ (avail(buf) > len)
  BY <1>4 DEF PutLine
<1>5. QED BY <1>3, <1>4

LEMMA EmptyUsable == Usable(EmptyBuffer)
<1>1. <<>> \in Seq(Nat)
  BY EmptySeq
<1>2. QED BY <1>1, BufSizeAssumption DEF Usable, EmptyBuffer, Buffer

(* A usable block is not the null pointer.                                 *)
LEMMA UsableNotNull == ASSUME NEW buf, Usable(buf) PROVE buf # Null /\ buf \in BufferOrNull
BY LogAssumption DEF Usable, BufferOrNull

LEMMA AppendUsable ==
    ASSUME NEW bufs \in Seq(BufferOrNull), AllUsable(bufs), NEW buf, Usable(buf)
    PROVE  /\ Append(bufs, buf) \in Seq(BufferOrNull)
           /\ AllUsable(Append(bufs, buf))
           /\ Append(bufs, buf) # <<>>
           /\ Len(Append(bufs, buf)) = Len(bufs) + 1
<1>1. buf \in BufferOrNull
  BY UsableNotNull
<1>2. /\ Append(bufs, buf) \in Seq(BufferOrNull)
      /\ Append(bufs, buf) # <<>>
      /\ Len(Append(bufs, buf)) = Len(bufs) + 1
      /\ \A i \in 1 .. Len(bufs) : Append(bufs, buf)[i] = bufs[i]
      /\ Append(bufs, buf)[Len(bufs) + 1] = buf
  BY <1>1, AppendProperties
<1>3. DOMAIN Append(bufs, buf) = 1 .. Len(bufs) + 1 /\ DOMAIN bufs = 1 .. Len(bufs) /\ Len(bufs) \in Nat
  BY <1>2, LenProperties
<1>4. AllUsable(Append(bufs, buf))
  BY <1>2, <1>3 DEF AllUsable
<1>5. QED BY <1>2, <1>4

-----------------------------------------------------------------------------
LEMMA InitIInv == Init => IInv
<1> SUFFICES ASSUME Init PROVE IInv
  OBVIOUS
<1>1. Usable(EmptyBuffer) /\ EmptyBuffer # Null /\ EmptyBuffer \in BufferOrNull
  BY EmptyUsable, UsableNotNull
<1>2. <<>> \in Seq(BufferOrNull) /\ <<>> \in Seq(Nat) /\ DOMAIN <<>> = {}
  BY EmptySeq
<1>3. TypeOK
  BY <1>1, <1>2 DEF Init, TypeOK, Waiters, BufferOrNull
<1>4. SparesMatchBlocks
  BY <1>1, <1>2 DEF Init, SparesMatchBlocks
<1>5. QED BY <1>3, <1>4 DEF Init, IInv, NoFault

(* The steps that leave every block where it is: threads come and go, wait *)
(* and are woken.                                                          *)
LEMMA NotifyType == ASSUME TypeOK, Notify PROVE waitSet' \subseteq Waiters
BY DEF TypeOK, Notify

LEMMA ThreadSteps ==
    ASSUME IInv,
           \/ Starter \/ Stopper \/ BackendLoop \/ BackendWait
           \/ \E t \in Waiters : Wakeup(t)
    PROVE  IInv'
<1>0. TypeOK
  BY DEF IInv
<1> USE DEF IInv, TypeOK, SparesMatchBlocks, NoFault, shared, locals, history, Usable
<1>1. CASE Starter
  <2>1. CASE StartFlag
    BY <2>1 DEF StartFlag
  <2>2. CASE StartThread
    BY <2>2 DEF StartThread
  <2>3. CASE StartWait
    BY <2>3 DEF StartWait, Waiters
  <2>4. CASE StartReturn
    BY <2>4 DEF StartReturn
  <2>5. QED BY <1>1, <2>1, <2>2, <2>3, <2>4 DEF Starter
<1>2. CASE Stopper
  <2>1. CASE StopFlag
    BY <2>1 DEF StopFlag
  <2>2. CASE StopNotify
    <3>1. waitSet' \subseteq Waiters
      BY ONLY <1>0, <2>2, NotifyType DEF StopNotify
    <3>2. QED BY <2>2, <3>1 DEF StopNotify
  <2>3. QED BY <1>2, <2>1, <2>2 DEF Stopper
<1>3. CASE BackendLoop
  BY <1>3 DEF BackendLoop
<1>4. CASE BackendWait
  BY <1>4 DEF BackendWait, Waiters
<1>5. CASE \E t \in Waiters : Wakeup(t)
  BY <1>5 DEF Wakeup
<1>6. QED BY <1>1, <1>2, <1>3, <1>4, <1>5
-----------------------------------------------------------------------------
(* append(): a line goes into the current block, or a rotation gives the   *)
(* block away and takes nextBuf_ or a new one.                             *)
LEMMA StoredUsable ==
    ASSUME NEW buf, Usable(buf), NEW len \in Nat, count \in Nat, lost \subseteq Nat,
           Stored(buf, len)
    PROVE  Usable(curBuf_') /\ lost' \subseteq Nat
<1>1. Usable(PutLine(buf, count + 1, len))
  BY PutLineUsable
<1>2. lost' \subseteq Nat
  BY DEF Stored
<1>3. QED BY <1>1, <1>2 DEF Stored

LEMMA AppendFacts ==
    ASSUME IInv, NEW len \in Nat, append(len)
    PROVE  /\ Usable(curBuf_') /\ lost' \subseteq Nat
           /\ waitSet' \subseteq Waiters
           /\ nextBuf_' = Null \/ Usable(nextBuf_')
           /\ nextBuf_' = Null => bufVec_' # <<>>
           /\ bufVec_' \in Seq(BufferOrNull) /\ AllUsable(bufVec_')
           /\ fault' = fault /\ count' \in Nat
<1>1. /\ Usable(curBuf_) /\ curBuf_ # Null /\ TypeOK
      /\ count \in Nat /\ lost \subseteq Nat /\ waitSet \subseteq Waiters
      /\ nextBuf_ = Null \/ Usable(nextBuf_)
      /\ nextBuf_ = Null => bufVec_ # <<>>
      /\ bufVec_ \in Seq(BufferOrNull) /\ AllUsable(bufVec_)
  BY UsableNotNull DEF IInv, TypeOK, SparesMatchBlocks, AllUsable
<1>2. fault' = fault /\ count' \in Nat /\ (AppendFits(len) \/ AppendRotates(len))
  BY <1>1 DEF append
<1>3. CASE AppendFits(len)
  <2>1. Stored(curBuf_, len)
    BY <1>3 DEF AppendFits
  <2>2. Usable(curBuf_') /\ lost' \subseteq Nat
    BY <1>1, <2>1, StoredUsable
  <2>3. waitSet' = waitSet /\ nextBuf_' = nextBuf_ /\ bufVec_' = bufVec_
    BY <1>3 DEF AppendFits
  <2>4. QED BY <1>1, <1>2, <2>2, <2>3
<1>4. CASE AppendRotates(len)
  <2> DEFINE fresh == IF nextBuf_ # Null THEN nextBuf_ ELSE EmptyBuffer
  <2>1. Stored(fresh, len) /\ nextBuf_' = Null /\ bufVec_' = Append(bufVec_, curBuf_) /\ Notify
    BY <1>4 DEF AppendRotates
  <2>2. Usable(fresh)
    BY <1>1, EmptyUsable
  <2>3. Usable(curBuf_') /\ lost' \subseteq Nat
    <3> HIDE DEF fresh
    <3>1. QED BY <1>1, <2>1, <2>2, StoredUsable
  <2>4. bufVec_' \in Seq(BufferOrNull) /\ AllUsable(bufVec_') /\ bufVec_' # <<>>
    BY <1>1, <2>1, AppendUsable
  <2>5. waitSet' \subseteq Waiters
    BY <1>1, <2>1, NotifyType
  <2>6. QED BY <1>2, <2>1, <2>3, <2>4, <2>5
<1>5. QED BY <1>2, <1>3, <1>4

LEMMA AppendStep == ASSUME IInv, NEW len \in LineLens, append(len) PROVE IInv'
<1>1. len \in Nat
  BY LogAssumption
<1>2. /\ Usable(curBuf_') /\ lost' \subseteq Nat
      /\ waitSet' \subseteq Waiters
      /\ nextBuf_' = Null \/ Usable(nextBuf_')
      /\ nextBuf_' = Null => bufVec_' # <<>>
      /\ bufVec_' \in Seq(BufferOrNull) /\ AllUsable(bufVec_')
      /\ fault' = fault /\ count' \in Nat
  BY <1>1, AppendFacts
<1>3. curBuf_' \in BufferOrNull /\ nextBuf_' \in BufferOrNull
  BY <1>2, UsableNotNull DEF BufferOrNull
<1>4. UNCHANGED <<running_, startPc, stopPc, backPc, buf1, buf2, bufToWrite, done, written>>
  BY DEF append, locals
<1>5. TypeOK'
  BY <1>2, <1>3, <1>4 DEF IInv, TypeOK
<1>6. SparesMatchBlocks'
  BY <1>2, <1>4 DEF IInv, SparesMatchBlocks, AllUsable, Usable
<1>7. QED BY <1>2, <1>5, <1>6 DEF IInv, NoFault
-----------------------------------------------------------------------------
(* The steps of the background thread that move blocks.                    *)
LEMMA BornStep == ASSUME IInv, BackendBorn PROVE IInv'
<1>1. waitSet' \subseteq Waiters
  BY NotifyType DEF IInv, BackendBorn
<1>2. Usable(EmptyBuffer) /\ EmptyBuffer \in BufferOrNull
  BY EmptyUsable, UsableNotNull
<1>3. buf1' = EmptyBuffer /\ buf2' = EmptyBuffer /\ backPc = "born" /\ backPc' = "loop"
  BY DEF BackendBorn
<1>4. UNCHANGED <<running_, startPc, stopPc, curBuf_, nextBuf_, bufVec_, bufToWrite, done, count, written, lost, fault>>
  BY DEF BackendBorn, shared, history
<1>5. TypeOK'
  BY <1>1, <1>2, <1>3, <1>4 DEF IInv, TypeOK
<1>6. SparesMatchBlocks'
  BY <1>2, <1>3, <1>4 DEF IInv, TypeOK, SparesMatchBlocks, Usable
<1>7. QED BY <1>4, <1>5, <1>6 DEF IInv, NoFault

(* The exchange: buf1 always replaces curBuf_; buf2 is given away only     *)
(* when nextBuf_ is empty, and then a filled block comes back with the     *)
(* current one.                                                            *)
LEMMA SwapStep == ASSUME IInv, BackendSwap PROVE IInv'
<1>1. /\ Usable(curBuf_) /\ Usable(buf1) /\ Usable(buf2)
      /\ buf1 # Null /\ buf2 # Null
      /\ bufVec_ \in Seq(BufferOrNull) /\ AllUsable(bufVec_)
      /\ bufToWrite = <<>> /\ done = 0
      /\ nextBuf_ = Null => bufVec_ # <<>>
      /\ nextBuf_ = Null \/ Usable(nextBuf_)
  BY UsableNotNull DEF IInv, TypeOK, SparesMatchBlocks, BackendSwap, AllUsable
<1>2. /\ bufToWrite' = Append(bufVec_, curBuf_) /\ bufVec_' = <<>>
      /\ curBuf_' = buf1 /\ buf1' = Null
      /\ nextBuf_' = IF nextBuf_ = Null THEN buf2 ELSE nextBuf_
      /\ buf2' = IF nextBuf_ = Null THEN Null ELSE buf2
      /\ backPc' = "drop" /\ backPc \in {"enter", "waiting"}
  BY <1>1 DEF BackendSwap, Swap
<1>3. UNCHANGED <<running_, waitSet, startPc, stopPc, done, count, written, lost, fault>>
  BY DEF BackendSwap, history
<1>4. /\ bufToWrite' \in Seq(BufferOrNull) /\ AllUsable(bufToWrite')
      /\ bufToWrite' # <<>> /\ Len(bufToWrite') = Len(bufVec_) + 1
  BY <1>1, <1>2, AppendUsable
<1>5. /\ Usable(curBuf_') /\ Usable(nextBuf_') /\ nextBuf_' # Null
      /\ buf2' = Null \/ Usable(buf2')
  BY <1>1, <1>2, UsableNotNull
<1>6. /\ curBuf_' \in BufferOrNull /\ nextBuf_' \in BufferOrNull
      /\ buf1' \in BufferOrNull /\ buf2' \in BufferOrNull
  BY <1>2, <1>5, UsableNotNull DEF BufferOrNull
<1>7. bufVec_' \in Seq(BufferOrNull) /\ AllUsable(bufVec_')
  BY <1>2, EmptySeq DEF AllUsable
<1>8. buf2' = Null => Len(bufToWrite') >= 2
  <2>1. bufVec_ # <<>> => Len(bufVec_) \in Nat \ {0}
    BY <1>1, EmptySeq
  <2>2. buf2' = Null => bufVec_ # <<>>
    BY <1>1, <1>2
  <2>3. QED BY <1>4, <2>1, <2>2
<1>9. TypeOK'
  BY <1>2, <1>3, <1>4, <1>6, <1>7 DEF IInv, TypeOK
<1>10. done' <= Len(bufToWrite')
  BY <1>1, <1>3, <1>4, LenProperties
<1>11. SparesMatchBlocks'
  BY <1>2, <1>3, <1>4, <1>5, <1>7, <1>8, <1>10 DEF IInv, SparesMatchBlocks, AllUsable, Usable
<1>12. QED BY <1>3, <1>9, <1>11 DEF IInv, NoFault

(* What a block or a sequence of blocks holds are line numbers.            *)
LEMMA LinesType ==
    /\ \A buf \in BufferOrNull : LinesIn(buf) \in Seq(Nat)
    /\ \A bufs \in Seq(BufferOrNull) : LinesOf(bufs) \subseteq Nat
<1>1. ASSUME NEW buf \in BufferOrNull PROVE LinesIn(buf) \in Seq(Nat)
  BY EmptySeq DEF BufferOrNull, Buffer, LinesIn
<1>2. ASSUME NEW bufs \in Seq(BufferOrNull), NEW i \in DOMAIN bufs PROVE Range(LinesIn(bufs[i])) \subseteq Nat
  <2>1. bufs[i] \in BufferOrNull
    BY <1>2, LenProperties, ElementOfSeq
  <2>2. QED BY <1>1, <2>1, RangeOfSeq
<1>3. QED BY <1>1, <1>2 DEF LinesOf

LEMMA DropStep == ASSUME IInv, BackendDrop PROVE IInv'
<1>1. /\ bufToWrite \in Seq(BufferOrNull) /\ AllUsable(bufToWrite) /\ bufToWrite # <<>>
      /\ buf2 = Null => Len(bufToWrite) >= 2
      /\ lost \subseteq Nat /\ done = 0
      /\ backPc = "drop" /\ backPc' = "flush"
  BY DEF IInv, TypeOK, SparesMatchBlocks, AllUsable, BackendDrop
<1>2. /\ bufToWrite' \in Seq(BufferOrNull) /\ AllUsable(bufToWrite') /\ bufToWrite' # <<>>
      /\ Len(bufToWrite) >= 2 => Len(bufToWrite') >= 2
  <2>1. CASE Len(bufToWrite) > DropLimit
    <3>1. bufToWrite' = SubSeq(bufToWrite, 1, 2)
      BY <2>1 DEF BackendDrop
    <3>2. Len(bufToWrite) \in Nat /\ Len(bufToWrite) >= 2
      BY <1>1, <2>1, LogAssumption, LenProperties
    <3>3. \A i \in 1 .. 2 : bufToWrite[i] \in BufferOrNull /\ Usable(bufToWrite[i])
      BY <1>1, <3>2, ElementOfSeq, LenProperties DEF AllUsable
    <3>4. /\ bufToWrite' \in Seq(BufferOrNull) /\ Len(bufToWrite') = 2
          /\ \A i \in 1 .. 2 : bufToWrite'[i] = bufToWrite[i]
      BY <3>1, <3>3, SubSeqProperties
    <3>5. DOMAIN bufToWrite' = 1 .. 2
      BY <3>4, LenProperties
    <3>6. bufToWrite' # <<>>
      BY <3>4, EmptySeq
    <3>7. \A i \in 1 .. 2 : Usable(bufToWrite'[i])
      BY <3>3, <3>4
    <3>8. AllUsable(bufToWrite')
      BY <3>5, <3>7 DEF AllUsable
    <3>9. QED BY <3>4, <3>6, <3>8
  <2>2. CASE ~ (Len(bufToWrite) > DropLimit)
    BY <1>1, <2>2 DEF BackendDrop
  <2>3. QED BY <2>1, <2>2
<1>3. lost' \subseteq Nat
  BY <1>1, LinesType DEF BackendDrop
<1>4. UNCHANGED <<running_, waitSet, startPc, stopPc, curBuf_, nextBuf_, bufVec_, buf1, buf2, done, count, written, fault>>
  BY DEF BackendDrop, shared
<1>5. TypeOK'
  BY <1>1, <1>2, <1>3, <1>4 DEF IInv, TypeOK
<1>6. SparesMatchBlocks'
  <2>1. done' <= Len(bufToWrite')
    BY <1>1, <1>2, <1>4, LenProperties
  <2>2. QED BY <1>1, <1>2, <1>4, <2>1 DEF IInv, SparesMatchBlocks, AllUsable, Usable
<1>7. QED BY <1>4, <1>5, <1>6 DEF IInv, NoFault

(* The block written next is one of bufToWrite, all of which are usable.   *)
LEMMA FlushStep == ASSUME IInv, BackendFlush PROVE IInv'
<1>1. /\ bufToWrite \in Seq(BufferOrNull) /\ AllUsable(bufToWrite)
      /\ done \in Nat /\ done < Len(bufToWrite) /\ written \in Seq(Nat)
      /\ fault = FALSE /\ backPc = "flush"
  BY DEF IInv, TypeOK, SparesMatchBlocks, AllUsable, BackendFlush, NoFault
<1>2. done + 1 \in DOMAIN bufToWrite /\ done + 1 <= Len(bufToWrite) /\ done + 1 \in Nat
  BY <1>1, LenProperties
<1>3. bufToWrite[done + 1] # Null /\ bufToWrite[done + 1] \in BufferOrNull
  BY <1>1, <1>2, UsableNotNull DEF AllUsable
<1>4. written' \in Seq(Nat)
  BY <1>1, <1>3, LinesType, ConcatProperties DEF BackendFlush
<1>5. fault' = FALSE /\ done' = done + 1
  BY <1>1, <1>3 DEF BackendFlush
<1>6. UNCHANGED <<running_, waitSet, startPc, stopPc, backPc, curBuf_, nextBuf_, bufVec_, buf1, buf2, bufToWrite, count, lost>>
  BY DEF BackendFlush, shared
<1>7. TypeOK'
  BY <1>2, <1>4, <1>5, <1>6 DEF IInv, TypeOK
<1>8. SparesMatchBlocks'
  BY <1>1, <1>2, <1>5, <1>6 DEF IInv, SparesMatchBlocks, Usable
<1>9. QED BY <1>5, <1>7, <1>8 DEF IInv, NoFault

(* The refill finds a block for buf1, and a second one when buf2 is empty. *)
LEMMA RecycleStep == ASSUME IInv, BackendRecycle PROVE IInv'
<1>1. /\ bufToWrite \in Seq(BufferOrNull) /\ bufToWrite # <<>>
      /\ buf2 = Null => Len(bufToWrite) >= 2
      /\ buf2 # Null => Usable(buf2)
      /\ buf1 = Null /\ fault = FALSE /\ backPc = "flush"
  BY DEF IInv, TypeOK, SparesMatchBlocks, BackendRecycle, NoFault
<1>2. Len(bufToWrite) \in Nat \ {0}
  BY <1>1, EmptySeq
<1>3. fault' = FALSE
  <2> DEFINE spare == IF Len(bufToWrite) > 2 THEN 2 ELSE Len(bufToWrite)
             need  == (IF buf1 = Null THEN 1 ELSE 0) + (IF buf2 = Null THEN 1 ELSE 0)
  <2>1. fault' = (fault \/ spare < need)
    BY DEF BackendRecycle
  <2>2. need = IF buf2 = Null THEN 2 ELSE 1
    BY <1>1
  <2>3. spare \in Nat /\ spare >= 1 /\ (buf2 = Null => spare = 2)
    <3>1. CASE Len(bufToWrite) > 2
      BY <1>2, <3>1
    <3>2. CASE ~ (Len(bufToWrite) > 2)
      <4>1. spare = Len(bufToWrite)
        BY <3>2
      <4>2. Len(bufToWrite) \in Nat /\ Len(bufToWrite) >= 1 /\ Len(bufToWrite) <= 2
        BY <1>2, <3>2
      <4> HIDE DEF spare
      <4>3. QED BY <1>1, <4>1, <4>2
    <3>3. QED BY <3>1, <3>2
  <2>4. ~ (spare < need)
    <3> HIDE DEF spare, need
    <3>1. QED BY <2>2, <2>3
  <2> HIDE DEF spare, need
  <2>5. QED BY <1>1, <2>1, <2>4
<1>4. /\ Usable(buf1') /\ Usable(buf2')
      /\ buf1' \in BufferOrNull /\ buf2' \in BufferOrNull
  BY <1>1, EmptyUsable, UsableNotNull DEF BackendRecycle
<1>5. bufToWrite' = <<>> /\ done' = 0 /\ backPc' = "loop"
  BY DEF BackendRecycle
<1>6. UNCHANGED <<running_, waitSet, startPc, stopPc, curBuf_, nextBuf_, bufVec_, count, written, lost>>
  BY DEF BackendRecycle, shared, history
<1>7. TypeOK'
  BY <1>3, <1>4, <1>5, <1>6, EmptySeq DEF IInv, TypeOK
<1>8. SparesMatchBlocks'
  BY <1>1, <1>4, <1>5, <1>6 DEF IInv, SparesMatchBlocks, Usable
<1>9. QED BY <1>3, <1>7, <1>8 DEF IInv, NoFault
-----------------------------------------------------------------------------
LEMMA StutterStep == ASSUME IInv, UNCHANGED vars PROVE IInv'
BY DEF IInv, TypeOK, SparesMatchBlocks, NoFault, Usable, vars, shared, locals, history

LEMMA NextIInv == IInv /\ [Next]_vars => IInv'
<1> SUFFICES ASSUME IInv, [Next]_vars PROVE IInv'
  OBVIOUS
<1>1. CASE Starter
  BY <1>1, ThreadSteps
<1>2. CASE Stopper
  BY <1>2, ThreadSteps
<1>3. CASE Backend
  BY <1>3, BornStep, SwapStep, DropStep, FlushStep, RecycleStep, ThreadSteps DEF Backend
<1>4. CASE \E len \in LineLens : append(len)
  BY <1>4, AppendStep
<1>5. CASE \E t \in Waiters : Wakeup(t)
  BY <1>5, ThreadSteps
<1>6. CASE UNCHANGED vars
  BY <1>6, StutterStep
<1>7. QED BY <1>1, <1>2, <1>3, <1>4, <1>5, <1>6 DEF Next

LEMMA Invariance == Spec => []IInv
<1>1. QED BY InitIInv, NextIInv, PTL DEF Spec

(* Every variable of the logger keeps its type.                            *)
THEOREM TypeCorrect == Spec => []TypeOK
<1>1. IInv => TypeOK
  BY DEF IInv
<1>2. QED BY Invariance, <1>1, PTL

(* A block is always there to append to, a round that hands out both spare *)
(* blocks has two blocks to refill them from, and no block is filled past  *)
(* its last byte (Log.h:63-84 and 97-154).                                 *)
THEOREM MemoryDiscipline == Spec => []SparesMatchBlocks
<1>1. IInv => SparesMatchBlocks
  BY DEF IInv
<1>2. QED BY Invariance, <1>1, PTL

(* No null block is used and back() is never taken of an empty vector      *)
(* (Log.h:66, 125 and 138-151), however many threads log, whatever the     *)
(* lines' lengths and wherever start() and stop() are.                     *)
THEOREM NeverFaults == Spec => []NoFault
<1>1. IInv => NoFault
  BY DEF IInv
<1>2. QED BY Invariance, <1>1, PTL
-----------------------------------------------------------------------------
(* Other threads that log only when start() has returned find nobody but   *)
(* threadFunc in cond_, so that the notify of a rotation cannot go astray. *)
OnlyStarterWaits == "starter" \in waitSet => startPc = "waiting"

(* A block that append() has filled has woken threadFunc (Log.h:82).  With *)
(* threads that log while start() waits this would not hold: the one       *)
(* notify may wake the thread that is in start().                          *)
THEOREM FullBlockWakes == ASSUME ~ EarlyAppends PROVE Spec => []FullBlockWakesBackend
<1> DEFINE Inv == OnlyStarterWaits /\ FullBlockWakesBackend
<1>1. Init => Inv
  BY DEF Init, OnlyStarterWaits, FullBlockWakesBackend
<1>2. TypeOK /\ Inv /\ [Next]_vars => Inv'
  <2> SUFFICES ASSUME TypeOK, Inv, [Next]_vars PROVE Inv'
    OBVIOUS
  <2> USE DEF OnlyStarterWaits, FullBlockWakesBackend, TypeOK, shared, locals, history
  <2>1. ASSUME NEW len \in LineLens, append(len) PROVE Inv'
    <3>1. startPc = "returned" /\ startPc' = startPc /\ waitSet \subseteq {"backend"}
      BY <2>1 DEF append, Waiters
    <3>2. CASE AppendRotates(len)
      BY <3>1, <3>2 DEF AppendRotates, Notify
    <3>3. CASE waitSet' = waitSet /\ bufVec_' = bufVec_
      BY <3>1, <3>3
    <3>4. QED BY <2>1, <3>2, <3>3 DEF append, AppendFits
  <2>2. CASE Starter
    BY <2>2 DEF Starter, StartFlag, StartThread, StartWait, StartReturn
  <2>3. CASE Stopper
    BY <2>3 DEF Stopper, StopFlag, StopNotify, Notify
  <2>4. CASE Backend
    <3>1. CASE BackendBorn
      BY <3>1 DEF BackendBorn, Notify
    <3>2. CASE BackendWait
      BY <3>2 DEF BackendWait
    <3>3. CASE BackendSwap
      BY <3>3 DEF BackendSwap, Swap
    <3>4. CASE BackendLoop \/ BackendDrop \/ BackendFlush \/ BackendRecycle
      BY <3>4 DEF BackendLoop, BackendDrop, BackendFlush, BackendRecycle
    <3>5. QED BY <2>4, <3>1, <3>2, <3>3, <3>4 DEF Backend
  <2>5. CASE \E t \in Waiters : Wakeup(t)
    BY <2>5 DEF Wakeup
  <2>6. CASE UNCHANGED vars
    BY <2>6 DEF vars
  <2>7. QED BY <2>1, <2>2, <2>3, <2>4, <2>5, <2>6 DEF Next
<1>3. QED BY <1>1, <1>2, TypeCorrect, PTL DEF Spec
-----------------------------------------------------------------------------
(* Lines lie in the order of their append() calls, from the round that is  *)
(* being written over bufVec_ to the current block; spares are empty.      *)
Lines(buf) == Range(LinesIn(buf))

InOrder(bufs, n) ==
    /\ \A k \in DOMAIN bufs : \A i \in Lines(bufs[k]) : i <= n
    /\ \A k, l \in DOMAIN bufs : k < l => \A i \in Lines(bufs[k]), j \in Lines(bufs[l]) : i < j

LineOrder ==
    /\ Lines(nextBuf_) = {} /\ Lines(buf1) = {} /\ Lines(buf2) = {}
    /\ InOrder(Append(bufVec_, curBuf_), count)
    /\ InOrder(bufToWrite, count)

LEMMA NoLines == Lines(EmptyBuffer) = {} /\ Lines(Null) = {}
<1>1. EmptyBuffer # Null
  BY EmptyUsable, UsableNotNull
<1>2. QED BY <1>1 DEF Lines, LinesIn, EmptyBuffer, Range

LEMMA LinesAreNumbers == \A buf \in BufferOrNull : Lines(buf) \subseteq Nat
<1> TAKE buf \in BufferOrNull
<1>1. LinesIn(buf) \in Seq(Nat)
  BY LinesType
<1>2. QED BY <1>1, RangeOfSeq DEF Lines

(* What append() stores is the line of its call and nothing else.          *)
LEMMA PutLineLines ==
    ASSUME NEW buf, Usable(buf), NEW line \in Nat, NEW len \in Nat
    PROVE  Lines(PutLine(buf, line, len)) \subseteq Lines(buf) \cup {line}
<1> DEFINE put == PutLine(buf, line, len)
<1>1. CASE avail(buf) > len
  <2>1. Usable(put) /\ put # Null /\ buf # Null /\ buf.lines \in Seq(Nat)
    BY PutLineUsable, UsableNotNull DEF Usable, Buffer
  <2>2. put.lines = Append(buf.lines, line)
    BY <1>1 DEF PutLine
  <2>3. /\ Append(buf.lines, line) \in Seq(Nat)
        /\ Len(Append(buf.lines, line)) = Len(buf.lines) + 1
        /\ \A i \in 1 .. Len(buf.lines) : Append(buf.lines, line)[i] = buf.lines[i]
        /\ Append(buf.lines, line)[Len(buf.lines) + 1] = line
    BY <2>1, AppendProperties
  <2>4. /\ Range(buf.lines) = {buf.lines[i] : i \in 1 .. Len(buf.lines)}
        /\ Range(Append(buf.lines, line)) = {Append(buf.lines, line)[i] : i \in 1 .. Len(buf.lines) + 1}
        /\ Len(buf.lines) \in Nat
    BY <2>1, <2>3, RangeEquality, LenProperties
  <2>5. Range(Append(buf.lines, line)) \subseteq Range(buf.lines) \cup {line}
    BY <2>3, <2>4
  <2>6. Lines(put) = Range(Append(buf.lines, line)) /\ Lines(buf) = Range(buf.lines)
    <3> HIDE DEF put
    <3>1. QED BY <2>1, <2>2 DEF Lines, LinesIn
  <2>7. QED BY <2>5, <2>6
<1>2. CASE ~ (avail(buf) > len)
  BY <1>2 DEF PutLine
<1>3. QED BY <1>1, <1>2

(* A block of younger lines goes behind the others.                        *)
LEMMA AppendInOrder ==
    ASSUME NEW bufs \in Seq(BufferOrNull), NEW n \in Nat, NEW m \in Nat, n <= m, InOrder(bufs, n),
           NEW buf \in BufferOrNull, \A i \in Lines(buf) : n < i /\ i <= m
    PROVE  InOrder(Append(bufs, buf), m)
<1> DEFINE new == Append(bufs, buf)
<1>1. /\ DOMAIN bufs = 1 .. Len(bufs) /\ DOMAIN new = 1 .. Len(bufs) + 1 /\ Len(bufs) \in Nat
      /\ \A k \in 1 .. Len(bufs) : new[k] = bufs[k]
      /\ new[Len(bufs) + 1] = buf
  BY AppendProperties, LenProperties
<1>2. \A k \in 1 .. Len(bufs) : Lines(bufs[k]) \subseteq Nat
  BY ElementOfSeq, LinesAreNumbers
<1>3. Lines(buf) \subseteq Nat
  BY LinesAreNumbers
<1> HIDE DEF new
<1>4. ASSUME NEW k \in DOMAIN new, NEW i \in Lines(new[k]) PROVE i <= m
  BY <1>1, <1>2, <1>4 DEF InOrder
<1>5. ASSUME NEW k \in DOMAIN new, NEW l \in DOMAIN new, k < l,
             NEW i \in Lines(new[k]), NEW j \in Lines(new[l])
      PROVE i < j
  <2>1. k \in 1 .. Len(bufs) /\ i \in Lines(bufs[k]) /\ i \in Nat /\ i <= n
    BY <1>1, <1>2, <1>5 DEF InOrder
  <2>2. CASE l = Len(bufs) + 1
    BY <1>1, <1>3, <1>5, <2>1, <2>2
  <2>3. CASE l \in 1 .. Len(bufs)
    BY <1>1, <1>5, <2>1, <2>3 DEF InOrder
  <2>4. QED BY <1>1, <2>2, <2>3
<1>6. InOrder(new, m)
  BY <1>4, <1>5 DEF InOrder
<1>7. QED BY <1>6 DEF new

(* So does one more line in the last block.                                *)
LEMMA LastInOrder ==
    ASSUME NEW bufs \in Seq(BufferOrNull), NEW n \in Nat,
           NEW old \in BufferOrNull, InOrder(Append(bufs, old), n),
           NEW buf \in BufferOrNull, Lines(buf) \subseteq Lines(old) \cup {n + 1}
    PROVE  InOrder(Append(bufs, buf), n + 1)
<1> DEFINE new == Append(bufs, buf)  was == Append(bufs, old)
<1>1. /\ DOMAIN was = 1 .. Len(bufs) + 1 /\ DOMAIN new = 1 .. Len(bufs) + 1 /\ Len(bufs) \in Nat
      /\ \A k \in 1 .. Len(bufs) : new[k] = bufs[k] /\ was[k] = bufs[k]
      /\ new[Len(bufs) + 1] = buf /\ was[Len(bufs) + 1] = old
  BY AppendProperties, LenProperties
<1>2. \A k \in 1 .. Len(bufs) : Lines(bufs[k]) \subseteq Nat
  BY ElementOfSeq, LinesAreNumbers
<1>3. Lines(buf) \subseteq Nat /\ Lines(old) \subseteq Nat
  BY LinesAreNumbers
<1>4. InOrder(was, n)
  OBVIOUS
<1> HIDE DEF new, was
<1>5. ASSUME NEW k \in DOMAIN new, NEW i \in Lines(new[k])
      PROVE i \in Nat /\ ((i \in Lines(was[k]) /\ i <= n) \/ (k = Len(bufs) + 1 /\ i = n + 1))
  <2>1. CASE k = Len(bufs) + 1
    BY <1>1, <1>3, <1>4, <1>5, <2>1 DEF InOrder
  <2>2. CASE k \in 1 .. Len(bufs)
    BY <1>1, <1>2, <1>4, <1>5, <2>2 DEF InOrder
  <2>3. QED BY <1>1, <2>1, <2>2
<1>6. \A k \in DOMAIN new : \A i \in Lines(new[k]) : i <= n + 1
  BY <1>5
<1>7. ASSUME NEW k \in DOMAIN new, NEW l \in DOMAIN new, k < l,
             NEW i \in Lines(new[k]), NEW j \in Lines(new[l])
      PROVE i < j
  <2>1. i \in Nat /\ i \in Lines(was[k]) /\ i <= n
    BY <1>1, <1>5, <1>7
  <2>2. j \in Nat /\ (j \in Lines(was[l]) \/ j = n + 1)
    BY <1>5
  <2>3. QED BY <1>1, <1>4, <1>7, <2>1, <2>2 DEF InOrder
<1>8. InOrder(new, n + 1)
  BY <1>6, <1>7 DEF InOrder
<1>9. QED BY <1>8 DEF new

LEMMA EmptyInOrder == ASSUME NEW n PROVE InOrder(<<>>, n)
<1>1. DOMAIN <<>> = {}
  BY EmptySeq
<1>2. QED BY <1>1 DEF InOrder

(* A round with nothing to drop, or cut down to its two oldest blocks,     *)
(* keeps its order, and what is cut off is younger than what stays.        *)
LEMMA CutInOrder ==
    ASSUME NEW bufs \in Seq(BufferOrNull), NEW n \in Nat, InOrder(bufs, n), Len(bufs) > 2
    PROVE  /\ InOrder(SubSeq(bufs, 1, 2), n)
           /\ \A i \in LinesOf(bufs) \ LinesOf(SubSeq(bufs, 1, 2)) : \A j \in LinesOf(SubSeq(bufs, 1, 2)) : j < i
<1> DEFINE cut == SubSeq(bufs, 1, 2)
<1>1. DOMAIN bufs = 1 .. Len(bufs) /\ Len(bufs) \in Nat /\ \A k \in 1 .. 2 : bufs[k] \in BufferOrNull
  BY LenProperties, ElementOfSeq
<1>2. cut \in Seq(BufferOrNull) /\ Len(cut) = 2 /\ \A k \in 1 .. 2 : cut[k] = bufs[k]
  BY <1>1, SubSeqProperties
<1>3. DOMAIN cut = 1 .. 2
  BY <1>2, LenProperties
<1> HIDE DEF cut
<1>4. InOrder(cut, n)
  BY <1>1, <1>2, <1>3 DEF InOrder
<1>5. ASSUME NEW i \in LinesOf(bufs) \ LinesOf(cut), NEW j \in LinesOf(cut) PROVE j < i
  <2>1. PICK k \in DOMAIN cut : j \in Lines(cut[k])
    BY DEF LinesOf, Lines
  <2>2. PICK l \in DOMAIN bufs : i \in Lines(bufs[l])
    BY DEF LinesOf, Lines
  <2>3. l \notin 1 .. 2
    BY <1>2, <1>3, <2>2 DEF LinesOf, Lines
  <2>4. k < l /\ k \in DOMAIN bufs /\ j \in Lines(bufs[k])
    BY <1>1, <1>2, <1>3, <2>1, <2>3
  <2>5. QED BY <2>2, <2>4 DEF InOrder
<1>6. QED BY <1>4, <1>5 DEF cut

-----------------------------------------------------------------------------
(* append() leaves the lines in order; what it loses is its own line.      *)
LEMMA AppendOrders ==
    ASSUME IInv, LineOrder, NEW len \in LineLens, append(len)
    PROVE  LineOrder' /\ lost' \subseteq lost \cup {count + 1}
<1>1. /\ Usable(curBuf_) /\ curBuf_ # Null /\ curBuf_ \in BufferOrNull /\ count \in Nat /\ len \in Nat
      /\ nextBuf_ = Null \/ Usable(nextBuf_)
      /\ bufVec_ \in Seq(BufferOrNull) /\ bufToWrite \in Seq(BufferOrNull)
  BY UsableNotNull, LogAssumption DEF IInv, TypeOK, SparesMatchBlocks
<1>2. /\ count' = count + 1 /\ (AppendFits(len) \/ AppendRotates(len))
      /\ UNCHANGED <<buf1, buf2, bufToWrite>>
  BY <1>1 DEF append, locals
<1>3. InOrder(bufToWrite', count')
  <2>1. \A k \in DOMAIN bufToWrite : Lines(bufToWrite[k]) \subseteq Nat
    BY <1>1, LinesAreNumbers, LenProperties, ElementOfSeq
  <2>2. QED BY <1>1, <1>2, <2>1 DEF LineOrder, InOrder
<1>4. CASE AppendFits(len)
  <2>1. /\ curBuf_' = PutLine(curBuf_, count + 1, len) /\ lost' \subseteq lost \cup {count + 1}
        /\ UNCHANGED <<nextBuf_, bufVec_>>
    BY <1>4 DEF AppendFits, Stored
  <2>2. Lines(curBuf_') \subseteq Lines(curBuf_) \cup {count + 1} /\ curBuf_' \in BufferOrNull
    BY <1>1, <2>1, PutLineLines, PutLineUsable, UsableNotNull
  <2>3. InOrder(Append(bufVec_, curBuf_'), count + 1)
    BY <1>1, <2>2, LastInOrder DEF LineOrder
  <2>4. QED BY <1>2, <1>3, <2>1, <2>3 DEF LineOrder, Lines
<1>5. CASE AppendRotates(len)
  <2> DEFINE fresh == IF nextBuf_ # Null THEN nextBuf_ ELSE EmptyBuffer
  <2>1. /\ curBuf_' = PutLine(fresh, count + 1, len) /\ lost' \subseteq lost \cup {count + 1}
        /\ nextBuf_' = Null /\ bufVec_' = Append(bufVec_, curBuf_)
    BY <1>5 DEF AppendRotates, Stored
  <2>2. Usable(fresh) /\ Lines(fresh) = {}
    BY <1>1, EmptyUsable, NoLines DEF LineOrder
  <2> HIDE DEF fresh
  <2>3. Lines(curBuf_') \subseteq {count + 1} /\ curBuf_' \in BufferOrNull
    BY <1>1, <2>1, <2>2, PutLineLines, PutLineUsable, UsableNotNull
  <2>4. bufVec_' \in Seq(BufferOrNull) /\ InOrder(bufVec_', count)
    BY <1>1, <2>1, AppendProperties DEF LineOrder
  <2>5. InOrder(Append(bufVec_', curBuf_'), count + 1)
    <3>1. \A i \in Lines(curBuf_') : count < i /\ i <= count + 1
      BY <1>1, <2>3
    <3>2. QED BY <1>1, <2>3, <2>4, <3>1, AppendInOrder
  <2>6. Lines(nextBuf_') = {}
    BY <2>1, NoLines
  <2>7. QED BY <1>2, <1>3, <2>1, <2>5, <2>6 DEF LineOrder, Lines
<1>6. QED BY <1>2, <1>4, <1>5

(* The exchange takes the shared blocks as they are and leaves empty ones. *)
LEMMA SwapOrders == ASSUME IInv, LineOrder, BackendSwap PROVE LineOrder'
<1>1. /\ bufToWrite' = Append(bufVec_, curBuf_) /\ bufVec_' = <<>> /\ count' = count
      /\ curBuf_' = buf1 /\ buf1' = Null
      /\ nextBuf_' = IF nextBuf_ = Null THEN buf2 ELSE nextBuf_
      /\ buf2' = IF nextBuf_ = Null THEN Null ELSE buf2
  BY DEF BackendSwap, Swap, history, IInv, SparesMatchBlocks
<1>2. bufVec_' \in Seq(BufferOrNull) /\ curBuf_' \in BufferOrNull /\ count \in Nat
  BY <1>1, EmptySeq DEF IInv, TypeOK
<1>3. InOrder(bufToWrite', count')
  BY <1>1 DEF LineOrder
<1>4. Lines(curBuf_') = {} /\ Lines(nextBuf_') = {} /\ Lines(buf1') = {} /\ Lines(buf2') = {}
  BY <1>1, NoLines DEF LineOrder
<1>5. InOrder(Append(bufVec_', curBuf_'), count')
  <2>1. InOrder(bufVec_', count)
    BY <1>1, EmptyInOrder
  <2>2. (\A i \in Lines(curBuf_') : count < i /\ i <= count) /\ count <= count
    BY <1>2, <1>4
  <2>3. InOrder(Append(bufVec_', curBuf_'), count)
    BY <1>2, <2>1, <2>2, AppendInOrder
  <2>4. QED BY <1>1, <2>3
<1>6. QED BY <1>3, <1>4, <1>5 DEF LineOrder, Lines

(* What a round drops is younger than what it keeps.                       *)
LEMMA DropOrders ==
    ASSUME IInv, LineOrder, BackendDrop
    PROVE  LineOrder' /\ \A i \in lost' \ lost : \A j \in LinesOf(bufToWrite') : j < i
<1>1. /\ bufToWrite \in Seq(BufferOrNull) /\ count \in Nat /\ InOrder(bufToWrite, count)
      /\ Len(bufToWrite) \in Nat
  BY LenProperties DEF IInv, TypeOK, LineOrder
<1>2. /\ lost' = lost \cup (LinesOf(bufToWrite) \ LinesOf(bufToWrite'))
      /\ UNCHANGED <<curBuf_, nextBuf_, bufVec_, buf1, buf2, count>>
  BY DEF BackendDrop, shared
<1>3. /\ InOrder(bufToWrite', count)
      /\ \A i \in LinesOf(bufToWrite) \ LinesOf(bufToWrite') : \A j \in LinesOf(bufToWrite') : j < i
  <2>1. CASE Len(bufToWrite) > DropLimit
    <3>1. bufToWrite' = SubSeq(bufToWrite, 1, 2) /\ Len(bufToWrite) > 2
      BY <1>1, <2>1, LogAssumption DEF BackendDrop
    <3>2. QED BY <1>1, <3>1, CutInOrder
  <2>2. CASE ~ (Len(bufToWrite) > DropLimit)
    BY <1>1, <2>2 DEF BackendDrop
  <2>3. QED BY <2>1, <2>2
<1>4. LineOrder'
  BY <1>2, <1>3 DEF LineOrder, Lines
<1>5. QED BY <1>2, <1>3, <1>4

LEMMA RecycleOrders == ASSUME IInv, LineOrder, BackendRecycle PROVE LineOrder'
<1>1. /\ Lines(buf1') = {} /\ Lines(buf2') = {} /\ bufToWrite' = <<>>
      /\ UNCHANGED <<curBuf_, nextBuf_, bufVec_, count>>
  BY NoLines DEF BackendRecycle, shared, history, LineOrder
<1>2. InOrder(bufToWrite', count)
  BY <1>1, EmptyInOrder
<1>3. QED BY <1>1, <1>2 DEF LineOrder, Lines

\* What a step loses is younger than the lines of the round after it.
Shed == \A i \in lost' \ lost : \A j \in LinesOf(bufToWrite') : j < i

LEMMA InitOrder == Init => LineOrder
<1> SUFFICES ASSUME Init PROVE LineOrder
  OBVIOUS
<1>1. /\ bufVec_ = <<>> /\ curBuf_ = EmptyBuffer /\ nextBuf_ = EmptyBuffer /\ count = 0
      /\ buf1 = Null /\ buf2 = Null /\ bufToWrite = <<>>
  BY DEF Init
<1>2. InOrder(bufVec_, 0) /\ bufVec_ \in Seq(BufferOrNull) /\ curBuf_ \in BufferOrNull
  BY <1>1, EmptyInOrder, EmptySeq, EmptyUsable, UsableNotNull
<1>3. InOrder(Append(bufVec_, curBuf_), 0)
  <2>1. \A i \in Lines(curBuf_) : 0 < i /\ i <= 0
    BY <1>1, NoLines
  <2>2. QED BY <1>2, <2>1, AppendInOrder
<1>4. QED BY <1>1, <1>2, <1>3, NoLines DEF LineOrder

LEMMA NextOrder == IInv /\ LineOrder /\ [Next]_vars => LineOrder' /\ Shed
<1> SUFFICES ASSUME IInv, LineOrder, [Next]_vars PROVE LineOrder' /\ Shed
  OBVIOUS
<1> USE DEF Shed
<1>1. ASSUME NEW len \in LineLens, append(len) PROVE LineOrder' /\ Shed
  <2>1. LineOrder' /\ lost' \subseteq lost \cup {count + 1}
    BY <1>1, AppendOrders
  <2>2. /\ bufToWrite' = bufToWrite /\ count \in Nat /\ InOrder(bufToWrite, count)
        /\ bufToWrite \in Seq(BufferOrNull)
    BY <1>1 DEF append, locals, IInv, TypeOK, LineOrder
  <2>3. \A j \in LinesOf(bufToWrite) : j \in Nat /\ j <= count
    BY <2>2, LinesType DEF InOrder, LinesOf, Lines
  <2>4. QED BY <2>1, <2>2, <2>3
<1>2. CASE BackendSwap
  BY <1>2, SwapOrders DEF BackendSwap, history
<1>3. CASE BackendDrop
  BY <1>3, DropOrders
<1>4. CASE BackendRecycle
  BY <1>4, RecycleOrders DEF BackendRecycle, history
<1>5. CASE BackendBorn
  <2>1. /\ buf1' = EmptyBuffer /\ buf2' = EmptyBuffer
        /\ UNCHANGED <<curBuf_, nextBuf_, bufVec_, bufToWrite, count, lost>>
    BY <1>5 DEF BackendBorn, shared, history
  <2>2. Lines(buf1') = {} /\ Lines(buf2') = {}
    BY <2>1, NoLines
  <2>3. QED BY <2>1, <2>2 DEF LineOrder, Lines
<1>6. CASE /\ UNCHANGED <<curBuf_, nextBuf_, bufVec_, buf1, buf2, bufToWrite, count, lost>>
  BY <1>6 DEF LineOrder, Lines
<1>7. CASE Starter \/ Stopper
  BY <1>7, <1>6 DEF Starter, StartFlag, StartThread, StartWait, StartReturn,
                    Stopper, StopFlag, StopNotify, shared, locals, history
<1>8. CASE BackendLoop \/ BackendWait \/ BackendFlush
  BY <1>8, <1>6 DEF BackendLoop, BackendWait, BackendFlush, shared, locals, history
<1>9. CASE \E t \in Waiters : Wakeup(t)
  BY <1>9, <1>6 DEF Wakeup, shared, locals, history
<1>10. CASE UNCHANGED vars
  BY <1>10, <1>6 DEF vars, shared, locals, history
<1>11. QED BY <1>1, <1>2, <1>3, <1>4, <1>5, <1>7, <1>8, <1>9, <1>10 DEF Next, Backend

LEMMA OrderInvariance == Spec => []LineOrder
<1>1. QED BY InitOrder, NextOrder, Invariance, PTL DEF Spec

(* When a round drops lines they are younger than all that it still writes *)
(* (Log.h:117-122), whatever callers append and however rounds fall.       *)
THEOREM NewestAreShed == Spec => ShedsNewest
<1>1. IInv /\ LineOrder /\ [Next]_vars => [Shed]_vars
  BY NextOrder
<1>2. QED BY <1>1, OrderInvariance, Invariance, PTL DEF Spec, ShedsNewest, Shed
-----------------------------------------------------------------------------
(* Induction over the numbers, for a set instead of a formula.             *)
LEMMA SetInduction ==
    ASSUME NEW S, 0 \in S, \A n \in Nat : n \in S => n + 1 \in S
    PROVE  \A n \in Nat : n \in S
<1> DEFINE T == Nat \ S
<1>1. CASE T # {}
  <2>1. PICK x \in T : \A y \in T : ~ (<<y, x>> \in OpToRel(<, Nat))
    <3>1. T \subseteq Nat
      OBVIOUS
    <3> HIDE DEF T
    <3>2. QED BY <1>1, <3>1, NatLessThanWellFounded, WFMin
  <2>2. \A y \in T : ~ (y < x)
    <3>1. x \in Nat /\ \A y \in T : y \in Nat
      BY <2>1
    <3> HIDE DEF T
    <3>2. QED BY <2>1, <3>1 DEF OpToRel
  <2>3. x \in Nat /\ x \notin S
    BY <2>1
  <2>4. x # 0 /\ x - 1 \in Nat /\ x - 1 < x
    BY <2>3
  <2>5. x - 1 \in S
    BY <2>2, <2>4
  <2>6. x - 1 + 1 \in S
    BY <2>4, <2>5
  <2>7. QED BY <2>3, <2>6
<1>2. QED BY <1>1

-----------------------------------------------------------------------------
(* FlattenSeq (of SequencesExt) is a recursive function: it exists, ...    *)
Flattens(g, ss, n) == \A i \in 1 .. n : g[i] = IF i = 1 THEN ss[i] ELSE g[i - 1] \o ss[i]

LEMMA FlatteningExists ==
    ASSUME NEW T, NEW ss \in Seq(Seq(T))
    PROVE  \E g \in [1 .. Len(ss) -> Seq(T)] : Flattens(g, ss, Len(ss))
<1> DEFINE S == {n \in Nat : n <= Len(ss) => \E g \in [1 .. n -> Seq(T)] : Flattens(g, ss, n)}
<1>1. 0 \in S
  <2>1. [i \in 1 .. 0 |-> <<>>] \in [1 .. 0 -> Seq(T)]
    OBVIOUS
  <2>2. Flattens([i \in 1 .. 0 |-> <<>>], ss, 0)
    BY DEF Flattens
  <2>3. QED BY <2>1, <2>2
<1>2. ASSUME NEW n \in Nat, n \in S PROVE n + 1 \in S
  <2> SUFFICES ASSUME n + 1 <= Len(ss)
               PROVE  \E g \in [1 .. n + 1 -> Seq(T)] : Flattens(g, ss, n + 1)
    OBVIOUS
  <2>1. Len(ss) \in Nat /\ \A i \in 1 .. Len(ss) : ss[i] \in Seq(T)
    BY LenProperties, ElementOfSeq
  <2>2. PICK g \in [1 .. n -> Seq(T)] : Flattens(g, ss, n)
    BY <1>2, <2>1
  <2> DEFINE last == IF n = 0 THEN ss[n + 1] ELSE g[n] \o ss[n + 1]
             h == [i \in 1 .. n + 1 |-> IF i = n + 1 THEN last ELSE g[i]]
  <2>3. last \in Seq(T)
    <3>1. CASE n = 0
      BY <2>1, <3>1
    <3>2. CASE n # 0
      <4>1. g[n] \in Seq(T) /\ ss[n + 1] \in Seq(T)
        BY <2>1, <2>2, <3>2
      <4>2. QED BY <3>2, <4>1, ConcatProperties
    <3>3. QED BY <3>1, <3>2
  <2>4. h \in [1 .. n + 1 -> Seq(T)]
    <3> HIDE DEF last
    <3>1. QED BY <2>2, <2>3
  <2>5. Flattens(h, ss, n + 1)
    <3> SUFFICES ASSUME NEW i \in 1 .. n + 1
                 PROVE  h[i] = IF i = 1 THEN ss[i] ELSE h[i - 1] \o ss[i]
      BY DEF Flattens
    <3>1. CASE i = n + 1
      <4>1. n # 0 => h[n] = g[n]
        OBVIOUS
      <4>2. h[i] = last
        BY <3>1
      <4> HIDE DEF h
      <4>3. QED BY <3>1, <4>1, <4>2
    <3>2. CASE i \in 1 .. n
      <4>1. h[i] = g[i] /\ (i # 1 => h[i - 1] = g[i - 1])
        <5> HIDE DEF last
        <5>1. QED BY <3>2
      <4>2. g[i] = IF i = 1 THEN ss[i] ELSE g[i - 1] \o ss[i]
        BY <2>2, <3>2 DEF Flattens
      <4> HIDE DEF h
      <4>3. QED BY <4>1, <4>2
    <3>3. QED BY <3>1, <3>2
  <2>6. QED BY <2>4, <2>5
<1>3. \A n \in Nat : n \in S
  <2> HIDE DEF S
  <2>1. QED BY <1>1, <1>2, SetInduction
<1>4. QED BY <1>3, LenProperties

(* ... its values are sequences, and only the sequences before count.      *)
LEMMA FlatteningUnique ==
    ASSUME NEW T, NEW n \in Nat, NEW ss, NEW tt, \A i \in 1 .. n : ss[i] = tt[i],
           NEW g, NEW h, Flattens(g, ss, n), Flattens(h, tt, n)
    PROVE  \A i \in 1 .. n : g[i] = h[i]
<1> DEFINE S == {i \in Nat : i \in 1 .. n => g[i] = h[i]}
<1>1. 0 \in S
  OBVIOUS
<1>2. ASSUME NEW i \in Nat, i \in S PROVE i + 1 \in S
  <2> SUFFICES ASSUME i + 1 \in 1 .. n PROVE g[i + 1] = h[i + 1]
    OBVIOUS
  <2>1. /\ g[i + 1] = IF i + 1 = 1 THEN ss[i + 1] ELSE g[i + 1 - 1] \o ss[i + 1]
        /\ h[i + 1] = IF i + 1 = 1 THEN tt[i + 1] ELSE h[i + 1 - 1] \o tt[i + 1]
    BY DEF Flattens
  <2>2. ss[i + 1] = tt[i + 1] /\ i + 1 - 1 = i
    OBVIOUS
  <2>3. CASE i = 0
    BY <2>1, <2>2, <2>3
  <2>4. CASE i # 0
    <3>1. g[i] = h[i]
      BY <1>2, <2>4
    <3>2. QED BY <2>1, <2>2, <2>4, <3>1
  <2>5. QED BY <2>3, <2>4
<1>3. \A i \in Nat : i \in S
  <2> HIDE DEF S
  <2>1. QED BY <1>1, <1>2, SetInduction
<1>4. QED BY <1>3

LEMMA FlattenValue ==
    ASSUME NEW T, NEW ss \in Seq(Seq(T)), Len(ss) # 0
    PROVE  \E g \in [1 .. Len(ss) -> Seq(T)] : Flattens(g, ss, Len(ss)) /\ FlattenSeq(ss) = g[Len(ss)]
<1> DEFINE F(g) == g = [i \in 1 .. Len(ss) |-> IF i = 1 THEN ss[i] ELSE g[i - 1] \o ss[i]]
<1>1. PICK g \in [1 .. Len(ss) -> Seq(T)] : Flattens(g, ss, Len(ss))
  BY FlatteningExists
<1>2. F(g)
  BY <1>1 DEF Flattens
<1>3. F(CHOOSE f : F(f))
  <2> HIDE DEF F
  <2>1. QED BY <1>2
<1> DEFINE f == CHOOSE f : F(f)
<1>4. FlattenSeq(ss) = f[Len(ss)]
  BY DEF FlattenSeq
<1>5. f = [i \in 1 .. Len(ss) |-> IF i = 1 THEN ss[i] ELSE f[i - 1] \o ss[i]]
  BY <1>3
<1> HIDE DEF f, F
<1>6. Flattens(f, ss, Len(ss))
  BY <1>5 DEF Flattens
<1>7. \A i \in 1 .. Len(ss) : f[i] = g[i]
  BY <1>1, <1>6, FlatteningUnique, LenProperties
<1>8. Len(ss) \in 1 .. Len(ss)
  BY LenProperties
<1>9. QED BY <1>1, <1>4, <1>7, <1>8

LEMMA FlattenEmpty == FlattenSeq(<<>>) = <<>>
BY EmptySeq DEF FlattenSeq

LEMMA FlattenType == ASSUME NEW T, NEW ss \in Seq(Seq(T)) PROVE FlattenSeq(ss) \in Seq(T)
<1>1. Len(ss) \in Nat
  BY LenProperties
<1>2. CASE Len(ss) = 0
  <2>1. ss = <<>> /\ <<>> \in Seq(T)
    BY <1>2, EmptySeq
  <2>2. QED BY <2>1, FlattenEmpty
<1>3. CASE Len(ss) # 0
  <2>1. Len(ss) \in 1 .. Len(ss)
    BY <1>1, <1>3
  <2>2. PICK g \in [1 .. Len(ss) -> Seq(T)] : FlattenSeq(ss) = g[Len(ss)]
    BY <1>3, FlattenValue
  <2>3. g[Len(ss)] \in Seq(T)
    BY <2>1
  <2>4. QED BY <2>2, <2>3
<1>4. QED BY <1>2, <1>3

LEMMA FlattenAppend ==
    ASSUME NEW T, NEW ss \in Seq(Seq(T)), NEW s \in Seq(T)
    PROVE  FlattenSeq(Append(ss, s)) = FlattenSeq(ss) \o s
<1> DEFINE tt == Append(ss, s)  n == Len(ss)
<1>1. /\ tt \in Seq(Seq(T)) /\ Len(tt) = n + 1 /\ n \in Nat
      /\ tt[n + 1] = s /\ \A i \in 1 .. n : ss[i] = tt[i]
  BY AppendProperties, LenProperties
<1> HIDE DEF tt, n
<1>2. PICK h : Flattens(h, tt, n + 1) /\ FlattenSeq(tt) = h[n + 1]
  <2>1. Len(tt) # 0
    BY <1>1
  <2>2. \E h : Flattens(h, tt, Len(tt)) /\ FlattenSeq(tt) = h[Len(tt)]
    BY <1>1, <2>1, FlattenValue
  <2>3. QED BY <1>1, <2>2
<1>3. h[n + 1] = IF n + 1 = 1 THEN s ELSE h[n + 1 - 1] \o s
  <2>1. \A i \in 1 .. n + 1 : h[i] = IF i = 1 THEN tt[i] ELSE h[i - 1] \o tt[i]
    BY <1>2 DEF Flattens
  <2>2. PICK m \in 1 .. n + 1 : m = n + 1
    BY <1>1
  <2>3. h[m] = IF m = 1 THEN tt[m] ELSE h[m - 1] \o tt[m]
    BY <2>1
  <2>4. tt[m] = s
    BY <1>1, <2>2
  <2>5. QED BY <1>1, <2>2, <2>3, <2>4
<1>4. CASE n = 0
  <2>1. ss = <<>>
    BY <1>4, EmptySeq DEF n
  <2>2. <<>> \o s = s
    BY ConcatEmptySeq
  <2>3. FlattenSeq(tt) = s
    BY <1>2, <1>3, <1>4
  <2>4. QED BY <2>1, <2>2, <2>3, FlattenEmpty DEF tt
<1>5. CASE n # 0
  <2>1. PICK g \in [1 .. n -> Seq(T)] : Flattens(g, ss, n) /\ FlattenSeq(ss) = g[n]
    BY <1>5, FlattenValue DEF n
  <2>2. Flattens(h, tt, n)
    <3>1. \A i \in 1 .. n : i \in 1 .. n + 1
      BY <1>1
    <3>2. QED BY <1>2, <3>1 DEF Flattens
  <2>3. \A i \in 1 .. n : g[i] = h[i]
    <3>1. n \in Nat /\ (\A i \in 1 .. n : ss[i] = tt[i]) /\ Flattens(g, ss, n)
      BY <1>1, <2>1
    <3>2. QED BY ONLY <3>1, <2>2, FlatteningUnique
  <2>4. n \in 1 .. n /\ n + 1 # 1 /\ n + 1 - 1 = n
    BY <1>1, <1>5
  <2>5. FlattenSeq(tt) = FlattenSeq(ss) \o s
    BY <1>2, <1>3, <2>1, <2>3, <2>4
  <2>6. QED BY <2>5 DEF tt
<1>6. QED BY <1>4, <1>5

LEMMA FlattenOne == ASSUME NEW T, NEW s \in Seq(T) PROVE FlattenSeq(<<s>>) = s
<1>1. <<>> \in Seq(Seq(T)) /\ <<s>> = Append(<<>>, s) /\ <<>> \o s = s
  BY EmptySeq, ConcatEmptySeq
<1>2. QED BY <1>1, FlattenAppend, FlattenEmpty

LEMMA ConcatThree ==
    ASSUME NEW T, NEW a, NEW b, NEW c, a \in Seq(T), b \in Seq(T), c \in Seq(T)
    PROVE  (a \o b) \o c = a \o (b \o c)
BY ConcatAssociative

LEMMA FlattenConcatStep ==
    ASSUME NEW T, NEW ss \in Seq(Seq(T)), NEW front \in Seq(Seq(T)), NEW last \in Seq(T),
           FlattenSeq(ss \o front) = FlattenSeq(ss) \o FlattenSeq(front)
    PROVE  FlattenSeq(ss \o Append(front, last)) = FlattenSeq(ss) \o FlattenSeq(Append(front, last))
<1>1. ss \o Append(front, last) = Append(ss \o front, last)
  <2>1. /\ Append(front, last) = front \o <<last>> /\ <<last>> \in Seq(Seq(T))
        /\ ss \o front \in Seq(Seq(T))
    BY AppendIsConcat, ConcatProperties
  <2>2. ss \o (front \o <<last>>) = (ss \o front) \o <<last>>
    BY <2>1, ConcatAssociative
  <2>3. Append(ss \o front, last) = (ss \o front) \o <<last>>
    BY <2>1, AppendIsConcat
  <2>4. QED BY <2>1, <2>2, <2>3
<1>2. FlattenSeq(ss \o Append(front, last)) = FlattenSeq(ss \o front) \o last
  BY <1>1, FlattenAppend, ConcatProperties
<1>3. FlattenSeq(Append(front, last)) = FlattenSeq(front) \o last
  BY FlattenAppend
<1>4. FlattenSeq(ss) \in Seq(T) /\ FlattenSeq(front) \in Seq(T) /\ last \in Seq(T)
  BY FlattenType
<1>5. (FlattenSeq(ss) \o FlattenSeq(front)) \o last = FlattenSeq(ss) \o (FlattenSeq(front) \o last)
  BY ONLY <1>4, ConcatThree, SMTT(30)
<1>6. QED BY <1>2, <1>3, <1>5

LEMMA FlattenConcat ==
    ASSUME NEW T, NEW ss \in Seq(Seq(T)), NEW tt \in Seq(Seq(T))
    PROVE  FlattenSeq(ss \o tt) = FlattenSeq(ss) \o FlattenSeq(tt)
<1> DEFINE Joins(uu) == FlattenSeq(ss \o uu) = FlattenSeq(ss) \o FlattenSeq(uu)
           S == {n \in Nat : \A uu \in Seq(Seq(T)) : Len(uu) = n => Joins(uu)}
<1>1. 0 \in S
  <2> SUFFICES ASSUME NEW uu \in Seq(Seq(T)), Len(uu) = 0 PROVE Joins(uu)
    OBVIOUS
  <2>1. uu = <<>>
    BY EmptySeq
  <2>2. ss \o <<>> = ss /\ FlattenSeq(ss) \o <<>> = FlattenSeq(ss)
    BY ConcatEmptySeq, FlattenType
  <2>3. QED BY <2>1, <2>2, FlattenEmpty
<1>2. ASSUME NEW n \in Nat, n \in S PROVE n + 1 \in S
  <2> SUFFICES ASSUME NEW uu \in Seq(Seq(T)), Len(uu) = n + 1 PROVE Joins(uu)
    OBVIOUS
  <2>1. PICK front \in Seq(Seq(T)), last \in Seq(T) : uu = Append(front, last)
    <3>1. uu # <<>>
      BY EmptySeq
    <3>2. QED BY <3>1, SequenceEmptyOrAppend
  <2>2. Len(front) = n
    <3>1. Len(uu) = Len(front) + 1 /\ Len(front) \in Nat
      BY <2>1, AppendProperties, LenProperties
    <3>2. QED BY <3>1
  <2>3. Joins(front)
    BY <1>2, <2>2
  <2>4. QED BY <2>1, <2>3, FlattenConcatStep
<1>3. \A n \in Nat : n \in S
  <2> HIDE DEF S
  <2>1. QED BY <1>1, <1>2, SetInduction
<1>4. QED BY <1>3, LenProperties

LEMMA FlattenRange ==
    ASSUME NEW T, NEW ss \in Seq(Seq(T))
    PROVE  Range(FlattenSeq(ss)) = UNION {Range(ss[i]) : i \in DOMAIN ss}
<1> DEFINE Right(uu) == Range(FlattenSeq(uu)) = UNION {Range(uu[i]) : i \in DOMAIN uu}
           S == {n \in Nat : \A uu \in Seq(Seq(T)) : Len(uu) = n => Right(uu)}
<1>1. 0 \in S
  <2> SUFFICES ASSUME NEW uu \in Seq(Seq(T)), Len(uu) = 0 PROVE Right(uu)
    OBVIOUS
  <2>1. uu = <<>> /\ DOMAIN uu = {}
    BY EmptySeq, LenProperties
  <2>2. Range(<<>>) = {}
    BY DEF Range
  <2>3. QED BY <2>1, <2>2, FlattenEmpty
<1>2. ASSUME NEW n \in Nat, n \in S PROVE n + 1 \in S
  <2> SUFFICES ASSUME NEW uu \in Seq(Seq(T)), Len(uu) = n + 1 PROVE Right(uu)
    OBVIOUS
  <2>1. PICK front \in Seq(Seq(T)), last \in Seq(T) : uu = Append(front, last)
    <3>1. uu # <<>>
      BY EmptySeq
    <3>2. QED BY <3>1, SequenceEmptyOrAppend
  <2>2. /\ Len(uu) = Len(front) + 1 /\ Len(front) \in Nat
        /\ uu[Len(front) + 1] = last /\ \A i \in 1 .. Len(front) : uu[i] = front[i]
    BY <2>1, AppendProperties, LenProperties
  <2>3. Right(front)
    <3>1. Len(front) = n
      BY <2>2
    <3>2. QED BY <1>2, <3>1
  <2>4. Range(FlattenSeq(uu)) = Range(FlattenSeq(front)) \cup Range(last)
    <3>1. FlattenSeq(uu) = FlattenSeq(front) \o last
      BY <2>1, FlattenAppend
    <3>2. FlattenSeq(front) \in Seq(T)
      BY FlattenType
    <3>3. QED BY <3>1, <3>2, RangeConcatenation
  <2>5. DOMAIN uu = 1 .. Len(front) + 1 /\ DOMAIN front = 1 .. Len(front)
    BY <2>2, LenProperties
  <2>6. (UNION {Range(uu[i]) : i \in DOMAIN uu}) = (UNION {Range(front[i]) : i \in DOMAIN front}) \cup Range(last)
    <3>1. DOMAIN uu = DOMAIN front \cup {Len(front) + 1} /\ \A i \in DOMAIN front : uu[i] = front[i]
      BY <2>2, <2>5
    <3>2. \A x : x \in UNION {Range(uu[i]) : i \in DOMAIN uu} <=> \E i \in DOMAIN uu : x \in Range(uu[i])
      OBVIOUS
    <3>3. \A x : x \in UNION {Range(front[i]) : i \in DOMAIN front}
                    <=> \E i \in DOMAIN front : x \in Range(front[i])
      OBVIOUS
    <3>4. \A x : (\E i \in DOMAIN uu : x \in Range(uu[i]))
                    <=> (\E i \in DOMAIN front : x \in Range(front[i])) \/ x \in Range(last)
      BY <2>2, <3>1, Zenon
    <3>5. QED BY <3>2, <3>3, <3>4, Zenon
  <2>7. QED BY <2>3, <2>4, <2>6
<1>3. \A n \in Nat : n \in S
  <2> HIDE DEF S
  <2>1. QED BY <1>1, <1>2, SetInduction
<1>4. QED BY <1>3, LenProperties
-----------------------------------------------------------------------------
LEMMA LinesJoin == \A a, b, c \in Seq(Nat) : (a \o b) \o c = a \o (b \o c)
<1> DEFINE T == Nat
<1> HIDE DEF T
<1>1. \A a, b, c \in Seq(T) : (a \o b) \o c = a \o (b \o c)
  BY ConcatThree
<1>2. QED BY <1>1 DEF T

LEMMA ConcatIs ==
    ASSUME NEW T, NEW a, NEW b, a \in Seq(T), b \in Seq(T)
    PROVE  /\ a \o b \in Seq(T) /\ Len(a \o b) = Len(a) + Len(b)
           /\ \A i \in 1 .. Len(a) + Len(b) : (a \o b)[i] = IF i <= Len(a) THEN a[i] ELSE b[i - Len(a)]
BY ConcatProperties

LEMMA ConcatAppend ==
    ASSUME NEW T, NEW a, NEW b, NEW x, a \in Seq(T), b \in Seq(T), x \in T
    PROVE  a \o Append(b, x) = Append(a \o b, x)
<1>1. /\ Append(b, x) = b \o <<x>> /\ <<x>> \in Seq(T)
      /\ a \o b \in Seq(T)
  BY AppendIsConcat, ConcatProperties
<1>2. Append(a \o b, x) = (a \o b) \o <<x>>
  BY <1>1, AppendIsConcat
<1>3. (a \o b) \o <<x>> = a \o (b \o <<x>>)
  BY ONLY <1>1, a \in Seq(T), b \in Seq(T), ConcatThree
<1>4. QED BY <1>1, <1>2, <1>3

-----------------------------------------------------------------------------
(* The lines of several blocks, oldest first.                              *)
LineSeqs(bufs) == [i \in DOMAIN bufs |-> LinesIn(bufs[i])]

LEMMA LineSeqsType ==
    ASSUME NEW bufs \in Seq(BufferOrNull)
    PROVE  /\ LineSeqs(bufs) \in Seq(Seq(Nat)) /\ Len(LineSeqs(bufs)) = Len(bufs)
           /\ \A i \in 1 .. Len(bufs) : LineSeqs(bufs)[i] = LinesIn(bufs[i])
<1>1. DOMAIN bufs = 1 .. Len(bufs) /\ Len(bufs) \in Nat
  BY LenProperties
<1>2. \A i \in 1 .. Len(bufs) : LinesIn(bufs[i]) \in Seq(Nat)
  BY LinesType, ElementOfSeq
<1>3. QED BY <1>1, <1>2 DEF LineSeqs

LEMMA OrderedType ==
    ASSUME NEW bufs \in Seq(BufferOrNull)
    PROVE  LinesInOrder(bufs) \in Seq(Nat) /\ Range(LinesInOrder(bufs)) = LinesOf(bufs)
<1>1. LinesInOrder(bufs) = FlattenSeq(LineSeqs(bufs))
  BY DEF LinesInOrder, LineSeqs
<1>2. LineSeqs(bufs) \in Seq(Seq(Nat))
  BY LineSeqsType
<1>3. FlattenSeq(LineSeqs(bufs)) \in Seq(Nat)
  BY <1>2, FlattenType
<1>4. Range(FlattenSeq(LineSeqs(bufs))) = UNION {Range(LineSeqs(bufs)[i]) : i \in DOMAIN LineSeqs(bufs)}
  BY <1>2, FlattenRange
<1>5. \A i \in DOMAIN bufs : LineSeqs(bufs)[i] = LinesIn(bufs[i])
  BY DEF LineSeqs
<1>6. DOMAIN LineSeqs(bufs) = DOMAIN bufs
  BY DEF LineSeqs
<1>7. {Range(LineSeqs(bufs)[i]) : i \in DOMAIN LineSeqs(bufs)} = {Range(LinesIn(bufs[i])) : i \in DOMAIN bufs}
  BY <1>5, <1>6
<1>8. QED BY <1>1, <1>3, <1>4, <1>7 DEF LinesOf

LEMMA OrderedEmpty == LinesInOrder(<<>>) = <<>>
<1>1. [i \in DOMAIN <<>> |-> LinesIn(<<>>[i])] = <<>>
  BY EmptySeq
<1>2. QED BY <1>1, FlattenEmpty DEF LinesInOrder

LEMMA OrderedConcat ==
    ASSUME NEW older \in Seq(BufferOrNull), NEW newer \in Seq(BufferOrNull)
    PROVE  LinesInOrder(older \o newer) = LinesInOrder(older) \o LinesInOrder(newer)
<1> DEFINE a == LineSeqs(older)  b == LineSeqs(newer)  c == LineSeqs(older \o newer)
<1>1. /\ older \o newer \in Seq(BufferOrNull) /\ Len(older \o newer) = Len(older) + Len(newer)
      /\ Len(older) \in Nat /\ Len(newer) \in Nat
      /\ \A i \in 1 .. Len(older) + Len(newer) :
             (older \o newer)[i] = IF i <= Len(older) THEN older[i] ELSE newer[i - Len(older)]
  BY ConcatProperties, LenProperties
<1>2. /\ a \in Seq(Seq(Nat)) /\ Len(a) = Len(older)
      /\ \A i \in 1 .. Len(older) : a[i] = LinesIn(older[i])
      /\ b \in Seq(Seq(Nat)) /\ Len(b) = Len(newer)
      /\ \A i \in 1 .. Len(newer) : b[i] = LinesIn(newer[i])
  BY LineSeqsType
<1>3. /\ c \in Seq(Seq(Nat)) /\ Len(c) = Len(older) + Len(newer)
      /\ \A i \in 1 .. Len(older) + Len(newer) : c[i] = LinesIn((older \o newer)[i])
  BY <1>1, LineSeqsType
<1> HIDE DEF a, b, c
<1>4. /\ a \o b \in Seq(Seq(Nat)) /\ Len(a \o b) = Len(a) + Len(b)
      /\ \A i \in 1 .. Len(a) + Len(b) : (a \o b)[i] = IF i <= Len(a) THEN a[i] ELSE b[i - Len(a)]
  <2> DEFINE T == Seq(Nat)
  <2> HIDE DEF T
  <2>1. a \in Seq(T) /\ b \in Seq(T)
    BY <1>2 DEF T
  <2>2. /\ a \o b \in Seq(T) /\ Len(a \o b) = Len(a) + Len(b)
        /\ \A i \in 1 .. Len(a) + Len(b) : (a \o b)[i] = IF i <= Len(a) THEN a[i] ELSE b[i - Len(a)]
    BY <2>1, ConcatIs
  <2>3. QED BY <2>2 DEF T
<1>5. ASSUME NEW i \in 1 .. Len(older) + Len(newer) PROVE (a \o b)[i] = c[i]
  <2>1. CASE i <= Len(older)
    <3>1. i \in 1 .. Len(older)
      BY <1>1, <2>1
    <3>2. (a \o b)[i] = a[i] /\ (older \o newer)[i] = older[i]
      BY <1>1, <1>2, <1>4, <2>1
    <3>3. QED BY <1>2, <1>3, <3>1, <3>2
  <2>2. CASE ~ (i <= Len(older))
    <3>1. i - Len(older) \in 1 .. Len(newer)
      BY <1>1, <2>2
    <3>2. (a \o b)[i] = b[i - Len(older)] /\ (older \o newer)[i] = newer[i - Len(older)]
      BY <1>1, <1>2, <1>4, <2>2
    <3>3. QED BY <1>2, <1>3, <3>1, <3>2
  <2>3. QED BY <2>1, <2>2
<1>6. a \o b = c
  BY <1>2, <1>3, <1>4, <1>5, SeqEqual
<1>7. FlattenSeq(a \o b) = FlattenSeq(a) \o FlattenSeq(b)
  BY <1>2, FlattenConcat
<1>8. QED BY <1>6, <1>7 DEF LinesInOrder, LineSeqs, a, b, c

LEMMA OrderedOne == ASSUME NEW buf \in BufferOrNull PROVE LinesInOrder(<<buf>>) = LinesIn(buf)
<1>1. LineSeqs(<<buf>>) = <<LinesIn(buf)>>
  BY DEF LineSeqs
<1>2. LinesIn(buf) \in Seq(Nat)
  BY LinesType
<1>3. FlattenSeq(<<LinesIn(buf)>>) = LinesIn(buf)
  BY <1>2, FlattenOne
<1>4. QED BY <1>1, <1>3 DEF LinesInOrder, LineSeqs

LEMMA OrderedAppend ==
    ASSUME NEW bufs \in Seq(BufferOrNull), NEW buf \in BufferOrNull
    PROVE  LinesInOrder(Append(bufs, buf)) = LinesInOrder(bufs) \o LinesIn(buf)
<1>1. Append(bufs, buf) = bufs \o <<buf>> /\ <<buf>> \in Seq(BufferOrNull)
  BY AppendIsConcat
<1>2. QED BY <1>1, OrderedConcat, OrderedOne

-----------------------------------------------------------------------------
(* The queue: what is left of the round, then what has not been swapped.   *)
Rest(bufs, n) == LinesInOrder(SubSeq(bufs, n + 1, Len(bufs)))
Unswapped(bufs, buf) == LinesInOrder(bufs) \o LinesIn(buf)

LEMMA QueueParts ==
    ASSUME NEW bufs \in Seq(BufferOrNull), NEW n \in Nat,
           NEW vec \in Seq(BufferOrNull), NEW buf \in BufferOrNull
    PROVE  /\ Rest(bufs, n) \in Seq(Nat) /\ Unswapped(vec, buf) \in Seq(Nat)
           /\ LinesInOrder(SubSeq(bufs, n + 1, Len(bufs))) \o LinesInOrder(vec) \o LinesIn(buf)
                  = Rest(bufs, n) \o Unswapped(vec, buf)
<1>1. SubSeq(bufs, n + 1, Len(bufs)) \in Seq(BufferOrNull)
  <2>1. Len(bufs) \in Int /\ n + 1 \in Int /\ \A i \in n + 1 .. Len(bufs) : i \in 1 .. Len(bufs)
    BY LenProperties
  <2>2. \A i \in n + 1 .. Len(bufs) : bufs[i] \in BufferOrNull
    BY <2>1, ElementOfSeq
  <2>3. QED BY <2>1, <2>2, SubSeqProperties
<1>2. /\ Rest(bufs, n) \in Seq(Nat) /\ LinesInOrder(vec) \in Seq(Nat) /\ LinesIn(buf) \in Seq(Nat)
  BY <1>1, OrderedType, LinesType DEF Rest
<1>3. Unswapped(vec, buf) \in Seq(Nat)
  BY <1>2, ConcatProperties DEF Unswapped
<1>4. (Rest(bufs, n) \o LinesInOrder(vec)) \o LinesIn(buf)
          = Rest(bufs, n) \o (LinesInOrder(vec) \o LinesIn(buf))
  BY <1>2, LinesJoin
<1>5. QED BY <1>2, <1>3, <1>4 DEF Rest, Unswapped

\* The queue of a state, and that of the next one.
LEMMA QueueIs ==
    ASSUME TypeOK
    PROVE  /\ Rest(bufToWrite, done) \in Seq(Nat) /\ Unswapped(bufVec_, curBuf_) \in Seq(Nat)
           /\ pending = Rest(bufToWrite, done) \o Unswapped(bufVec_, curBuf_)
<1>1. /\ bufToWrite \in Seq(BufferOrNull) /\ done \in Nat
      /\ bufVec_ \in Seq(BufferOrNull) /\ curBuf_ \in BufferOrNull
  BY DEF TypeOK
<1>2. QED BY <1>1, QueueParts DEF pending

LEMMA NextQueueIs ==
    ASSUME TypeOK'
    PROVE  /\ Rest(bufToWrite', done') \in Seq(Nat) /\ Unswapped(bufVec_', curBuf_') \in Seq(Nat)
           /\ pending' = Rest(bufToWrite', done') \o Unswapped(bufVec_', curBuf_')
<1>1. /\ bufToWrite' \in Seq(BufferOrNull) /\ done' \in Nat
      /\ bufVec_' \in Seq(BufferOrNull) /\ curBuf_' \in BufferOrNull
  BY DEF TypeOK
<1>2. QED BY <1>1, QueueParts DEF pending

-----------------------------------------------------------------------------
(* Parts of a queue.                                                       *)
LEMMA JoinedIs ==
    ASSUME NEW a \in Seq(Nat), NEW b \in Seq(Nat)
    PROVE  /\ a \o b \in Seq(Nat) /\ Len(a \o b) = Len(a) + Len(b) /\ Len(a) \in Nat /\ Len(b) \in Nat
           /\ \A i \in 1 .. Len(a) : (a \o b)[i] = a[i]
           /\ \A i \in 1 .. Len(b) : (a \o b)[Len(a) + i] = b[i]
<1>1. Len(a) \in Nat /\ Len(b) \in Nat
  BY LenProperties
<1>2. /\ a \o b \in Seq(Nat) /\ Len(a \o b) = Len(a) + Len(b)
      /\ \A i \in 1 .. Len(a) + Len(b) : (a \o b)[i] = IF i <= Len(a) THEN a[i] ELSE b[i - Len(a)]
  BY ConcatProperties
<1>3. ASSUME NEW i \in 1 .. Len(a) PROVE (a \o b)[i] = a[i]
  BY <1>1, <1>2
<1>4. ASSUME NEW i \in 1 .. Len(b) PROVE (a \o b)[Len(a) + i] = b[i]
  <2>1. Len(a) + i \in 1 .. Len(a) + Len(b) /\ ~ (Len(a) + i <= Len(a)) /\ (Len(a) + i) - Len(a) = i
    BY <1>1
  <2>2. QED BY <1>2, <2>1
<1>5. QED BY <1>1, <1>2, <1>3, <1>4

LEMMA MiddlePart ==
    ASSUME NEW a \in Seq(Nat), NEW b \in Seq(Nat), NEW c \in Seq(Nat)
    PROVE  SubSeq((a \o b) \o c, Len(a) + 1, Len(a) + Len(b)) = b
<1> DEFINE q == (a \o b) \o c
           m == Len(a) + 1
           n == Len(a) + Len(b)
           s == SubSeq(q, m, n)
<1>1. Len(a) \in Nat /\ Len(b) \in Nat /\ a \o b \in Seq(Nat) /\ Len(a \o b) = Len(a) + Len(b)
  BY JoinedIs
<1>2. \A i \in 1 .. Len(b) : q[Len(a) + i] = b[i] /\ b[i] \in Nat
  <2>1. \A i \in 1 .. Len(b) : (a \o b)[Len(a) + i] = b[i] /\ b[i] \in Nat
    BY JoinedIs, ElementOfSeq
  <2>2. \A i \in 1 .. Len(a \o b) : q[i] = (a \o b)[i]
    BY <1>1, JoinedIs
  <2>3. \A i \in 1 .. Len(b) : Len(a) + i \in 1 .. Len(a \o b)
    BY <1>1
  <2> HIDE DEF q
  <2>4. QED BY <2>1, <2>2, <2>3
<1>3. m \in Int /\ n \in Int /\ n - m + 1 = Len(b) /\ (m <= n \/ Len(b) = 0)
  BY <1>1
<1>4. \A i \in m .. n : q[i] \in Nat
  <2>1. \A i \in m .. n : i - Len(a) \in 1 .. Len(b) /\ Len(a) + (i - Len(a)) = i
    BY <1>1
  <2> HIDE DEF q, m, n
  <2>2. QED BY <1>2, <2>1
<1>5. /\ s \in Seq(Nat) /\ Len(s) = IF m <= n THEN n - m + 1 ELSE 0
      /\ \A i \in 1 .. n - m + 1 : s[i] = q[m + i - 1]
  <2> HIDE DEF q, m, n
  <2>1. QED BY <1>3, <1>4, SubSeqProperties
<1>6. \A i \in 1 .. Len(b) : m + i - 1 = Len(a) + i
  BY <1>1
<1> HIDE DEF q, m, n, s
<1>7. Len(s) = Len(b) /\ \A i \in 1 .. Len(s) : s[i] = b[i]
  BY <1>1, <1>2, <1>3, <1>5, <1>6
<1>8. s = b
  BY <1>5, <1>7, SeqEqual
<1>9. QED BY <1>8 DEF s, q, m, n

LEMMA FirstPart ==
    ASSUME NEW a \in Seq(Nat), NEW b \in Seq(Nat)
    PROVE  SubSeq(a \o b, 1, Len(a)) = a
<1>1. <<>> \in Seq(Nat) /\ Len(<<>>) = 0 /\ <<>> \o a = a /\ Len(a) \in Nat
  BY EmptySeq, ConcatEmptySeq, LenProperties
<1>2. SubSeq((<<>> \o a) \o b, Len(<<>>) + 1, Len(<<>>) + Len(a)) = a
  BY <1>1, MiddlePart
<1>3. Len(<<>>) + 1 = 1 /\ Len(<<>>) + Len(a) = Len(a)
  BY <1>1
<1>4. QED BY <1>1, <1>2, <1>3

LEMMA LastPart ==
    ASSUME NEW a \in Seq(Nat), NEW b \in Seq(Nat)
    PROVE  SubSeq(a \o b, Len(a) + 1, Len(a \o b)) = b
<1>1. <<>> \in Seq(Nat) /\ a \o b \in Seq(Nat) /\ Len(a \o b) = Len(a) + Len(b)
  BY EmptySeq, JoinedIs
<1>2. (a \o b) \o <<>> = a \o b
  BY <1>1, ConcatEmptySeq
<1>3. SubSeq((a \o b) \o <<>>, Len(a) + 1, Len(a) + Len(b)) = b
  BY <1>1, MiddlePart
<1>4. QED BY <1>1, <1>2, <1>3

LEMMA LinesAppend ==
    ASSUME NEW a \in Seq(Nat), NEW b \in Seq(Nat), NEW line \in Nat
    PROVE  a \o Append(b, line) = Append(a \o b, line)
<1> DEFINE T == Nat
<1>1. a \in Seq(T) /\ b \in Seq(T) /\ line \in T
  OBVIOUS
<1> HIDE DEF T
<1>2. QED BY <1>1, ConcatAppend

-----------------------------------------------------------------------------
(* Besides the order of the lines, the refinement needs that spare blocks  *)
(* are empty (so that only a line as long as a block is refused), that     *)
(* lost lines have been taken, and that every queued block but one has     *)
(* been paid for with a line (so that a round is too long only when many   *)
(* lines are unwritten or lost).                                           *)
SparesEmpty == {nextBuf_, buf1, buf2} \subseteq {Null, EmptyBuffer}

LostKnown == lost \subseteq 0 .. count

Paid ==
    /\ Len(bufVec_) <= Len(Unswapped(bufVec_, curBuf_)) + Cardinality(lost)
    /\ backPc = "drop" => Len(bufToWrite) <= 1 + Len(Rest(bufToWrite, done)) + Cardinality(lost)

QInv == SparesEmpty /\ LostKnown /\ Paid

LEMMA LostFinite == ASSUME NEW n \in Nat, NEW l, l \subseteq 0 .. n
                    PROVE  IsFiniteSet(l) /\ Cardinality(l) \in Nat /\ n + 1 \notin l
<1>1. IsFiniteSet(0 .. n)
  BY FS_Interval
<1>2. IsFiniteSet(l)
  BY <1>1, FS_Subset
<1>3. QED BY <1>2, FS_CardinalityType

LEMMA PutLineIs ==
    ASSUME NEW buf, Usable(buf), NEW line \in Nat, NEW len \in Nat
    PROVE  LinesIn(PutLine(buf, line, len)) =
               IF avail(buf) > len THEN Append(LinesIn(buf), line) ELSE LinesIn(buf)
<1>1. buf # Null /\ Usable(PutLine(buf, line, len)) /\ PutLine(buf, line, len) # Null
  BY PutLineUsable, UsableNotNull
<1>2. CASE avail(buf) > len
  <2>1. PutLine(buf, line, len).lines = Append(buf.lines, line)
    BY <1>2 DEF PutLine
  <2>2. QED BY <1>1, <1>2, <2>1 DEF LinesIn
<1>3. CASE ~ (avail(buf) > len)
  BY <1>3 DEF PutLine
<1>4. QED BY <1>2, <1>3
-----------------------------------------------------------------------------
(* append() puts its line behind the others, or refuses it: only a line as *)
(* long as a block does not fit into an empty one.                         *)
Accepted == lost' = lost /\ Unswapped(bufVec_', curBuf_') = Append(Unswapped(bufVec_, curBuf_), count + 1)

Refused(len) ==
    /\ len >= BufSize
    /\ lost' = lost \cup {count + 1} /\ Unswapped(bufVec_', curBuf_') = Unswapped(bufVec_, curBuf_)

LEMMA FitsMoves ==
    ASSUME IInv, NEW len \in Nat, AppendFits(len)
    PROVE  Accepted /\ bufVec_' = bufVec_
<1>1. /\ Usable(curBuf_) /\ curBuf_ \in BufferOrNull /\ bufVec_ \in Seq(BufferOrNull) /\ count \in Nat
  BY UsableNotNull DEF IInv, TypeOK, SparesMatchBlocks
<1>2. /\ avail(curBuf_) > len /\ bufVec_' = bufVec_
      /\ curBuf_' = PutLine(curBuf_, count + 1, len) /\ lost' = lost
  <2>1. avail(curBuf_) \in Int
    BY <1>1, BufSizeAssumption DEF avail, Usable, Buffer
  <2>2. QED BY <2>1 DEF AppendFits, Stored
<1>3. LinesIn(curBuf_') = Append(LinesIn(curBuf_), count + 1)
  BY <1>1, <1>2, PutLineIs
<1>4. LinesInOrder(bufVec_) \in Seq(Nat) /\ LinesIn(curBuf_) \in Seq(Nat)
  BY <1>1, OrderedType, LinesType
<1>5. LinesInOrder(bufVec_) \o Append(LinesIn(curBuf_), count + 1)
          = Append(LinesInOrder(bufVec_) \o LinesIn(curBuf_), count + 1)
  <2>1. count + 1 \in Nat
    BY <1>1
  <2>2. QED BY <1>4, <2>1, LinesAppend
<1>6. QED BY <1>2, <1>3, <1>5 DEF Accepted, Unswapped

LEMMA RotatesMoves ==
    ASSUME IInv, SparesEmpty, NEW len \in Nat, AppendRotates(len)
    PROVE  (Accepted \/ Refused(len)) /\ bufVec_' = Append(bufVec_, curBuf_) /\ nextBuf_' = Null
<1> DEFINE put == PutLine(EmptyBuffer, count + 1, len)
           u == Unswapped(bufVec_, curBuf_)
<1>1. /\ curBuf_ \in BufferOrNull /\ bufVec_ \in Seq(BufferOrNull) /\ count \in Nat /\ count + 1 \in Nat
  BY DEF IInv, TypeOK
<1>2. (IF nextBuf_ # Null THEN nextBuf_ ELSE EmptyBuffer) = EmptyBuffer
  BY DEF SparesEmpty
<1>3. /\ bufVec_' = Append(bufVec_, curBuf_) /\ nextBuf_' = Null
      /\ curBuf_' = put
      /\ lost' = IF avail(EmptyBuffer) > len THEN lost ELSE lost \cup {count + 1}
  BY <1>2 DEF AppendRotates, Stored
<1>4. avail(EmptyBuffer) = BufSize /\ BufSize \in Nat
  BY BufSizeAssumption DEF avail, EmptyBuffer
<1>5. LinesIn(EmptyBuffer) = <<>>
  BY EmptyUsable, UsableNotNull DEF LinesIn, EmptyBuffer
<1>6. LinesIn(put) = IF avail(EmptyBuffer) > len THEN Append(<<>>, count + 1) ELSE <<>>
  BY <1>1, <1>5, EmptyUsable, PutLineIs
<1>7. u \in Seq(Nat) /\ LinesInOrder(Append(bufVec_, curBuf_)) = u
  <2>1. LinesInOrder(Append(bufVec_, curBuf_)) = u
    BY <1>1, OrderedAppend DEF Unswapped
  <2>2. Append(bufVec_, curBuf_) \in Seq(BufferOrNull)
    BY <1>1, AppendProperties
  <2>3. QED BY <2>1, <2>2, OrderedType
<1>8. Unswapped(bufVec_', curBuf_') = u \o LinesIn(put)
  BY <1>3, <1>7 DEF Unswapped
<1> HIDE DEF put, u
<1>9. CASE avail(EmptyBuffer) > len
  <2>1. lost' = lost /\ LinesIn(put) = Append(<<>>, count + 1)
    BY <1>3, <1>6, <1>9
  <2>2. <<>> \in Seq(Nat) /\ u \o <<>> = u
    BY <1>7, EmptySeq, ConcatEmptySeq
  <2>3. u \o Append(<<>>, count + 1) = Append(u \o <<>>, count + 1)
    BY <1>1, <1>7, <2>2, LinesAppend
  <2>4. QED BY <1>3, <1>8, <2>1, <2>2, <2>3 DEF Accepted, u
<1>10. CASE ~ (avail(EmptyBuffer) > len)
  <2>1. lost' = lost \cup {count + 1} /\ LinesIn(put) = <<>> /\ len >= BufSize
    BY <1>3, <1>4, <1>6, <1>10
  <2>2. u \o <<>> = u
    BY <1>7, ConcatEmptySeq
  <2>3. QED BY <1>3, <1>8, <2>1, <2>2 DEF Refused, u
<1>11. QED BY <1>3, <1>9, <1>10

LEMMA AppendMoves ==
    ASSUME IInv, SparesEmpty, NEW len \in LineLens, append(len)
    PROVE  /\ Accepted \/ Refused(len)
           /\ bufVec_' = bufVec_ \/ bufVec_' = Append(bufVec_, curBuf_)
           /\ nextBuf_' \in {nextBuf_, Null}
           /\ count' = count + 1
           /\ UNCHANGED <<backPc, buf1, buf2, bufToWrite, done, written>>
<1>1. len \in Nat
  BY LogAssumption
<1>2. curBuf_ # Null
  BY UsableNotNull DEF IInv, SparesMatchBlocks
<1>3. /\ count' = count + 1 /\ (AppendFits(len) \/ AppendRotates(len))
      /\ UNCHANGED <<backPc, buf1, buf2, bufToWrite, done, written>>
  BY <1>2 DEF append, locals
<1>4. CASE AppendFits(len)
  <2>1. nextBuf_' = nextBuf_
    BY <1>4 DEF AppendFits
  <2>2. QED BY <1>1, <1>3, <1>4, <2>1, FitsMoves
<1>5. CASE AppendRotates(len)
  BY <1>1, <1>3, <1>5, RotatesMoves
<1>6. QED BY <1>3, <1>4, <1>5

(* What that means for the queue, and for what its blocks were paid with.  *)
LEMMA AppendQueues ==
    ASSUME IInv, IInv', QInv, NEW len \in LineLens, append(len)
    PROVE  (Abstract!Accept \/ Abstract!Refuse) /\ QInv'
<1> DEFINE u == Unswapped(bufVec_, curBuf_)
           v == Unswapped(bufVec_', curBuf_')
           r == Rest(bufToWrite, done)
           s == Rest(bufToWrite', done')
<1>1. TypeOK /\ TypeOK' /\ SparesEmpty /\ LostKnown /\ count \in Nat
  BY DEF IInv, QInv, TypeOK
<1>2. /\ (lost' = lost /\ v = Append(u, count + 1))
             \/ (lost' = lost \cup {count + 1} /\ v = u /\ len >= BufSize)
      /\ bufVec_' = bufVec_ \/ bufVec_' = Append(bufVec_, curBuf_)
      /\ nextBuf_' \in {nextBuf_, Null}
      /\ count' = count + 1
      /\ UNCHANGED <<backPc, buf1, buf2, bufToWrite, done, written>>
  BY <1>1, AppendMoves DEF Accepted, Refused
<1>3. r \in Seq(Nat) /\ u \in Seq(Nat) /\ pending = r \o u
  BY <1>1, QueueIs
<1>4. s \in Seq(Nat) /\ v \in Seq(Nat) /\ pending' = s \o v
  BY <1>1, NextQueueIs
<1>5. s = r
  BY <1>2
<1>6. IsFiniteSet(lost) /\ Cardinality(lost) \in Nat /\ count + 1 \notin lost
  BY <1>1, LostFinite DEF LostKnown
<1>7. Cardinality(lost \cup {count + 1}) = Cardinality(lost) + 1
  BY <1>6, FS_AddElement
<1>8. /\ Len(u) \in Nat /\ Len(r) \in Nat /\ Len(Append(u, count + 1)) = Len(u) + 1
      /\ Len(bufVec_) \in Nat /\ Len(Append(bufVec_, curBuf_)) = Len(bufVec_) + 1
  <2>1. bufVec_ \in Seq(BufferOrNull) /\ curBuf_ \in BufferOrNull /\ count + 1 \in Nat
    BY <1>1 DEF TypeOK
  <2> HIDE DEF u, r
  <2>2. QED BY <1>3, <2>1, AppendProperties, LenProperties
<1>9. Paid = (/\ Len(bufVec_) <= Len(u) + Cardinality(lost)
              /\ backPc = "drop" => Len(bufToWrite) <= 1 + Len(r) + Cardinality(lost))
  BY DEF Paid
<1>10. Paid' = (/\ Len(bufVec_') <= Len(v) + Cardinality(lost')
                /\ backPc' = "drop" => Len(bufToWrite') <= 1 + Len(s) + Cardinality(lost'))
  BY DEF Paid
<1> HIDE DEF u, v, r, s
<1>11. Paid'
  <2>0. ASSUME NEW c \in Nat, NEW d \in Nat, NEW k \in Nat, NEW l \in Nat,
               (d = c /\ l = k + 1) \/ (d = c + 1 /\ l = k)
        PROVE  l + d = k + c + 1 /\ d >= c
    BY <2>0
  <2>1. /\ Len(v) + Cardinality(lost') = Len(u) + Cardinality(lost) + 1
        /\ Cardinality(lost') >= Cardinality(lost) /\ Cardinality(lost') \in Nat /\ Len(v) \in Nat
    <3>1. CASE lost' = lost /\ v = Append(u, count + 1)
      <4>1. /\ Cardinality(lost') = Cardinality(lost) /\ Len(v) = Len(u) + 1
            /\ Cardinality(lost') \in Nat /\ Len(v) \in Nat
        BY <1>6, <1>8, <3>1
      <4>2. QED BY <1>6, <1>8, <2>0, <4>1
    <3>2. CASE lost' = lost \cup {count + 1} /\ v = u
      <4>1. /\ Cardinality(lost') = Cardinality(lost) + 1 /\ Len(v) = Len(u)
            /\ Cardinality(lost') \in Nat /\ Len(v) \in Nat
        BY <1>6, <1>7, <1>8, <3>2
      <4>2. QED BY <1>6, <1>8, <2>0, <4>1
    <3>3. QED BY <1>2, <3>1, <3>2
  <2>3. Len(bufVec_') <= Len(bufVec_) + 1
    BY <1>2, <1>8
  <2>4. Len(bufVec_') <= Len(v) + Cardinality(lost')
    <3>1. Len(bufVec_') \in Nat
      BY <1>2, <1>8
    <3>2. Len(bufVec_) <= Len(u) + Cardinality(lost)
      BY <1>9 DEF QInv
    <3>3. ASSUME NEW a \in Nat, NEW b \in Nat, NEW x \in Nat, NEW y \in Nat, a <= x, b <= a + 1, y = x + 1
          PROVE  b <= y
      BY <3>3
    <3>4. Len(u) + Cardinality(lost) \in Nat /\ Len(v) + Cardinality(lost') \in Nat
      BY <1>6, <1>8, <2>1
    <3>5. QED BY <1>8, <2>1, <2>3, <3>1, <3>2, <3>3, <3>4
  <2>5. ASSUME backPc' = "drop" PROVE Len(bufToWrite') <= 1 + Len(s) + Cardinality(lost')
    <3>1. Paid /\ backPc = "drop" /\ bufToWrite' = bufToWrite
      BY <1>2, <2>5 DEF QInv
    <3>2. Len(bufToWrite) <= 1 + Len(r) + Cardinality(lost) /\ Len(bufToWrite) \in Nat
      <4>1. bufToWrite \in Seq(BufferOrNull)
        BY <1>1 DEF TypeOK
      <4>2. QED BY <1>9, <3>1, <4>1, LenProperties
    <3>3. QED BY <1>5, <1>6, <1>8, <2>1, <3>1, <3>2
  <2>6. QED BY <1>10, <2>4, <2>5
<1>12. SparesEmpty' /\ LostKnown'
  <2>1. SparesEmpty'
    BY <1>1, <1>2 DEF SparesEmpty
  <2>2. lost' \subseteq lost \cup {count + 1}
    BY <1>2
  <2>3. 0 .. count \subseteq 0 .. count + 1 /\ count + 1 \in 0 .. count + 1
    BY <1>1
  <2>4. QED BY <1>1, <1>2, <2>1, <2>2, <2>3 DEF LostKnown
<1>13. CASE lost' = lost /\ v = Append(u, count + 1)
  <2>1. count + 1 \in Nat
    BY <1>1
  <2>2. pending' = Append(pending, count + 1)
    BY <1>3, <1>4, <1>5, <1>13, <2>1, LinesAppend
  <2>3. Abstract!Accept
    BY <1>2, <1>13, <2>2 DEF Abstract!Accept
  <2>4. QED BY <1>11, <1>12, <2>3 DEF QInv
<1>14. CASE lost' = lost \cup {count + 1} /\ v = u /\ len >= BufSize
  <2>1. pending' = pending
    BY <1>3, <1>4, <1>5, <1>14
  <2>2. MayRefuse
    BY <1>14 DEF MayRefuse
  <2>3. Abstract!Refuse
    BY <1>2, <1>14, <2>1, <2>2 DEF Abstract!Refuse
  <2>4. QED BY <1>11, <1>12, <2>3 DEF QInv
<1>15. QED BY <1>2, <1>13, <1>14
-----------------------------------------------------------------------------
(* The steps of the background thread.                                     *)
LEMMA NothingLeft ==
    /\ Rest(<<>>, 0) = <<>>
    /\ \A bufs \in Seq(BufferOrNull) : Rest(bufs, Len(bufs)) = <<>> /\ Rest(bufs, 0) = LinesInOrder(bufs)
<1>1. ASSUME NEW bufs \in Seq(BufferOrNull) PROVE Rest(bufs, Len(bufs)) = <<>>
  <2>1. Len(bufs) \in Int /\ Len(bufs) + 1 \in Int /\ Len(bufs) < Len(bufs) + 1
    BY LenProperties
  <2>2. SubSeq(bufs, Len(bufs) + 1, Len(bufs)) = <<>>
    BY <2>1, SubSeqEmpty
  <2>3. QED BY <2>2, OrderedEmpty DEF Rest
<1>2. ASSUME NEW bufs \in Seq(BufferOrNull) PROVE Rest(bufs, 0) = LinesInOrder(bufs)
  <2>1. SubSeq(bufs, 1, Len(bufs)) = bufs /\ 0 + 1 = 1
    BY SubSeqFull
  <2>2. QED BY <2>1 DEF Rest
<1>3. <<>> \in Seq(BufferOrNull) /\ Len(<<>>) = 0
  BY EmptySeq
<1>4. QED BY <1>1, <1>2, <1>3

\* The exchange hides nothing and reveals nothing.
LEMMA SwapQueues ==
    ASSUME IInv, IInv', QInv, BackendSwap
    PROVE  pending' = pending /\ UNCHANGED <<count, written, lost>> /\ QInv'
<1> DEFINE u == Unswapped(bufVec_, curBuf_)
<1>1. /\ TypeOK /\ TypeOK' /\ Usable(buf1) /\ buf1 # Null /\ bufToWrite = <<>> /\ done = 0
  BY UsableNotNull DEF IInv, SparesMatchBlocks, BackendSwap
<1>2. /\ bufToWrite' = Append(bufVec_, curBuf_) /\ bufVec_' = <<>>
      /\ curBuf_' = buf1 /\ buf1' = Null
      /\ nextBuf_' \in {nextBuf_, buf2} /\ buf2' \in {Null, buf2}
      /\ UNCHANGED <<done, count, written, lost>>
  BY <1>1 DEF BackendSwap, Swap, history
<1>3. buf1 = EmptyBuffer /\ LinesIn(EmptyBuffer) = <<>>
  BY <1>1, EmptyUsable, UsableNotNull DEF QInv, SparesEmpty, LinesIn, EmptyBuffer
<1>4. bufVec_ \in Seq(BufferOrNull) /\ curBuf_ \in BufferOrNull /\ bufToWrite' \in Seq(BufferOrNull)
  BY <1>1 DEF TypeOK
<1>5. u \in Seq(Nat) /\ pending = Rest(bufToWrite, done) \o u /\ Rest(bufToWrite, done) = <<>>
  BY <1>1, QueueIs, NothingLeft
<1>6. Rest(bufToWrite', done') = u
  <2>1. Rest(bufToWrite', 0) = LinesInOrder(bufToWrite')
    BY <1>4, NothingLeft
  <2>2. LinesInOrder(bufToWrite') = u
    BY <1>2, <1>4, OrderedAppend DEF Unswapped
  <2>3. QED BY <1>1, <1>2, <2>1, <2>2
<1>7. Unswapped(bufVec_', curBuf_') = <<>>
  <2>1. <<>> \o <<>> = <<>>
    BY EmptySeq, ConcatEmptySeq
  <2>2. QED BY <1>2, <1>3, <2>1, OrderedEmpty DEF Unswapped
<1>8. pending' = u \o <<>>
  BY <1>1, <1>6, <1>7, NextQueueIs
<1> HIDE DEF u
<1>9. pending' = pending
  BY <1>5, <1>8, ConcatEmptySeq
<1>10. SparesEmpty' /\ LostKnown'
  BY <1>2 DEF QInv, SparesEmpty, LostKnown
<1>11. Paid'
  <2>1. count \in Nat /\ lost \subseteq 0 .. count
    BY <1>1 DEF TypeOK, QInv, LostKnown
  <2>2. Cardinality(lost) \in Nat /\ Len(u) \in Nat /\ Len(bufVec_) \in Nat
    BY <1>4, <1>5, <2>1, LostFinite, LenProperties
  <2>3. Len(bufVec_) <= Len(u) + Cardinality(lost)
    BY DEF QInv, Paid, u
  <2>4. Len(bufToWrite') = Len(bufVec_) + 1
    BY <1>2, <1>4, AppendProperties
  <2>5. Len(bufToWrite') <= 1 + Len(u) + Cardinality(lost)
    BY <2>2, <2>3, <2>4
  <2>6. Len(<<>>) = 0 /\ 0 <= 0 + Cardinality(lost)
    BY <2>2, EmptySeq
  <2>7. QED BY <1>2, <1>6, <1>7, <2>5, <2>6 DEF Paid
<1>12. QED BY <1>2, <1>9, <1>10, <1>11 DEF QInv

LEMMA BlocksKept ==
    ASSUME UNCHANGED <<curBuf_, bufVec_, bufToWrite, done, lost, count>>, SparesEmpty', QInv,
           backPc' = "drop" => backPc = "drop"
    PROVE  pending' = pending /\ QInv'
<1>1. pending' = pending
  BY DEF pending, LinesInOrder
<1>2. Paid' /\ LostKnown'
  BY DEF QInv, Paid, LostKnown, Rest, Unswapped
<1>3. QED BY <1>1, <1>2 DEF QInv

LEMMA ThreadsQueue ==
    ASSUME QInv,
           \/ Starter \/ Stopper \/ BackendBorn \/ BackendLoop \/ BackendWait
           \/ (\E t \in Waiters : Wakeup(t)) \/ UNCHANGED vars
    PROVE  pending' = pending /\ UNCHANGED <<count, written, lost>> /\ QInv'
<1>1. UNCHANGED <<curBuf_, bufVec_, bufToWrite, done, lost, count, written, nextBuf_>>
  BY DEF Starter, Stopper, StartFlag, StartThread, StartWait, StartReturn, StopFlag, StopNotify,
         BackendBorn, BackendLoop, BackendWait, Wakeup, vars, shared, locals, history
<1>2. \/ UNCHANGED <<buf1, buf2>>
      \/ buf1' = EmptyBuffer /\ buf2' = EmptyBuffer
  BY DEF Starter, Stopper, StartFlag, StartThread, StartWait, StartReturn, StopFlag, StopNotify,
         BackendBorn, BackendLoop, BackendWait, Wakeup, vars, locals
<1>3. backPc' = "drop" => backPc = "drop"
  BY DEF Starter, Stopper, StartFlag, StartThread, StartWait, StartReturn, StopFlag, StopNotify,
         BackendBorn, BackendLoop, BackendWait, Wakeup, vars
<1>4. SparesEmpty'
  BY <1>1, <1>2 DEF QInv, SparesEmpty
<1>5. QED BY <1>1, <1>3, <1>4, BlocksKept

\* When the loop has ended nothing is left of the round.
LEMMA RecycleQueues ==
    ASSUME IInv, IInv', QInv, BackendRecycle
    PROVE  pending' = pending /\ UNCHANGED <<count, written, lost>> /\ QInv'
<1>1. /\ TypeOK /\ TypeOK' /\ bufToWrite \in Seq(BufferOrNull) /\ done = Len(bufToWrite)
      /\ bufToWrite' = <<>> /\ done' = 0 /\ backPc' = "loop"
      /\ buf1' \in {EmptyBuffer, buf1} /\ buf2' \in {EmptyBuffer, buf2}
      /\ UNCHANGED <<curBuf_, nextBuf_, bufVec_, count, written, lost>>
  BY DEF IInv, TypeOK, BackendRecycle, shared, history
<1>2. Rest(bufToWrite, done) = <<>> /\ Rest(bufToWrite', done') = <<>>
  BY <1>1, NothingLeft
<1>3. pending' = pending
  BY <1>1, <1>2, QueueIs, NextQueueIs
<1>4. Paid'
  BY <1>1 DEF QInv, Paid
<1>5. SparesEmpty' /\ LostKnown'
  BY <1>1 DEF QInv, SparesEmpty, LostKnown
<1>6. QED BY <1>1, <1>3, <1>4, <1>5 DEF QInv
-----------------------------------------------------------------------------
(* Writing a block takes its lines from the front of the queue; a block    *)
(* that holds none changes nothing.                                        *)
LEMMA WritesFront ==
    ASSUME NEW a \in Seq(Nat), NEW b \in Seq(Nat), a # <<>>,
           pending = a \o b, pending' = b, written' = written \o a, UNCHANGED <<count, lost>>
    PROVE  Abstract!Write
<1>1. Len(a) \in Nat \ {0} /\ Len(b) \in Nat /\ Len(a \o b) = Len(a) + Len(b)
  BY EmptySeq, JoinedIs
<1>2. SubSeq(pending, 1, Len(a)) = a /\ SubSeq(pending, Len(a) + 1, Len(pending)) = b
  BY FirstPart, LastPart
<1>3. Len(a) \in 1 .. Len(pending)
  <2>1. Len(pending) = Len(a) + Len(b)
    BY <1>1
  <2>2. QED BY <1>1, <2>1
<1>4. /\ written' = written \o SubSeq(pending, 1, Len(a))
      /\ pending' = SubSeq(pending, Len(a) + 1, Len(pending))
  BY <1>2
<1>5. QED BY <1>3, <1>4 DEF Abstract!Write

LEMMA RestIs ==
    ASSUME NEW bufs \in Seq(BufferOrNull), NEW n \in Nat, n < Len(bufs)
    PROVE  Rest(bufs, n) = LinesIn(bufs[n + 1]) \o Rest(bufs, n + 1)
<1> DEFINE tail == SubSeq(bufs, n + 2, Len(bufs))
<1>1. Len(bufs) \in Nat
  BY LenProperties
<1>2. n + 1 \in 1 .. Len(bufs) /\ Len(bufs) \in n + 1 .. Len(bufs) /\ (n + 1) + 1 = n + 2
  BY <1>1
<1>3. SubSeq(bufs, n + 1, Len(bufs)) = <<bufs[n + 1]>> \o tail
  BY <1>2, SubSeqRecursiveFirst
<1>4. bufs[n + 1] \in BufferOrNull
  BY <1>2, ElementOfSeq
<1>5. tail \in Seq(BufferOrNull)
  <2>1. \A i \in n + 2 .. Len(bufs) : bufs[i] \in BufferOrNull
    <3>1. \A i \in n + 2 .. Len(bufs) : i \in 1 .. Len(bufs)
      BY <1>1
    <3>2. QED BY <3>1, ElementOfSeq
  <2>2. n + 2 \in Int /\ Len(bufs) \in Int
    BY <1>1
  <2>3. QED BY <2>1, <2>2, SubSeqProperties
<1>6. <<bufs[n + 1]>> \in Seq(BufferOrNull)
  BY <1>4
<1> HIDE DEF tail
<1>7. LinesInOrder(<<bufs[n + 1]>> \o tail) = LinesIn(bufs[n + 1]) \o LinesInOrder(tail)
  BY <1>4, <1>5, <1>6, OrderedConcat, OrderedOne
<1>8. QED BY <1>2, <1>3, <1>7 DEF Rest, tail

LEMMA FlushQueues ==
    ASSUME IInv, IInv', QInv, BackendFlush
    PROVE  (Abstract!Write \/ UNCHANGED Abstract!vars) /\ QInv'
<1> DEFINE u == Unswapped(bufVec_, curBuf_)
           l == LinesIn(bufToWrite[done + 1])
           s == Rest(bufToWrite, done + 1)
<1>1. /\ TypeOK /\ TypeOK' /\ bufToWrite \in Seq(BufferOrNull) /\ done \in Nat /\ done < Len(bufToWrite)
      /\ written \in Seq(Nat) /\ written' = written \o l /\ done' = done + 1 /\ backPc' = "flush"
      /\ UNCHANGED <<curBuf_, nextBuf_, bufVec_, buf1, buf2, bufToWrite, count, lost>>
  BY DEF IInv, TypeOK, BackendFlush, shared
<1>2. Rest(bufToWrite, done) = l \o s
  BY <1>1, RestIs
<1>3. u \in Seq(Nat) /\ pending = (l \o s) \o u
  BY <1>1, <1>2, QueueIs
<1>4. s \in Seq(Nat) /\ pending' = s \o u
  BY <1>1, NextQueueIs
<1>5. l \in Seq(Nat)
  <2>1. Len(bufToWrite) \in Nat
    BY <1>1, LenProperties
  <2>2. done + 1 \in 1 .. Len(bufToWrite)
    BY <1>1, <2>1
  <2>3. bufToWrite[done + 1] \in BufferOrNull
    BY <1>1, <2>2, ElementOfSeq
  <2>4. QED BY <2>3, LinesType
<1>6. QInv'
  <2>1. Paid'
    BY <1>1 DEF QInv, Paid
  <2>2. SparesEmpty' /\ LostKnown'
    BY <1>1 DEF QInv, SparesEmpty, LostKnown
  <2>3. QED BY <2>1, <2>2 DEF QInv
<1>7. written' = written \o l /\ written \in Seq(Nat) /\ UNCHANGED <<count, lost>>
  BY <1>1
<1> HIDE DEF u, l, s
<1>8. pending = l \o (s \o u) /\ s \o u \in Seq(Nat)
  BY <1>3, <1>4, <1>5, LinesJoin, JoinedIs
<1>9. CASE l = <<>>
  <2>1. pending' = pending /\ written' = written
    BY <1>4, <1>7, <1>8, <1>9, ConcatEmptySeq
  <2>2. QED BY <1>6, <1>7, <2>1 DEF Abstract!vars
<1>10. CASE l # <<>>
  BY <1>4, <1>5, <1>6, <1>7, <1>8, <1>10, WritesFront
<1>11. QED BY <1>9, <1>10

-----------------------------------------------------------------------------
(* A round of more than DropLimit blocks sheds the lines of all but two.   *)
LEMMA ShedsMiddle ==
    ASSUME NEW a \in Seq(Nat), NEW b \in Seq(Nat), NEW c \in Seq(Nat), b # <<>>,
           pending = (a \o b) \o c, pending' = a \o c,
           lost' = lost \cup Range(b), UNCHANGED <<count, written>>,
           Len(pending) + Cardinality(lost) >= DropLimit
    PROVE  Abstract!Shed
<1> DEFINE m == Len(a) + 1
           n == Len(a) + Len(b)
<1>1. /\ Len(a) \in Nat /\ Len(b) \in Nat \ {0} /\ Len(c) \in Nat
      /\ a \o b \in Seq(Nat) /\ b \o c \in Seq(Nat) /\ Len(a \o b) = n
      /\ Len((a \o b) \o c) = n + Len(c)
  BY EmptySeq, JoinedIs
<1>2. Len(pending) = n + Len(c)
  BY <1>1
<1>3. m \in 1 .. Len(pending) /\ n \in m .. Len(pending) /\ m - 1 = Len(a)
  BY <1>1, <1>2
<1>4. SubSeq(pending, m, n) = b
  BY MiddlePart
<1>5. SubSeq(pending, 1, m - 1) = a
  <2>1. (a \o b) \o c = a \o (b \o c)
    BY LinesJoin
  <2>2. SubSeq(a \o (b \o c), 1, Len(a)) = a
    BY <1>1, FirstPart
  <2>3. QED BY <1>3, <2>1, <2>2
<1>6. SubSeq(pending, n + 1, Len(pending)) = c
  <2>1. SubSeq((a \o b) \o c, Len(a \o b) + 1, Len((a \o b) \o c)) = c
    BY <1>1, LastPart
  <2>2. QED BY <1>1, <2>1
<1>7. ToSet(SubSeq(pending, m, n)) = Range(b)
  BY <1>4 DEF ToSet, Range
<1> HIDE DEF m, n
<1>8. pending' = SubSeq(pending, 1, m - 1) \o SubSeq(pending, n + 1, Len(pending))
  BY <1>5, <1>6
<1>9. lost' = lost \cup ToSet(SubSeq(pending, m, n))
  BY <1>7
<1>10. Abstract!Cardinality(lost) = Cardinality(lost)
  BY DEF Abstract!Cardinality, Cardinality
<1>11. Abstract!ToSet(SubSeq(pending, m, n)) = ToSet(SubSeq(pending, m, n))
  BY DEF Abstract!ToSet, ToSet
<1>12. QED BY <1>3, <1>8, <1>9, <1>10, <1>11 DEF Abstract!Shed, Backlog

\* The blocks that a long round cuts off, by their lines.
LEMMA CutApart ==
    ASSUME NEW bufs \in Seq(BufferOrNull), NEW n \in Nat, InOrder(bufs, n), Len(bufs) > 2
    PROVE  LET cut == SubSeq(bufs, 1, 2)  off == SubSeq(bufs, 3, Len(bufs))
           IN  /\ cut \in Seq(BufferOrNull) /\ off \in Seq(BufferOrNull)
               /\ LinesInOrder(bufs) = LinesInOrder(cut) \o LinesInOrder(off)
               /\ LinesOf(bufs) \ LinesOf(cut) = Range(LinesInOrder(off))
               /\ LinesOf(bufs) \subseteq 0 .. n
<1> DEFINE cut == SubSeq(bufs, 1, 2)
           off == SubSeq(bufs, 3, Len(bufs))
<1>1. /\ DOMAIN bufs = 1 .. Len(bufs) /\ Len(bufs) \in Nat
      /\ \A k \in 1 .. Len(bufs) : bufs[k] \in BufferOrNull
  BY LenProperties, ElementOfSeq
<1>2. cut \in Seq(BufferOrNull) /\ Len(cut) = 2 /\ \A k \in 1 .. 2 : cut[k] = bufs[k]
  <2>1. \A k \in 1 .. 2 : bufs[k] \in BufferOrNull
    BY <1>1
  <2>2. QED BY <2>1, SubSeqProperties
<1>3. /\ off \in Seq(BufferOrNull) /\ Len(off) = Len(bufs) - 2
      /\ \A k \in 1 .. Len(bufs) - 2 : off[k] = bufs[k + 2]
  <2>1. /\ \A k \in 3 .. Len(bufs) : bufs[k] \in BufferOrNull
        /\ 3 <= Len(bufs) /\ Len(bufs) - 3 + 1 = Len(bufs) - 2
        /\ \A k \in 1 .. Len(bufs) - 2 : 3 + k - 1 = k + 2
    BY <1>1
  <2>2. /\ off \in Seq(BufferOrNull)
        /\ Len(off) = IF 3 <= Len(bufs) THEN Len(bufs) - 3 + 1 ELSE 0
        /\ \A k \in 1 .. Len(bufs) - 3 + 1 : off[k] = bufs[3 + k - 1]
    BY <1>1, <2>1, SubSeqProperties
  <2> HIDE DEF off
  <2>3. QED BY <2>1, <2>2
<1>4. bufs = cut \o off
  <2>1. 2 \in 1 - 1 .. Len(bufs) /\ 1 \in 1 .. Len(bufs) + 1 /\ Len(bufs) \in 2 .. Len(bufs) /\ 2 + 1 = 3
    BY <1>1
  <2>2. SubSeq(bufs, 1, 2) \o SubSeq(bufs, 2 + 1, Len(bufs)) = SubSeq(bufs, 1, Len(bufs))
    BY <2>1, ConcatAdjacentSubSeq
  <2>3. QED BY <2>1, <2>2, SubSeqFull
<1>5. DOMAIN cut = 1 .. 2 /\ DOMAIN off = 1 .. Len(bufs) - 2
  BY <1>2, <1>3, LenProperties
<1> HIDE DEF cut, off
<1>6. LinesInOrder(bufs) = LinesInOrder(cut) \o LinesInOrder(off)
  BY <1>2, <1>3, <1>4, OrderedConcat
<1>7. \A k \in 1 .. Len(bufs) : Lines(bufs[k]) \subseteq Nat
  BY <1>1, LinesAreNumbers
<1>8. LinesOf(bufs) \subseteq 0 .. n
  BY <1>1, <1>7 DEF LinesOf, Lines, InOrder
<1>9. LinesOf(bufs) = LinesOf(cut) \cup LinesOf(off)
  <2>1. LinesOf(bufs) = Range(LinesInOrder(bufs)) /\ LinesOf(cut) = Range(LinesInOrder(cut))
           /\ LinesOf(off) = Range(LinesInOrder(off))
    BY <1>2, <1>3, OrderedType
  <2>2. LinesInOrder(cut) \in Seq(Nat) /\ LinesInOrder(off) \in Seq(Nat)
    BY <1>2, <1>3, OrderedType
  <2>3. QED BY <1>6, <2>1, <2>2, RangeConcatenation
<1>10. ASSUME NEW i \in LinesOf(off), i \in LinesOf(cut) PROVE FALSE
  <2>1. PICK k \in 1 .. 2 : i \in Lines(bufs[k])
    BY <1>2, <1>5, <1>10 DEF LinesOf, Lines
  <2>2. PICK l \in 1 .. Len(bufs) - 2 : i \in Lines(bufs[l + 2])
    BY <1>3, <1>5 DEF LinesOf, Lines
  <2>3. k \in DOMAIN bufs /\ l + 2 \in DOMAIN bufs /\ k < l + 2
    BY <1>1
  <2>4. i < i /\ i \in Nat
    BY <1>1, <1>7, <2>1, <2>2, <2>3 DEF InOrder
  <2>5. QED BY <2>4
<1>11. LinesOf(bufs) \ LinesOf(cut) = Range(LinesInOrder(off))
  BY <1>3, <1>9, <1>10, OrderedType
<1>12. QED BY <1>2, <1>3, <1>6, <1>8, <1>11 DEF cut, off

LEMMA LostGrows ==
    ASSUME NEW n \in Nat, NEW few, NEW many, few \subseteq many, many \subseteq 0 .. n
    PROVE  Cardinality(few) <= Cardinality(many) /\ Cardinality(few) \in Nat /\ Cardinality(many) \in Nat
<1>1. IsFiniteSet(many) /\ few \subseteq 0 .. n
  BY LostFinite
<1>2. QED BY <1>1, LostFinite, FS_Subset
-----------------------------------------------------------------------------
LEMMA DropQueues ==
    ASSUME IInv, IInv', QInv, LineOrder, BackendDrop
    PROVE  (Abstract!Shed \/ UNCHANGED Abstract!vars) /\ QInv'
<1> DEFINE u == Unswapped(bufVec_, curBuf_)
           r == LinesInOrder(bufToWrite)
           s == LinesInOrder(bufToWrite')
<1>1. /\ TypeOK /\ TypeOK' /\ bufToWrite \in Seq(BufferOrNull) /\ bufToWrite' \in Seq(BufferOrNull)
      /\ done = 0 /\ done' = 0 /\ backPc = "drop" /\ backPc' = "flush" /\ count \in Nat
      /\ lost' = lost \cup (LinesOf(bufToWrite) \ LinesOf(bufToWrite'))
      /\ UNCHANGED <<curBuf_, nextBuf_, bufVec_, buf1, buf2, count, written>>
  BY DEF IInv, TypeOK, SparesMatchBlocks, BackendDrop, shared
<1>2. u \in Seq(Nat) /\ r \in Seq(Nat) /\ pending = r \o u
  BY <1>1, QueueIs, NothingLeft
<1>3. s \in Seq(Nat) /\ pending' = s \o u
  BY <1>1, NextQueueIs, NothingLeft
<1>4. InOrder(bufToWrite, count) /\ lost \subseteq 0 .. count /\ SparesEmpty'
  BY <1>1 DEF LineOrder, QInv, LostKnown, SparesEmpty
<1>5. ASSUME lost' \subseteq 0 .. count PROVE QInv'
  <2>1. LostKnown'
    BY <1>1, <1>5 DEF LostKnown
  <2>2. Cardinality(lost) <= Cardinality(lost') /\ Cardinality(lost) \in Nat /\ Cardinality(lost') \in Nat
    BY <1>1, <1>5, LostGrows
  <2>3. Len(bufVec_) <= Len(u) + Cardinality(lost)
    BY DEF QInv, Paid
  <2>4. Len(u) \in Nat /\ Len(bufVec_) \in Nat
    <3>1. bufVec_ \in Seq(BufferOrNull)
      BY <1>1 DEF TypeOK
    <3> HIDE DEF u
    <3>2. QED BY <1>2, <3>1, LenProperties
  <2>5. Len(bufVec_) <= Len(u) + Cardinality(lost')
    <3> HIDE DEF u
    <3>1. QED BY <2>2, <2>3, <2>4
  <2>6. Paid'
    BY <1>1, <2>5 DEF Paid
  <2>7. QED BY <1>4, <2>1, <2>6 DEF QInv
<1>6. CASE ~ (Len(bufToWrite) > DropLimit)
  <2>1. bufToWrite' = bufToWrite /\ lost' = lost
    BY <1>1, <1>6 DEF BackendDrop
  <2>2. pending' = pending
    BY <1>2, <1>3, <2>1
  <2>3. QED BY <1>1, <1>4, <1>5, <2>1, <2>2 DEF Abstract!vars
<1>7. CASE Len(bufToWrite) > DropLimit
  <2> DEFINE off == LinesInOrder(SubSeq(bufToWrite, 3, Len(bufToWrite)))
  <2>1. bufToWrite' = SubSeq(bufToWrite, 1, 2) /\ Len(bufToWrite) \in Nat /\ Len(bufToWrite) > 2
    <3>1. Len(bufToWrite) \in Nat
      BY <1>1, LenProperties
    <3>2. QED BY <1>7, <3>1, LogAssumption DEF BackendDrop
  <2>2. /\ r = s \o off
        /\ LinesOf(bufToWrite) \ LinesOf(bufToWrite') = Range(off)
        /\ LinesOf(bufToWrite) \subseteq 0 .. count
    BY <1>1, <1>4, <2>1, CutApart
  <2>3. off \in Seq(Nat)
    <3>1. SubSeq(bufToWrite, 3, Len(bufToWrite)) \in Seq(BufferOrNull)
      BY <1>1, <1>4, <2>1, CutApart
    <3>2. QED BY <3>1, OrderedType
  <2>4. lost' = lost \cup Range(off) /\ lost' \subseteq 0 .. count
    BY <1>1, <1>4, <2>2
  <2>5. Len(pending) + Cardinality(lost) >= DropLimit
    <3>1. Len(bufToWrite) <= 1 + Len(r) + Cardinality(lost)
      <4>1. Rest(bufToWrite, done) = r
        BY <1>1, NothingLeft
      <4>2. QED BY <1>1, <4>1 DEF QInv, Paid
    <3>2. Len(pending) = Len(r) + Len(u) /\ Len(r) \in Nat /\ Len(u) \in Nat
      <4> HIDE DEF r, u
      <4>1. QED BY <1>2, JoinedIs
    <3>3. Cardinality(lost) \in Nat /\ DropLimit \in Nat
      BY <1>1, <1>4, LostFinite, LogAssumption
    <3> HIDE DEF r, u
    <3>4. QED BY <1>7, <2>1, <3>1, <3>2, <3>3
  <2>6. QInv'
    BY <1>5, <2>4
  <2> HIDE DEF u, r, s, off
  <2>7. CASE off = <<>>
    <3>1. s \o off = s
      BY <1>3, <2>7, ConcatEmptySeq
    <3>2. Range(off) = {}
      BY <2>7 DEF Range
    <3>3. pending' = pending /\ lost' = lost
      BY <1>2, <1>3, <2>2, <2>4, <3>1, <3>2
    <3>4. QED BY <1>1, <2>6, <3>3 DEF Abstract!vars
  <2>8. CASE off # <<>>
    <3>1. pending = (s \o off) \o u /\ pending' = s \o u /\ UNCHANGED <<count, written>>
      BY <1>1, <1>2, <1>3, <2>2
    <3>2. Abstract!Shed
      BY <1>2, <1>3, <2>3, <2>4, <2>5, <2>8, <3>1, ShedsMiddle
    <3>3. QED BY <2>6, <3>2
  <2>9. QED BY <2>7, <2>8
<1>8. QED BY <1>6, <1>7

-----------------------------------------------------------------------------
LEMMA InitQueue == Init => QInv /\ Abstract!Init
<1> SUFFICES ASSUME Init PROVE QInv /\ Abstract!Init
  OBVIOUS
<1>1. /\ bufVec_ = <<>> /\ curBuf_ = EmptyBuffer /\ nextBuf_ = EmptyBuffer /\ count = 0
      /\ buf1 = Null /\ buf2 = Null /\ bufToWrite = <<>> /\ done = 0
      /\ written = <<>> /\ lost = {} /\ backPc = "none"
  BY DEF Init
<1>2. Rest(bufToWrite, done) = <<>>
  BY <1>1, NothingLeft
<1>3. Unswapped(bufVec_, curBuf_) = <<>>
  <2>1. LinesIn(EmptyBuffer) = <<>>
    BY EmptyUsable, UsableNotNull DEF LinesIn, EmptyBuffer
  <2>2. <<>> \o <<>> = <<>>
    BY EmptySeq, ConcatEmptySeq
  <2>3. QED BY <1>1, <2>1, <2>2, OrderedEmpty DEF Unswapped
<1>4. pending = <<>>
  <2>1. TypeOK
    BY InitIInv DEF IInv
  <2>2. <<>> \o <<>> = <<>>
    BY EmptySeq, ConcatEmptySeq
  <2>3. QED BY <1>2, <1>3, <2>1, <2>2, QueueIs
<1>5. Cardinality({}) = 0 /\ Len(<<>>) = 0
  BY FS_EmptySet, EmptySeq
<1>6. QInv
  BY <1>1, <1>3, <1>5 DEF QInv, SparesEmpty, LostKnown, Paid
<1>7. QED BY <1>1, <1>4, <1>6 DEF Abstract!Init

LEMMA NextQueue ==
    IInv /\ IInv' /\ LineOrder /\ QInv /\ [Next]_vars => QInv' /\ [Abstract!Next]_(Abstract!vars)
<1> SUFFICES ASSUME IInv, IInv', LineOrder, QInv, [Next]_vars
             PROVE  QInv' /\ (Abstract!Next \/ UNCHANGED Abstract!vars)
  OBVIOUS
<1> USE DEF Abstract!Next
<1>1. ASSUME pending' = pending, UNCHANGED <<count, written, lost>>, QInv'
      PROVE  QInv' /\ (Abstract!Next \/ UNCHANGED Abstract!vars)
  BY <1>1 DEF Abstract!vars
<1>2. CASE \E len \in LineLens : append(len)
  BY <1>2, AppendQueues
<1>3. CASE BackendSwap
  BY <1>1, <1>3, SwapQueues
<1>4. CASE BackendDrop
  BY <1>4, DropQueues
<1>5. CASE BackendFlush
  BY <1>5, FlushQueues
<1>6. CASE BackendRecycle
  BY <1>1, <1>6, RecycleQueues
<1>7. CASE \/ Starter \/ Stopper \/ BackendBorn \/ BackendLoop \/ BackendWait
           \/ (\E t \in Waiters : Wakeup(t)) \/ UNCHANGED vars
  BY <1>1, <1>7, ThreadsQueue
<1>8. QED BY <1>2, <1>3, <1>4, <1>5, <1>6, <1>7 DEF Next, Backend

(* Whatever threads append, however rounds and notifies fall and however   *)
(* many blocks pile up, the logger is the queue of lines of LogQueue.      *)
THEOREM RefinesQueue == Spec => ImplementsQueue
<1>1. QED BY InitQueue, NextQueue, Invariance, OrderInvariance, PTL DEF Spec, ImplementsQueue, Abstract!Spec
=============================================================================
