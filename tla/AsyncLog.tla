------------------------------ MODULE AsyncLog ------------------------------
(***************************************************************************)
(* Base/Log.h, class Logging: a logger with two spare blocks on each side. *)
(* Any number of threads call append(); a background thread (threadFunc)   *)
(* swaps the filled blocks out under the mutex and writes them without it. *)
(*                                                                         *)
(* Every access to curBuf_, nextBuf_ and bufVec_ happens inside a          *)
(* MutexGuard, so each critical section (up to a condition wait, which     *)
(* releases the mutex) is one action; module OwnedMutex models the mutex   *)
(* itself.  What runs outside the mutex (the reads and writes of running_, *)
(* the notify of stop(), the background thread's work on its own blocks)   *)
(* is an action per step.                                                  *)
(*                                                                         *)
(* A line is the number of the append() call that brought it: 1, 2, ... in *)
(* the order in which the calls took the mutex.                            *)
(***************************************************************************)
EXTENDS LogBuffer, Functions

CONSTANTS
    Null,           \* a moved-from or empty unique_ptr
    LineLens,       \* the lengths of the lines that callers append
    DropLimit,      \* 30: more blocks than this in one round is "Too much Log"
    MaxAppends,     \* bound: number of append() calls made in a behaviour
    EarlyAppends    \* do other threads log while start() is still running?

ASSUME LogAssumption ==
    /\ Null \notin Buffer
    /\ LineLens \subseteq Nat
    /\ DropLimit \in Nat \ {0, 1}
    /\ MaxAppends \in Nat
    /\ EarlyAppends \in BOOLEAN

VARIABLES
    running_,       \* std::atomic<bool>
    waitSet,        \* threads blocked in cond_
    startPc,        \* where the caller of start() is
    stopPc,         \* where the caller of stop() is
    backPc,         \* where threadFunc is
    curBuf_, nextBuf_, bufVec_,     \* shared, under mutex_
    buf1, buf2, bufToWrite,         \* locals of threadFunc
    done,           \* how many blocks of bufToWrite its loop has written
    count,          \* history: number of append() calls so far
    written,        \* history: lines written out, in order
    lost,           \* history: lines that were discarded
    fault           \* a null block was used, or back() taken of no block

shared == <<curBuf_, nextBuf_, bufVec_>>
locals == <<buf1, buf2, bufToWrite, done>>
history == <<count, written, lost>>
vars == <<running_, waitSet, startPc, stopPc, backPc, shared, locals, history, fault>>

Waiters == {"starter", "backend"}

Init ==
    /\ running_ = FALSE
    /\ waitSet = {}
    /\ startPc = "idle" /\ stopPc = "idle" /\ backPc = "none"
    /\ curBuf_ = EmptyBuffer /\ nextBuf_ = EmptyBuffer /\ bufVec_ = <<>>
    /\ buf1 = Null /\ buf2 = Null /\ bufToWrite = <<>> /\ done = 0
    /\ count = 0 /\ written = <<>> /\ lost = {}
    /\ fault = FALSE

-----------------------------------------------------------------------------
(* pthread_cond_signal wakes one of the waiting threads, if there is one.  *)
Notify ==
    IF waitSet = {} THEN UNCHANGED waitSet
    ELSE \E t \in waitSet : waitSet' = waitSet \ {t}

(* A wait also ends without a notify: spuriously, or, for the background   *)
(* thread's waitForSec(5), by its timeout.                                 *)
Wakeup(t) ==
    /\ t \in waitSet
    /\ waitSet' = waitSet \ {t}
    /\ UNCHANGED <<running_, startPc, stopPc, backPc, shared, locals, history, fault>>

-----------------------------------------------------------------------------
(* start(): set running_, create the thread, then wait to be notified by   *)
(* it.                                                                     *)
StartFlag ==
    /\ startPc = "idle"
    /\ running_' = TRUE
    /\ startPc' = "flagged"
    /\ UNCHANGED <<waitSet, stopPc, backPc, shared, locals, history, fault>>

StartThread ==
    /\ startPc = "flagged"
    /\ backPc' = "born"
    /\ startPc' = "created"
    /\ UNCHANGED <<running_, waitSet, stopPc, shared, locals, history, fault>>

StartWait ==
    /\ startPc = "created"
    /\ waitSet' = waitSet \cup {"starter"}
    /\ startPc' = "waiting"
    /\ UNCHANGED <<running_, stopPc, backPc, shared, locals, history, fault>>

StartReturn ==
    /\ startPc = "waiting" /\ "starter" \notin waitSet
    /\ startPc' = "returned"
    /\ UNCHANGED <<running_, waitSet, stopPc, backPc, shared, locals, history, fault>>

(* stop(): clear running_, then notify without holding the mutex.          *)
StopFlag ==
    /\ stopPc = "idle" /\ startPc = "returned"
    /\ running_' = FALSE
    /\ stopPc' = "flagged"
    /\ UNCHANGED <<waitSet, startPc, backPc, shared, locals, history, fault>>

StopNotify ==
    /\ stopPc = "flagged"
    /\ Notify
    /\ stopPc' = "returned"
    /\ UNCHANGED <<running_, startPc, backPc, shared, locals, history, fault>>

-----------------------------------------------------------------------------
(* append(line, len), called by any thread.                                *)
Stored(buf, len) ==
    /\ curBuf_' = PutLine(buf, count + 1, len)
    /\ lost' = IF avail(buf) > len THEN lost ELSE lost \cup {count + 1}

AppendFits(len) ==
    /\ len < avail(curBuf_)
    /\ Stored(curBuf_, len)
    /\ UNCHANGED <<waitSet, nextBuf_, bufVec_>>

\* mutations: the rotation does not notify; it queues the block only if
\* something is in it
RotatesSilently(len) ==
    /\ ~ (len < avail(curBuf_))
    /\ bufVec_' = Append(bufVec_, curBuf_)
    /\ Stored(IF nextBuf_ # Null THEN nextBuf_ ELSE EmptyBuffer, len)
    /\ nextBuf_' = Null
    /\ UNCHANGED waitSet

RotatesNonEmptyOnly(len) ==
    /\ ~ (len < avail(curBuf_))
    /\ bufVec_' = IF curBuf_.cur > 0 THEN Append(bufVec_, curBuf_) ELSE bufVec_
    /\ Stored(IF nextBuf_ # Null THEN nextBuf_ ELSE EmptyBuffer, len)
    /\ nextBuf_' = Null
    /\ Notify

AppendRotates(len) ==
    /\ ~ (len < avail(curBuf_))
    /\ bufVec_' = Append(bufVec_, curBuf_)
    /\ Stored(IF nextBuf_ # Null THEN nextBuf_ ELSE EmptyBuffer, len)
    /\ nextBuf_' = Null
    /\ Notify

append(len) ==
    /\ count < MaxAppends
    /\ EarlyAppends \/ startPc = "returned"
    /\ count' = count + 1
    /\ IF curBuf_ = Null
       THEN fault' = TRUE /\ UNCHANGED <<waitSet, shared, lost>>
       ELSE (AppendFits(len) \/ AppendRotates(len)) /\ UNCHANGED fault
    /\ UNCHANGED <<running_, startPc, stopPc, backPc, locals, written>>

-----------------------------------------------------------------------------
(* threadFunc(), the background thread.                                    *)
BackendBorn ==
    /\ backPc = "born"
    /\ Notify
    /\ buf1' = EmptyBuffer /\ buf2' = EmptyBuffer
    /\ backPc' = "loop"
    /\ UNCHANGED <<running_, startPc, stopPc, shared, bufToWrite, done, history, fault>>

\* mutation: running_ is never read
LoopsForever ==
    /\ backPc = "loop"
    /\ backPc' = "enter"
    /\ UNCHANGED <<running_, waitSet, startPc, stopPc, shared, locals, history, fault>>

BackendLoop ==
    /\ backPc = "loop"
    /\ backPc' = IF running_ THEN "enter" ELSE "exited"
    /\ UNCHANGED <<running_, waitSet, startPc, stopPc, shared, locals, history, fault>>

BackendWait ==
    /\ backPc = "enter" /\ bufVec_ = <<>>
    /\ waitSet' = waitSet \cup {"backend"}
    /\ backPc' = "waiting"
    /\ UNCHANGED <<running_, startPc, stopPc, shared, locals, history, fault>>

\* mutation: nextBuf_ is not replaced
SwapKeepsNext ==
    /\ bufToWrite' = Append(bufVec_, curBuf_)
    /\ bufVec_' = bufToWrite
    /\ curBuf_' = buf1
    /\ buf1' = Null
    /\ UNCHANGED <<nextBuf_, buf2>>

(* Under the mutex, with or without having waited: take all blocks, the    *)
(* partly filled one too, and leave fresh ones.                            *)
Swap ==
    /\ bufToWrite' = Append(bufVec_, curBuf_)
    /\ bufVec_' = bufToWrite
    /\ curBuf_' = buf1
    /\ buf1' = Null
    /\ nextBuf_' = IF nextBuf_ = Null THEN buf2 ELSE nextBuf_
    /\ buf2' = IF nextBuf_ = Null THEN Null ELSE buf2

\* mutation: the loop of lines 101-102, which waits until bufVec_ is not empty
SwapFullBlocksOnly ==
    /\ \/ backPc = "enter"
       \/ backPc = "waiting" /\ "backend" \notin waitSet
    /\ bufVec_ # <<>>
    /\ Swap
    /\ backPc' = "drop"
    /\ UNCHANGED <<running_, waitSet, startPc, stopPc, done, history, fault>>

BackendSwap ==
    /\ \/ backPc = "enter" /\ bufVec_ # <<>>
       \/ backPc = "waiting" /\ "backend" \notin waitSet
    /\ Swap
    /\ backPc' = "drop"
    /\ UNCHANGED <<running_, waitSet, startPc, stopPc, done, history, fault>>

(* More than DropLimit blocks: keep the two oldest, free the others.       *)
LinesIn(buf) == IF buf = Null THEN <<>> ELSE buf.lines

LinesOf(bufs) == UNION {Range(LinesIn(bufs[i])) : i \in DOMAIN bufs}

\* mutation: keep the two newest blocks
DropsOldest ==
    /\ backPc = "drop"
    /\ bufToWrite' = IF Len(bufToWrite) > DropLimit
                     THEN SubSeq(bufToWrite, Len(bufToWrite) - 1, Len(bufToWrite)) ELSE bufToWrite
    /\ lost' = lost \cup (LinesOf(bufToWrite) \ LinesOf(bufToWrite'))
    /\ backPc' = "flush"
    /\ UNCHANGED <<running_, waitSet, startPc, stopPc, shared, buf1, buf2, done, count, written, fault>>

BackendDrop ==
    /\ backPc = "drop"
    /\ bufToWrite' = IF Len(bufToWrite) > DropLimit THEN SubSeq(bufToWrite, 1, 2) ELSE bufToWrite
    /\ lost' = lost \cup (LinesOf(bufToWrite) \ LinesOf(bufToWrite'))
    /\ backPc' = "flush"
    /\ UNCHANGED <<running_, waitSet, startPc, stopPc, shared, buf1, buf2, done, count, written, fault>>

(* The loop over bufToWrite, one block per iteration.                      *)
BackendFlush ==
    /\ backPc = "flush" /\ done < Len(bufToWrite)
    /\ written' = written \o LinesIn(bufToWrite[done + 1])
    /\ fault' = (fault \/ bufToWrite[done + 1] = Null)
    /\ done' = done + 1
    /\ UNCHANGED <<running_, waitSet, startPc, stopPc, backPc, shared, buf1, buf2, bufToWrite, count, lost>>

\* mutation: init() is not called on the block that becomes buf1
RecyclesUncleared ==
    /\ backPc = "flush" /\ done = Len(bufToWrite)
    /\ buf1' = IF Len(bufToWrite) > 2 THEN bufToWrite[2] ELSE bufToWrite[Len(bufToWrite)]
    /\ buf2' = IF buf2 = Null THEN EmptyBuffer ELSE buf2
    /\ bufToWrite' = <<>>
    /\ done' = 0
    /\ backPc' = "loop"
    /\ UNCHANGED <<running_, waitSet, startPc, stopPc, shared, history, fault>>

(* The loop has ended.  Refill buf1 and buf2, those that were given away,  *)
(* from the back of what is left of bufToWrite after its resize(2).        *)
BackendRecycle ==
    /\ backPc = "flush" /\ done = Len(bufToWrite)
    /\ LET spare == IF Len(bufToWrite) > 2 THEN 2 ELSE Len(bufToWrite)
           need  == (IF buf1 = Null THEN 1 ELSE 0) + (IF buf2 = Null THEN 1 ELSE 0)
       IN  fault' = (fault \/ spare < need)
    /\ buf1' = IF buf1 = Null THEN EmptyBuffer ELSE buf1
    /\ buf2' = IF buf2 = Null THEN EmptyBuffer ELSE buf2
    /\ bufToWrite' = <<>>
    /\ done' = 0
    /\ backPc' = "loop"
    /\ UNCHANGED <<running_, waitSet, startPc, stopPc, shared, history>>

-----------------------------------------------------------------------------
Starter == StartFlag \/ StartThread \/ StartWait \/ StartReturn
Stopper == StopFlag \/ StopNotify
Backend ==
    \/ BackendBorn \/ BackendLoop \/ BackendWait \/ BackendSwap
    \/ BackendDrop \/ BackendFlush \/ BackendRecycle

Next ==
    \/ Starter
    \/ Stopper
    \/ Backend
    \/ \E len \in LineLens : append(len)
    \/ \E t \in Waiters : Wakeup(t)

Spec == Init /\ [][Next]_vars

(***************************************************************************)
(* Threads keep running, and the five-second wait of the background thread *)
(* ends.  Nobody has to call append() or stop(), and a wait without a      *)
(* timeout, the one in start(), need not end by itself.                    *)
(***************************************************************************)
Fairness ==
    /\ WF_vars(Starter)
    /\ WF_vars(StopNotify)
    /\ WF_vars(Backend)
    /\ WF_vars(Wakeup("backend"))

FairSpec == Spec /\ Fairness

-----------------------------------------------------------------------------
(* The types of the variables of Logging and of its threads' positions.    *)
BufferOrNull == Buffer \cup {Null}

TypeOK ==
    /\ running_ \in BOOLEAN
    /\ waitSet \subseteq Waiters
    /\ startPc \in {"idle", "flagged", "created", "waiting", "returned"}
    /\ stopPc \in {"idle", "flagged", "returned"}
    /\ backPc \in {"none", "born", "loop", "enter", "waiting", "drop", "flush", "exited"}
    /\ curBuf_ \in BufferOrNull /\ nextBuf_ \in BufferOrNull
    /\ bufVec_ \in Seq(BufferOrNull)
    /\ buf1 \in BufferOrNull /\ buf2 \in BufferOrNull
    /\ bufToWrite \in Seq(BufferOrNull) /\ done \in Nat
    /\ count \in Nat /\ written \in Seq(Nat) /\ lost \subseteq Nat
    /\ fault \in BOOLEAN

(* append() never uses a moved-away curBuf_, the writing loop meets no     *)
(* moved-away block, and threadFunc never takes back() of an empty         *)
(* bufToWrite when it refills buf1 and buf2 (Log.h:66, 125 and 138-151):   *)
(* there is no null check in front of any of them.                         *)
NoFault == ~ fault

(* Why NoFault holds.  A block is always there to append to; nextBuf_ is   *)
(* empty only after a rotation, which also queued a block; so a round that *)
(* gives buf2 away as well as buf1 has at least two blocks to refill them  *)
(* from.  No block is ever filled past its last byte.                      *)
Usable(buf) == buf \in Buffer /\ buf.cur < BufSize

SparesMatchBlocks ==
    /\ backPc = "none" <=> startPc \in {"idle", "flagged"}
    /\ Usable(curBuf_)
    /\ nextBuf_ = Null \/ Usable(nextBuf_)
    /\ nextBuf_ = Null => bufVec_ # <<>>
    /\ \A i \in DOMAIN bufVec_ : Usable(bufVec_[i])
    /\ \A i \in DOMAIN bufToWrite : Usable(bufToWrite[i])
    /\ backPc \in {"none", "born", "loop", "enter", "waiting", "exited"} =>
           bufToWrite = <<>> /\ done = 0
    /\ backPc \in {"loop", "enter", "waiting"} => Usable(buf1) /\ Usable(buf2)
    /\ backPc \in {"drop", "flush"} =>
           /\ buf1 = Null /\ bufToWrite # <<>>
           /\ buf2 = Null => Len(bufToWrite) >= 2
           /\ buf2 # Null => Usable(buf2)
           /\ done <= Len(bufToWrite)
    /\ backPc = "drop" => done = 0

(* When a round drops lines (Log.h:117-122) it drops the newest ones: a    *)
(* line lost in a step is younger than all that the round still writes.    *)
ShedsNewest ==
    [][\A i \in lost' \ lost : \A j \in LinesOf(bufToWrite') : j < i]_vars

(* A block that append() has filled is never left to the five-second       *)
(* timeout: the notify of that append() (Log.h:82) has woken threadFunc.   *)
FullBlockWakesBackend == bufVec_ # <<>> => "backend" \notin waitSet

(* While the logger runs, every line that append() took is written, or is  *)
(* dropped by a rule of the code, also if nobody logs again (the reason    *)
(* Log.h:107 gives for the unusual timed wait).                            *)
Settled(i) == i \in Range(written) \cup lost

EveryLineSettled ==
    \A i \in 1 .. MaxAppends : i <= count /\ running_ ~> Settled(i) \/ ~ running_

(* After stop() the background thread leaves its loop (Log.h:57-61, 97),   *)
(* whether or not the notify of stop() found it waiting.                   *)
BackendStops == stopPc = "flagged" ~> backPc = "exited"

(* start() returns (Log.h:47-55): logTest.cc logs after it has.            *)
StartReturns == startPc = "created" ~> startPc = "returned"

(* A line taken while the logger runs is written, a partly filled block    *)
(* included (the comment at Log.h:107), also if stop() is called next.     *)
LinesBeforeStopSettled ==
    \A i \in 1 .. MaxAppends : i <= count /\ running_ ~> Settled(i)
=============================================================================
