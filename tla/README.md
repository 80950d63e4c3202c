# netDesign in TLA+

netDesign is a prototype of a C++ network library on Linux: a mutex that knows
its owner, an asynchronous logger, a byte buffer, and a reactor with one thread
per event loop, each with its test programs. This directory models the library
and those of its programs that have a behaviour of their own in TLA+, checks
the models with TLC on small instances and proves the most important invariants
with TLAPS for every instance.

## Inventory of the code

| Part | Source | State | Operations | What makes it correct |
|---|---|---|---|---|
| LogBuffer | `Base/buffer.h` | a block and its cursor | `append`, `avail`, `init` | the cursor stays in the block; a line is stored whole or not at all |
| Logging | `Base/Log.h` | `running_`, two spare blocks and a list under a mutex; two blocks and a list private to the background thread | `start`, `stop`, `append`, `threadFunc` | no null block is used; lines are written once, in order; overload sheds only by the rule; everything ends |
| Mutex, MutexGuard, Condition | `Base/Mutex.h`, `Base/Condition.h` | the pthread mutex, `owner_`, the waiters | `lock`, `unlock`, `wait`, `waitForSec`, `notify`, `notifyAll`, `~Mutex` | `owner_` tells the truth, through a wait too |
| Buffer | `buffer/Buffer.h` | a vector and two indices | `append`, `prepend`, `retrieve*`, `preViewAsString`, `readFd`, `enlarge` | it is a byte queue; the window stays in the vector |
| Reactor | `demo/threadWIthEpoll.cc` | the loops, the turn `cur`, `connlist`, the epoll instances | `main`, `Acceptor::logic`, `registerLoop`, `EventLoop::loop`, `callback` | one thread one loop; even shares; no blocked loop; everything is read |
| Connection lifetime | `epollTest/threadWIthEpoll.cc` | who holds a `ConnectionPtr` | `main` clears and erases, `logic` sets up, the loops copy and call | the Connection outlives the call, and not for ever |
| bufferNetTest | `buffer/bufferNetTest.cc` | descriptor table, epoll instance, one Buffer | accept, ADD, read, close, DEL; `main` adds and modifies standard input | no connection is switched off; no call blocks; all bytes are read, in order |
| Start gate | `epollTest/client.cc` | a condition variable, the threads' counts | create, wait, broadcast, connect | who waits in time gets through |
| perSec | `timefdTest/perSec.cc` | a timer, the count | tick, accept | every connection is in one count; no tick is missed |
| timefd | `timefdTest/timefd.cc` | two timers | expire, read, print | no expiration is lost |
| epolltest | `epollTest/epolltest.cc` | one descriptor's event mask | read and write events, timeout | `read()` does not block; input is read |
| clients | `demo/client2.cc`, `epollTest/client2.cc`, `buffer/client.cc` | | connect, write, close | the environment of the servers |
| tests of the classes, single-call experiments | `Base/*Test.cc`, `buffer/bufferTest.cc`, `buffer/readvTest.cc`, `ptonTest/`, `epollTest/mapTest.cc`, `shared_ptr test/` | none | | no state of their own |

How they interact: `Logging` calls `Mutex` and `Condition`, fills `LogBuffer`s
and hands them from the callers' threads to its own; `bufferNetTest` reads into
a `Buffer`; in the reactor the acceptor's thread calls `epoll_ctl` on the
instance that another loop's thread waits on, and epoll returns a bare pointer
to the `Event` inside a `Connection` that `connlist` owns; `perSec` counts the
connections that the threads behind the start gate make.

What is hard in this code: one condition variable with two kinds of waiters and
no predicate in `start()`; a timed wait outside a loop; unsigned arithmetic on
the buffer's indices; callbacks, `shared_ptr`s and bare pointers to the same
object in different threads, without a lock; blocking calls in event loops;
descriptor numbers that are reused, or run out. `PROJECT.json` lists each hazard
at its line.

## Modules

| Module | What it is |
|---|---|
| `LogBuffer` | the block of the logger: operators, no state |
| `AsyncLog` | Logging, extends `LogBuffer` |
| `LogQueue`, `AsyncLogMC` | what a caller of Logging may rely on, a FIFO queue that may refuse or shed lines; the refinement mapping |
| `AsyncLogProofs` | theorems about `AsyncLog`, the refinement included |
| `OwnedMutex`, `OwnerLock`, `OwnedMutexProofs` | Mutex and Condition; a lock as one variable; theorems, the refinement included |
| `VectorBuffer`, `VectorBufferProofs` | the operations of Buffer: operators, no state; lemmas about them |
| `NetBuffer`, `ByteQueue`, `NetBufferProofs` | a Buffer in the hands of any caller; a queue of bytes; theorems, the refinement included |
| `Reactor`, `ReactorProofs` | the reactor of the demo; theorems |
| `ConnLifetime`, `ConnLifetimeProofs` | the lifetime experiment; theorems |
| `BufferNet`, `BufferNetProofs` | bufferNetTest, over the operators of `VectorBuffer`; theorems |
| `LoadTest` | perSec under the load of `epollTest/client.cc` |
| `TimerPrint` | timefd |
| `EpollToggle` | epolltest |
| `TestProgramsMC`, `TestProgramsProofs` | for TLC: a behaviour of `BufferNet`, `LoadTest`, `TimerPrint` or `EpollToggle`, chosen at the start; theorems about the last three and about the types of all |

Definitions keep the names of the code where TLA+ allows it. The four modules
of `TestProgramsMC` extend into one, so what each of them has (`Init`, `Next`,
the wait in epoll) carries a prefix. An operator introduced by a comment that
starts with "mutation" is a bug one could have made in the operation next to
it; no specification uses it.

### AsyncLog

One action per critical section: everything Logging shares is used inside a
`MutexGuard`, and `OwnedMutex` shows what that is worth, so a section up to a
condition wait is atomic, and so is the rest of it after the wait. What runs
outside the mutex is an action per step: the flag and the notify of `stop()`,
the check of `running_`, the drop, the writing of each block and the refill.
`waitSet` holds the threads blocked in `cond_`; `Notify` wakes any one of them,
`Wakeup` ends a wait without a notify (a spurious wakeup, or the five-second
timeout). A line is the number of its `append()` call; a block is its cursor and
its lines; `written` and `lost` are histories. `fault` records the use of a null
`unique_ptr` or `back()` of an empty vector. `EarlyAppends` says whether other
threads log while `start()` is still running; `logTest.cc` does not.

`LogQueue` sees `count`, `written`, `lost` and, as the queue, the lines of all
blocks not yet written, oldest first. A line that is as long as a block is
refused; a round of more than `DropLimit` blocks sheds lines, which `LogQueue`
allows only when `Backlog` lines are unwritten or lost.

### OwnedMutex

Each pthread call and each assignment to `owner_` is a step. Threads call the
operations in any legal order; `~Mutex` runs when all threads are out.

### VectorBuffer and NetBuffer

An operation is an operator from a buffer to the buffers it may leave behind.
Indices are `size_t`: sums and differences are taken modulo `Word`, so that the
wrap of `writable() + kreadIndex_ - kinitPreSize` and of `readv()`'s -1 happen
as in the code. `status` records how the operation ended: normally, by the
exception of `resize()`, by a write outside the vector or by an assert. The
compaction at `Buffer.h:67` is a `memcpy()` whose ranges overlap when the window
is longer than the way it moves. That is undefined: any set of the bytes in the
overlap may come out wrong (`Overlap`, `MovedWindow`). The history `intact` says
whether every compaction so far has come out as `memmove()` would have made it.
Bytes are numbered in the order they are handed in.

`NetBuffer` is called in any order, with any lengths, and `readv()` may fail.
The history `legal` says whether every call so far has been one that Buffer can
cope with: once `prepend()` has used the reserved bytes, `append()` must not add
more than fits until they are retrieved, and as the caller of `readFd()` cannot
know how much will come, it must have room for all that could; no `readv()` has
failed. `ByteQueue` promises a queue while `reliable` holds and nothing
afterwards; `PutThrows` is the exception of a vector that cannot grow, with
which the content is lost. Buffer implements it with `legal /\ buf.intact` for
`reliable`: legal calls are not enough. With `legal` alone TLC refutes the
refinement in four states (append 2 bytes, retrieve 1, and a `readFd()` of 3
moves a window of three bytes by one place). Nothing else rests on `intact`: the
window and the bounds of the vector are checked and proved whatever becomes of
the bytes.

### Reactor

`main()` registers the acceptor and starts the loops one by one. A loop waits
(`EpollWait` takes a batch of at most `MaxEvents`) and handles the batch in any
order; the acceptor's callback is two steps, because from `registerLoop()` on
the other loop's thread may run. The kernel's part is `Ready`: level-triggered
readiness and the queue of completed connections. A connection is known by its
client; the name `conn<fd>` is unique since no descriptor is ever closed.
`FdLimit` is the number of descriptors there are for connections; with none left
`AcceptFails` ends the server, as `addFd()` does.

### ConnLifetime

The acceptor's `logic()`, `main()` and the loop of each connection run without a
lock. `refs[c]` is the set of holders of a `ConnectionPtr` to connection `c`
(`connptr` in `logic()`, `connlist`, the Event's `_conn`, what its
`readCallback` has bound, the loop's copy, the argument of the call) and stands
for the use count: with nobody left the Connection is gone. `logic()` walks
through `connlist` and inserts, sets the callback and registers, a step each.
`main()` takes `begin()`, clears the Event member by member in the order of
their declaration, and takes `begin()` again to erase; `laterFirst` says which
name sorts first, so the second `begin()` may be another one. A loop copies the
callback in two steps (is there one; clone what it has bound), calls it and
gives the references back.

Undefined behaviour ends the run, and `ended` says which it was: `begin()` of an
empty map (`empty`), a map used while it changes (`map`, one outcome; the other
is that all goes well), the use count read through the node that was erased
(`freed`, likewise one of two outcomes), an Event that is gone (`event`), a copy
that meets the assignment (`race`). `exit` is the program's own `exit()`. A
client of `client2.cc` sends 5 bytes, so `callback()`'s 10 take two sends.

### BufferNet

`table` maps descriptor numbers to open files, and `accept()` takes the smallest
free number. `interest` is the epoll instance: its key is the file together with
the number, as in the kernel, and a registration goes when the last number of
the file is closed; with `tty`, standard input is the terminal that 1 and 2 are
open on as well, and its registration outlives `close(0)`; without, it is a pipe
(a regular file would be refused by epoll, which `EpollToggle` models). The thread handles a
batch in any order: accept and ADD, `readFd()` and the separator line of
`SeparatorLen` bytes (a step of `VectorBuffer`'s operators), or at the end of the stream `close()` and then, as
a step of its own, DEL of the number just closed. `main()` meanwhile adds number
0 and goes on setting its mask to EPOLLIN, whatever 0 has become. A number that
stands for nothing, or a connection that was reset, makes `readv()` fail and
with it the program (see `NetBufferReadError`). Nothing is ever taken out of the
Buffer, so enough input ends the program too, by the exception of a vector that
cannot grow; `StaysUp` says how much input that takes at least, with a separator
line for each read, however short. No compaction is ever made here: the window
begins where it would be moved to. `StdinAstray` names the situation after the end of a terminal has
been read: what is typed next is taken for an event of number 0's new owner;
several properties except it.

### LoadTest, TimerPrint, EpollToggle

`LoadTest` composes two programs on port 8832. `main()` of the client creates
its threads, with a `pthread_create()` that may fail, and broadcasts once; a
thread waits without a predicate, may be woken spuriously, and connects until
its count is reached, failures included. perSec accepts one connection per
event, counts it if `accept()` succeeded, and prints and resets the count on the
timer's event, both in any order in one batch.

`TimerPrint`: expirations add up until they are read, and the periodic timer,
which follows a clock that may be set, may expire several times at once.

`EpollToggle`: standard input is a terminal (always writable), a pipe (never) or
a file (cannot be registered); a timeout removes it for good, and a MOD
afterwards ends the program.

## Runs

| Run | What it shows | Bounds, and why they are enough |
|---|---|---|
| `AsyncLogSafety` | types, no fault, spares match blocks, overload sheds the newest lines only, refinement of `LogQueue` | blocks of 3 bytes and lines of 1, 2 and 3: two lines, one line and no line fit; `DropLimit` 3 with 6 lines: an overlong round and a round after it |
| `AsyncLogLive` | a full block wakes the background thread; each line is settled while the logger runs; `stop()` ends the thread | 4 lines, blocks that hold one or two: full blocks, a partly filled one at the end |
| `AsyncLogStartHangs` | violated: `start()` returns | no line is needed |
| `AsyncLogStopLosesLines` | violated: a line logged before `stop()` is settled | one line |
| `OwnedMutex` | owner, mutex and waiters agree; `owner_` is a lock | three threads: one inside, one waiting, one blocked |
| `NetBuffer` | for every caller the window stays in the vector; for legal calls no overrun, and Buffer is a byte queue until an overlapping `memcpy()` has spoilt a byte | a vector of 6 bytes with 2 reserved, 7 bytes handed in, lengths 1 to 3: growth, compaction with and without overlap, extrabuf, bytes prepended; a `size_t` of 5 bits, so that the vector also throws; failed reads |
| `NetBufferPrepend` | violated: no write outside the vector, for any caller | the same without failed reads, 6 bits |
| `NetBufferReadError` | violated: `readFd()` reports what `readv()` returned | the same with failed reads |
| `Reactor` | one loop per connection, even shares, no blocking, everything sent is read | 2 loops, descriptors for 2 connections (the turn comes round), a third client meets the full table, 2 messages and one per `read()` |
| `ConnLifetime` | the Connection lives during the call and is destroyed in the end; nobody else is, and the others are served | two connections, so that `begin()` changes while `main()` clears; each client sends once, as `client2.cc` does, and closes, before, during and after it |
| `ConnLifetimeDangling` | violated: epoll points to Events that exist | one connection |
| `TestPrograms` | bufferNetTest: whole chunks, every connection watched, no blocking call, ended by a failed read or a full vector only, all read, descriptors given back. perSec: every connection in one count and printed, nothing blocks, the gate opens. timefd: nothing lost. epolltest: `read()` does not block, input is read | two clients and standard input on a table of 3 numbers, one for the listening socket: the second client waits for a number and may get 0; a separator line of 5 bytes and a vector of 3 that overflows, grows and, with a `size_t` of 5 bits, throws beyond 15, so that `StaysUp` allows the exception from the second byte read on: TLC meets it then, and also runs in which all 3 bytes are read. Two threads of three connections each and 3 descriptors: the table gets full. Two expirations at once and five in all; 3 lines of input |

Every bound on a counter is a guard of the action that counts. `CHECK_DEADLOCK`
is off where the program really may stop or wait: `start()` may hang, clients
may be silent, an exception, an `exit()` or `~Mutex` ends a run. `TestPrograms`
has one run for four programs that share nothing: its `Init` picks one, and the
others stay at their start.

### Where the code and what is said of it disagree

* `start()` may never return: its wait has no predicate, and the thread's notify
  may come first (`Log.h:50-52, 90`; `logTest.cc:17`).
* Lines logged before `stop()` may never be written (`Log.h:97`, the comment at
  107). `stop()` does not join either (`Log.h:61`).
* `Buffer` after `prepend()`: compaction where growth is needed, by an unsigned
  wrap (`Buffer.h:44, 77`).
* `readFd()` takes `readv()`'s -1 for a count (`Buffer.h:132`;
  `bufferNetTest.cc:78`).
* The loop copies a callback out of an Event that is gone
  (`epollTest/threadWIthEpoll.cc:356-357`).
* Without a run of their own, as the code has no step that could be right or
  wrong: `enlarge()` calls `memcpy()` where the ranges may overlap
  (`Buffer.h:67`); the lifetime experiment reads a count from a map node that it
  has erased (`epollTest/threadWIthEpoll.cc:403`); the demo never closes a descriptor (`request.md:4`) and exits when it
  has no more (`request.md:11`); the count printed at line 399 of the lifetime
  experiment is 1 only if the loop has made no copy (the comment at 397).

### Fairness

Weak fairness only. `AsyncLog`: the threads of `start()`, `stop()` and the
background keep running (the scheduler runs every runnable thread), and the
background's timed wait ends (its timeout). Nobody has to call `append()` or
`stop()`; the wait in `start()` has no timeout and gets no fairness. `Reactor`:
`main()` and each loop keep running; clients need not. One condition for a loop
as a whole suffices since a loop never waits on events while it leaves some of a
batch, and the run's loops have no more sources than `MaxEvents`; with more,
epoll's own rotation would have to be assumed. `ConnLifetime`: `logic()`,
`main()` and each loop. `TestPrograms`: the thread of bufferNetTest and each of
the two calls of its `main()`; perSec's loop, the timer's tick, the client's
`main()` and each of its threads; the loops of timefd and epolltest. No client
of bufferNetTest, no typist, no spurious wakeup and no timeout of epolltest is
ever bound to happen.

## Proofs

All theorems are proved from the `ASSUME`s of the components' modules, which TLC
evaluates in the runs. They say what kind of values the constants have and,
beyond that: `DropLimit` is at least 2 (30 in the code; a round keeps two
blocks); extrabuf is at most a quarter of what a `size_t` counts and the initial
vector less than half (10240 and 1024 bytes in the code); the bytes handed to a
`NetBuffer` are a quarter of it at most, and so is the separator line; the
listening socket is not on number 0; and the loops of `ConnLifetime` are at most
three, as many as `Server(4)` has besides the acceptor's.

* `AsyncLogProofs`: `TypeCorrect`, `NeverFaults`, `MemoryDiscipline`. `NoFault`
  is not inductive: the refill takes two blocks from what a round collected, and
  that there are two follows from "`nextBuf_` is empty only after a rotation,
  which also queued a block". `SparesMatchBlocks` says so, position by position
  of the background thread, together with "every block in use has a free byte".
  `NewestAreShed`: lines increase along `bufVec_` and `curBuf_`, and along
  `bufToWrite` (`LineOrder`), so what a drop cuts off is younger than what it
  keeps. `FullBlockWakes` has the hypothesis that nobody logs before `start()`
  returns; then no rotation's notify can meet the waiter of `start()`.
  `RefinesQueue`: the logger implements `LogQueue`. `QInv` adds to the above
  that spare blocks are empty, so that only a line as long as a block is
  refused; that what is lost had been taken; and that every queued block but one
  has been paid for with a line unwritten or lost (`Paid`), from which follows
  the guard of `LogQueue`'s `Shed`. One lemma per step says what becomes of the
  queue. What they need about `FlattenSeq`, a recursive function, is shown by
  induction over a set of numbers (`SetInduction`, from the well-foundedness of
  `<`): that it exists, and what it makes of a concatenation.
* `OwnedMutexProofs`: `TypeCorrect`, `OwnerIsRight`, `NoExit` and the refinement
  `OwnerIsALock`. `AssignedUnderMutex` makes it inductive: whoever assigns
  `owner_` holds the pthread mutex, so nobody else is inside.
* `VectorBufferProofs`: two lemmas per operation of Buffer, on which the proofs
  of `NetBuffer` and `BufferNet` rest: any call leaves a good buffer good or
  ends the program, and a legal call leaves it good or throws; and what each
  call does to the content. The arithmetic modulo `Word` is reduced once, in
  `NoWrap` and `GoodSizes`.
* `NetBufferProofs`: `TypeCorrect`, `WindowInVector` and `NoOverrun`, for every
  caller and every failure of `readv()`. `RefinesByteQueue`: Buffer implements
  `ByteQueue`, call by call, as long as no overlapping `memcpy()` has spoilt a
  byte (`intact`; what was spoilt once stays so). The exception is the delicate step, as `ByteQueue`
  does not let it come early: the vector exceeds its initial size by no more
  than twice what was handed in (`Sized`), so it has room for a known number of
  bytes.
* `ReactorProofs`: `TypeCorrect`, `OneThreadOneLoop`, `NoCallbackBlocks`, for
  any number of loops and clients. The invariant adds that a client accepted is
  new to `connlist` (each is in the queue once and before) and that only loop 0
  has the acceptor; then an event in a batch can be taken by nobody else.
  `EvenlyShared`: after `q` rounds of turns each loop has `q` connections, and
  those before `cur` one more (`RoundsOf`).
* `ConnLifetimeProofs`: `CallKeepsAlive`, `ClearedAndErasedDie`. The invariant
  says who holds a Connection at each place: the copy while the loop has one,
  the Event until `main()` has cleared it, `connptr` until it is inserted and
  `connlist` until it is erased. `TypeCorrect` needs on top of it that what
  `main()` has found by `begin()` stays in `connlist` until it erases
  (`ListNotEmpty`): nobody else takes anything out of it.
* `BufferNetProofs`: `Watched` needs that `main()` has done its ADD, which asks
  for no event, before number 0 can become a connection's; that a number is
  closed when DEL names it; and that no connection is registered for nothing.
  `NoBlockingCall` needs on top of it that a file has one number, that epoll
  knows it under that number, and that no key is twice in a batch: so handling
  one event takes nothing away from the others. `ChunksStayIntact`: every byte
  read is in the buffer once, in its source's order, in a chunk that one
  separator line closes, whole. `EndsForAReason` counts: the buffer holds the
  bytes read and at most one separator line for each (`FewSeparators`, as no read
  that adds one brings less than a byte), its window never moves, and the vector
  exceeds its initial size by no more than twice the content (`Roomy`); hence the
  number of bytes before which it cannot throw, for a line of any length. The two
  are proved together (`KInv`).
* `TestProgramsProofs`: `CountedOnce`, `TickNeverMissed` (only perSec takes a
  connection or an expiration, each while it is in the batch); `ReadFindsInput`
  (EPOLLOUT is in epolltest's mask only while there is input);
  `ProgramsTypeCorrect`, for the four programs together.

Model-checked only: the liveness properties, which are out of the prover's
reach. Every invariant, step property and refinement that the passing runs check
is also a theorem.

## Not modelled

* The tests of the classes and the single-call experiments: callers without
  state of their own.
* The contents of printed text, the bytes of a line (a separator line is so many
  equal bytes, of a kind of their own), name lookup and addresses.
* Standard input of bufferNetTest redirected from a regular file, and its exits
  when the listening socket cannot be set up.
* `sprintf("conn%d")` into 10 bytes, and an `epoll_wait()` that is told that an
  array of 100 events has room for 188: more descriptors than TLC can
  enumerate, and a fixed constant of the call.
* EPOLLHUP and EPOLLERR without EPOLLIN, of which the programs take no notice.
* What follows undefined behaviour: the runs end there.
* The use of Logging's members by its thread after `stop()` has returned and the
  object has been destroyed: nothing in the repository destroys it.
* `bufVec_` of the logger grows without a limit of its own while the background
  thread does not run; the model's only bound is the number of `append()` calls.
