----------------------------- MODULE NetBuffer -----------------------------
(***************************************************************************)
(* A Buffer in the hands of any caller: the calls in any order, with any   *)
(* lengths, and a readv() that may fail.  The history legal says whether   *)
(* every call so far has been one that Buffer can cope with.               *)
(***************************************************************************)
EXTENDS VectorBuffer

CONSTANTS
    Lens,           \* the lengths that callers pass
    MaxBytes,       \* bound: number of bytes handed to the buffer
    ReadErrors      \* may readv() fail?

\* Nobody hands in a quarter of the address space.
ASSUME CallAssumption ==
    /\ Lens \subseteq Nat
    /\ MaxBytes \in Nat /\ MaxBytes <= Word \div 4
    /\ ReadErrors \in BOOLEAN

VARIABLES
    buf,            \* the Buffer, and how its last operation ended
    next,           \* history: number of the next byte handed in
    out,            \* history: the string the last call returned
    syscall,        \* history: what readv() returned in it, when it was readFd()
    ret,            \* history: what that readFd() returned
    legal           \* history: have all calls been careful, and no readv() failed?

vars == <<buf, next, out, syscall, ret, legal>>

Init ==
    /\ buf = EmptyBuffer
    /\ next = 1 /\ out = <<>>
    /\ syscall = 0 /\ ret = 0
    /\ legal = TRUE

-----------------------------------------------------------------------------
(* The calls.  The assert in prepend() states an obligation of its caller. *)
(* A careful caller, once it has prepended into the reserved bytes, adds   *)
(* no more than fits until it has retrieved them; as it cannot know what   *)
(* readFd() will bring, it reads only when all that could come would fit.  *)
CarefulCall(len) == buf.kreadIndex_ >= kinitPreSize \/ len <= writable(buf)

\* After this call the callers are as legal as before, if this one is careful.
Adds(len) == legal' = (legal /\ CarefulCall(len))

Fresh(n) == [i \in 1 .. n |-> next + i - 1]

\* A call other than readFd() returns the string s, or nothing.
Returns(s) == out' = s /\ syscall' = 0 /\ ret' = 0

Calls(n) == buf.status = "ok" /\ next + n <= MaxBytes + 1

CallAppend ==
    \E len \in Lens :
        /\ Calls(len) /\ Adds(len)
        /\ buf' \in append(buf, Fresh(len), len)
        /\ next' = next + len
        /\ Returns(<<>>)

CallPrepend ==
    \E len \in Lens :
        /\ Calls(len) /\ len <= prependable(buf)
        /\ buf' = prepend(buf, Fresh(len), len)
        /\ next' = next + len
        /\ Returns(<<>>) /\ UNCHANGED legal

CallRetrieve ==
    /\ Calls(0)
    /\ \E len \in Lens : buf' = retrieve(buf, len)
    /\ UNCHANGED <<next, legal>> /\ Returns(<<>>)

CallRetrieveAll ==
    /\ Calls(0)
    /\ buf' = retrieveAll(buf)
    /\ UNCHANGED <<next, legal>> /\ Returns(<<>>)

CallRetrieveAsString ==
    /\ Calls(0)
    /\ \E len \in Lens : Returns(preView(buf, len)) /\ buf' = retrieve(buf, len)
    /\ UNCHANGED <<next, legal>>

CallRetrieveAllAsString ==
    /\ Calls(0)
    /\ Returns(preView(buf, readable(buf)))
    /\ LET b == retrieve(buf, readable(buf))
       IN  buf' = IF readable(b) = 0 THEN b ELSE [b EXCEPT !.status = "abort"]
    /\ UNCHANGED <<next, legal>>

CallPreViewAsString ==
    /\ Calls(0)
    /\ \E len \in Lens : Returns(preView(buf, len))
    /\ UNCHANGED <<buf, next, legal>>

\* readv() has returned n bytes; n = 0 at the end of the file.
CallReadFd ==
    \E n \in 0 .. MaxBytes :
        /\ Calls(n) /\ n <= MaxRead(buf) /\ Adds(MaxRead(buf))
        /\ buf' \in readFd(buf, Fresh(n), n)
        /\ next' = next + n
        /\ syscall' = n /\ ret' = IF buf'.status = "ok" THEN n ELSE 0
        /\ out' = <<>>

\* readv() has returned -1.
CallReadFdError ==
    /\ ReadErrors /\ Calls(0)
    /\ buf' \in readFd(buf, <<>>, Word - 1)
    /\ syscall' = -1 /\ ret' = IF buf'.status = "ok" THEN -1 ELSE 0
    /\ out' = <<>> /\ legal' = FALSE /\ UNCHANGED next

Next ==
    \/ CallAppend \/ CallPrepend \/ CallReadFd \/ CallReadFdError
    \/ CallRetrieve \/ CallRetrieveAll
    \/ CallRetrieveAsString \/ CallRetrieveAllAsString \/ CallPreViewAsString

Spec == Init /\ [][Next]_vars

-----------------------------------------------------------------------------
(* The types of the variables; an index is a size_t.                       *)
TypeOK ==
    /\ buf \in [buffer_: Seq(Nat), kreadIndex_: Nat, kwriteIndex_: Nat,
                status: {"ok", "throw", "overrun", "abort"}, intact: BOOLEAN]
    /\ next \in Nat \ {0} /\ out \in Seq(Nat)
    /\ syscall \in Int /\ ret \in Int /\ legal \in BOOLEAN

(* Whatever the callers do: the window lies in the vector (note.md:3), so  *)
(* none of the unsigned differences that readable() and writable() return  *)
(* has wrapped round.                                                      *)
Window ==
    buf.status = "ok" =>
        /\ buf.kreadIndex_ <= buf.kwriteIndex_
        /\ buf.kwriteIndex_ <= size(buf)
        /\ size(buf) <= MaxSize

(* No operation writes outside the vector, and no assert fails: after      *)
(* enlarge(), the bytes fit (Buffer.h:77).  The other end of a run is that *)
(* the vector cannot grow.                                                 *)
AssertsHold == buf.status \in {"ok", "throw"}

(* ... as long as the calls are legal.                                     *)
NeverOverruns == legal => AssertsHold

(* readFd() returns what readv() did, -1 for an error included, as its     *)
(* caller expects (bufferNetTest.cc:72-83).                                *)
ReadErrorIsReported == syscall = ret

content == IF buf.status = "ok" THEN window(buf) ELSE <<>>

\* Only memmove() would promise the bytes that enlarge() copies over themselves.
reliable == legal /\ buf.intact

Abstract == INSTANCE ByteQueue
    WITH Bytes <- MaxBytes, Safe <- (MaxSize - kinitSize) \div 2

(* As long as the calls are legal, and the memcpy() of Buffer.h:67 has     *)
(* copied every overlapping range as memmove() would have, the window      *)
(* holds the bytes handed in and not yet taken, in order, and the strings  *)
(* handed out are its first bytes: through every growth, compaction and    *)
(* overflow of readFd() into extrabuf.  The condition on memcpy() is one   *)
(* that the code does not meet by itself: legal calls reach the overlap.   *)
ImplementsByteQueue == Abstract!Spec
=============================================================================
