------------------------- MODULE ConnLifetimeProofs -------------------------
(***************************************************************************)
(* For any number of sends: a Connection lives while its callback runs,    *)
(* and only the one that main() has cleared and erased is destroyed.       *)
(*                                                                         *)
(* OnlyClearedDie is not inductive: it needs to be known who holds a       *)
(* Connection at each place of logic() and main().                         *)
(***************************************************************************)
EXTENDS ConnLifetime, TLAPS

Typed ==
    /\ refs \in [Conns -> SUBSET Holders]
    /\ accPc \in {"wait", "accepted", "listing", "listed", "bound", "registered"}
    /\ conn \in 0 .. arrived /\ arrived \in 0 .. N /\ (accPc # "wait" => conn # 0)
    /\ mainPc \in {"sleep", "begun", "halfCleared", "cleared", "erased", "printed"}
    /\ loopPc \in [Conns -> {"none", "deaf", "wait", "event", "copying", "copied", "calling"}]
    /\ func \in [Conns -> {"none", "null", "set"}]

\* What the loop of c has copied holds c.
CopyHolds(c) ==
    /\ loopPc[c] = "copied" /\ func[c] = "set" => "func" \in refs[c]
    /\ loopPc[c] = "calling" => "argument" \in refs[c]

\* The Event holds c until main() has cleared it.
Cleared(c) == mainPc \in {"cleared", "erased", "printed"} /\ tmp = c
EventHolds(c) == c <= conn => "evConn" \in refs[c] \/ Cleared(c)

\* connlist holds c from its insertion on, connptr until then.
Listed(c) == c < conn \/ (c = conn /\ accPc \notin {"accepted", "listing"})
ListHolds(c) ==
    c <= conn => \/ ~ Listed(c) /\ "connptr" \in refs[c]
                 \/ Listed(c) /\ ("connlist" \in refs[c] \/ (mainPc \in {"erased", "printed"} /\ erased = c))

HoldersRight == \A c \in Conns : CopyHolds(c) /\ EventHolds(c) /\ ListHolds(c)

IInv == Typed /\ HoldersRight

-----------------------------------------------------------------------------
LEMMA InitIInv == Init => IInv
BY SizeAssumption DEF Init, IInv, Typed, HoldersRight, CopyHolds, EventHolds, ListHolds, Conns, Listed

(* Whom a step leaves with fewer holders.                                  *)
LEMMA DropRefs ==
    ASSUME Typed, NEW c, NEW holders, Drop(c, holders)
    PROVE  /\ refs' \in [Conns -> SUBSET Holders]
           /\ \A d \in Conns : refs'[d] = IF d = c THEN refs[d] \ holders ELSE refs[d]
BY DEF Typed, Drop

LEMMA TakeRefs ==
    ASSUME Typed, NEW c, NEW holders \in SUBSET Holders, Take(c, holders)
    PROVE  /\ refs' \in [Conns -> SUBSET Holders]
           /\ \A d \in Conns : refs'[d] = IF d = c THEN refs[d] \cup holders ELSE refs[d]
BY DEF Typed, Take

LEMMA TakeOne ==
    ASSUME Typed, NEW c \in Conns, NEW h \in Holders, Take(c, {h})
    PROVE  /\ refs' \in [Conns -> SUBSET Holders]
           /\ \A d \in Conns : refs[d] \subseteq refs'[d]
           /\ h \in refs'[c]
BY DEF Typed, Take

(* What clients do is none of the holders' business.                       *)
LEMMA ClientStep == ASSUME IInv, Client PROVE IInv'
<1>1. /\ UNCHANGED <<refs, noFd, accVars, mainVars, loopVars>>
      /\ arrived' \in 0 .. N /\ arrived <= arrived'
  BY SizeAssumption DEF Client, Connect, Send, Close, IInv, Typed
<1>2. QED
  BY <1>1, SizeAssumption
  DEF IInv, Typed, HoldersRight, CopyHolds, EventHolds, Cleared, ListHolds, Listed, accVars, mainVars, loopVars

-----------------------------------------------------------------------------
(* logic() only ever drops connptr, once connlist has its own.             *)
LEMMA AcceptStep == ASSUME IInv, Accept PROVE IInv'
<1>1. /\ conn' = conn + 1 /\ conn' \in Conns /\ accPc = "wait" /\ accPc' = "accepted"
      /\ UNCHANGED <<noFd, mainVars, loopVars, peerVars>>
      /\ Take(conn + 1, {"connptr", "evConn"})
  BY SizeAssumption DEF Accept, AcceptOne, IInv, Typed, Conns
<1>2. /\ refs' \in [Conns -> SUBSET Holders]
      /\ \A d \in Conns : refs'[d] = IF d = conn + 1 THEN refs[d] \cup {"connptr", "evConn"} ELSE refs[d]
  BY <1>1, TakeRefs DEF IInv, Holders
<1>3. Typed'
  BY <1>1, <1>2, SizeAssumption DEF IInv, Typed, Accept, mainVars, loopVars, peerVars, Conns
<1>4. ASSUME NEW c \in Conns PROVE CopyHolds(c)' /\ EventHolds(c)' /\ ListHolds(c)'
  <2>1. conn \in Nat /\ c \in Nat /\ (c <= conn' <=> c = conn + 1 \/ c <= conn)
    BY <1>1, SizeAssumption DEF IInv, Typed, Conns
  <2>2. CopyHolds(c)' /\ EventHolds(c)'
    BY <1>1, <1>2, <2>1 DEF IInv, HoldersRight, CopyHolds, EventHolds, Cleared, mainVars, loopVars
  <2>3. ListHolds(c)'
    BY <1>1, <1>2, <2>1 DEF IInv, HoldersRight, ListHolds, Listed, mainVars
  <2>4. QED BY <2>2, <2>3
<1>5. QED BY <1>3, <1>4 DEF IInv, HoldersRight

LEMMA LogicStep == ASSUME IInv, logic PROVE IInv'
<1> USE DEF IInv, Typed, HoldersRight, CopyHolds, EventHolds, Cleared, ListHolds, Listed,
            mainVars, loopVars, peerVars
<1>1. CASE Accept
  BY <1>1, AcceptStep DEF IInv
<1>2. CASE ListBegins
  BY <1>2 DEF ListBegins
<1>3. CASE ListEnds
  <2>1. \A d \in Conns : refs'[d] = IF d = conn THEN refs[d] \cup {"connlist"} ELSE refs[d]
    <3>1. refs \in [Conns -> SUBSET Holders] /\ Take(conn, {"connlist"})
      BY <1>3 DEF ListEnds
    <3>2. {"connlist"} \in SUBSET Holders /\ Typed
      BY DEF Holders
    <3> HIDE DEF IInv, Typed, HoldersRight, CopyHolds, EventHolds, Cleared, ListHolds, Listed
    <3>3. QED BY <3>1, <3>2, TakeRefs
  <2>2. refs' \in [Conns -> SUBSET Holders]
    BY <1>3, TakeRefs DEF ListEnds, Holders
  <2>3. accPc = "listing" /\ accPc' = "listed" /\ UNCHANGED <<noFd, conn, mainVars, loopVars, peerVars>>
    BY <1>3 DEF ListEnds
  <2>4. \A c \in Conns : CopyHolds(c)' /\ EventHolds(c)'
    BY <2>1, <2>3
  <2>5. \A c \in Conns : ListHolds(c)'
    BY <2>1, <2>3 DEF Conns
  <2>6. QED BY <2>2, <2>3, <2>4, <2>5
<1>4. CASE SetReadCallback
  <2>1. /\ refs' \in [Conns -> SUBSET Holders]
        /\ \A d \in Conns : refs[d] \subseteq refs'[d]
    <3>1. CASE "evConn" \in refs[conn]
      <4>1. "evCallback" \in Holders /\ Take(conn, {"evCallback"}) /\ conn \in Conns
        BY <1>4, <3>1, SizeAssumption DEF SetReadCallback, Holders, Conns
      <4>2. QED BY <4>1, TakeOne
    <3>2. CASE "evConn" \notin refs[conn]
      BY <1>4, <3>2 DEF SetReadCallback
    <3>3. QED BY <3>1, <3>2
  <2>2. accPc = "listed" /\ accPc' = "bound" /\ UNCHANGED <<noFd, conn, mainVars, loopVars, peerVars>>
    BY <1>4 DEF SetReadCallback
  <2>3. \A c \in Conns : CopyHolds(c)' /\ EventHolds(c)'
    BY <2>1, <2>2
  <2>4. \A c \in Conns : ListHolds(c)'
    BY <2>1, <2>2
  <2>5. QED BY <2>1, <2>2, <2>3, <2>4
<1>5. CASE registerLoop
  <2>1. /\ loopPc' \in [Conns -> {"none", "deaf", "wait", "event", "copying", "copied", "calling"}]
        /\ \A c \in Conns : loopPc'[c] \in {loopPc[c], "wait", "deaf"}
        /\ accPc = "bound" /\ accPc' = "registered" /\ UNCHANGED <<refs, conn, func, mainVars, peerVars>>
    BY <1>5 DEF registerLoop
  <2>2. QED BY <2>1
<1>6. CASE LogicReturns
  <2>1. /\ refs' \in [Conns -> SUBSET Holders]
        /\ \A d \in Conns : refs'[d] = IF d = conn THEN refs[d] \ {"connptr"} ELSE refs[d]
    BY <1>6, DropRefs DEF LogicReturns
  <2>2. accPc = "registered" /\ accPc' = "wait" /\ UNCHANGED <<noFd, conn, mainVars, loopVars, peerVars>>
    BY <1>6 DEF LogicReturns
  <2>3. \A c \in Conns : CopyHolds(c)' /\ EventHolds(c)'
    BY <2>1, <2>2
  <2>4. \A c \in Conns : ListHolds(c)'
    BY <2>1, <2>2
  <2>5. QED BY <2>1, <2>2, <2>3, <2>4
<1>7. QED BY <1>1, <1>2, <1>3, <1>4, <1>5, <1>6 DEF logic

-----------------------------------------------------------------------------
(* main() drops only what the Event and connlist hold.                     *)
LEMMA MainStep == ASSUME IInv, Main PROVE IInv'
<1> USE DEF IInv, Typed, HoldersRight, CopyHolds, EventHolds, Cleared, ListHolds, Listed,
            accVars, loopVars, peerVars
<1>1. CASE Begin
  <2>1. /\ mainPc = "sleep" /\ mainPc' = "begun"
        /\ UNCHANGED <<refs, noFd, accVars, erased, loopVars, peerVars>>
    BY <1>1 DEF Begin
  <2>2. QED BY <2>1
<1>2. CASE ClearCallback
  <2>1. /\ refs' \in [Conns -> SUBSET Holders]
        /\ \A d \in Conns : refs'[d] = IF d = tmp THEN refs[d] \ {"evCallback"} ELSE refs[d]
    BY <1>2, DropRefs DEF ClearCallback
  <2>2. /\ mainPc = "begun" /\ mainPc' = "halfCleared"
        /\ UNCHANGED <<noFd, accVars, tmp, erased, setUp, loopVars, peerVars>>
    BY <1>2 DEF ClearCallback
  <2>3. \A c \in Conns : CopyHolds(c)' /\ EventHolds(c)' /\ ListHolds(c)'
    BY <2>1, <2>2
  <2>4. QED BY <2>1, <2>2, <2>3
<1>3. CASE ClearFd
  BY <1>3 DEF ClearFd, mainVars
<1>4. CASE ClearConn
  <2>1. /\ refs' \in [Conns -> SUBSET Holders]
        /\ \A d \in Conns : refs'[d] = IF d = tmp THEN refs[d] \ {"evConn"} ELSE refs[d]
    BY <1>4, DropRefs DEF ClearConn
  <2>2. /\ mainPc = "halfCleared" /\ mainPc' = "cleared"
        /\ UNCHANGED <<noFd, accVars, tmp, erased, setUp, loopVars, peerVars>>
    BY <1>4 DEF ClearConn
  <2>3. \A c \in Conns : CopyHolds(c)' /\ EventHolds(c)' /\ ListHolds(c)'
    BY <2>1, <2>2
  <2>4. QED BY <2>1, <2>2, <2>3
<1>5. CASE Erase
  <2>1. /\ refs' \in [Conns -> SUBSET Holders]
        /\ \A d \in Conns : refs'[d] = IF d = erased' THEN refs[d] \ {"connlist"} ELSE refs[d]
    BY <1>5, DropRefs DEF Erase
  <2>2. /\ mainPc = "cleared" /\ mainPc' = "erased"
        /\ UNCHANGED <<noFd, accVars, tmp, setUp, loopVars, peerVars>>
    BY <1>5 DEF Erase
  <2>3. \A c \in Conns : CopyHolds(c)' /\ EventHolds(c)' /\ ListHolds(c)'
    BY <2>1, <2>2
  <2>4. QED BY <2>1, <2>2, <2>3
<1>6. CASE PrintCount
  <2>1. /\ UNCHANGED <<refs, noFd, accVars, tmp, erased, setUp, loopVars, peerVars>>
        /\ mainPc = "erased" /\ mainPc' = "printed"
    BY <1>6 DEF PrintCount
  <2>2. \A c \in Conns : CopyHolds(c)' /\ EventHolds(c)' /\ ListHolds(c)'
    BY <2>1
  <2>3. QED BY <2>1, <2>2
<1>7. QED BY <1>1, <1>2, <1>3, <1>4, <1>5, <1>6 DEF Main

-----------------------------------------------------------------------------
(* The loop drops what it has copied when the call is over.                *)
LEMMA LoopStep == ASSUME IInv, NEW c \in Conns, loop(c) PROVE IInv'
<1> USE DEF IInv, Typed, HoldersRight, CopyHolds, EventHolds, Cleared, ListHolds, Listed,
            accVars, mainVars, peerVars
<1>1. CASE EpollWait(c)
  <2>1. /\ loopPc' = [loopPc EXCEPT ![c] = "event"]
        /\ UNCHANGED <<refs, noFd, accVars, mainVars, func, peerVars>>
    BY <1>1 DEF EpollWait
  <2>2. \A d \in Conns : CopyHolds(d)'
    BY <2>1
  <2>3. QED BY <2>1, <2>2
<1>2. CASE CopyBegins(c)
  <2>1. /\ \/ UNCHANGED loopVars
           \/ /\ loopPc' = [loopPc EXCEPT ![c] = "copying"]
              /\ func' = [func EXCEPT ![c] = IF "evCallback" \in refs[c] THEN "set" ELSE "null"]
        /\ UNCHANGED <<refs, noFd, accVars, mainVars, peerVars>>
    BY <1>2 DEF CopyBegins
  <2>2. \A d \in Conns : CopyHolds(d)'
    BY <2>1 DEF loopVars
  <2>3. QED BY <2>1, <2>2 DEF loopVars
<1>3. CASE CopyEnds(c)
  <2>1. UNCHANGED <<noFd, accVars, mainVars, func, peerVars>>
    BY <1>3 DEF CopyEnds, CopyTo
  <2>2. CASE func[c] = "set" /\ "evCallback" \notin refs[c]
    BY <1>3, <2>1, <2>2 DEF CopyEnds, CopyTo
  <2>3. CASE func[c] = "set" => "evCallback" \in refs[c]
    <3>1. loopPc' = [loopPc EXCEPT ![c] = "copied"]
      BY <1>3, <2>3 DEF CopyEnds, CopyTo
    <3>2. /\ refs' \in [Conns -> SUBSET Holders]
          /\ \A d \in Conns : refs[d] \subseteq refs'[d]
          /\ func[c] = "set" => "func" \in refs'[c]
      <4>1. CASE func[c] = "set"
        <5>1. "func" \in Holders /\ Take(c, {"func"})
          BY <1>3, <2>3, <4>1 DEF CopyEnds, CopyTo, Holders
        <5>2. QED BY <5>1, TakeOne
      <4>2. CASE func[c] # "set"
        BY <1>3, <2>3, <4>2 DEF CopyEnds, CopyTo
      <4>3. QED BY <4>1, <4>2
    <3>3. \A d \in Conns : CopyHolds(d)'
      BY <2>1, <3>1, <3>2
    <3>4. \A d \in Conns : EventHolds(d)' /\ ListHolds(d)'
      BY <2>1, <3>2
    <3>5. QED BY <2>1, <3>1, <3>2, <3>3, <3>4
  <2>4. QED BY <2>2, <2>3
<1>4. CASE Call(c)
  <2>1. /\ loopPc' = [loopPc EXCEPT ![c] = "calling"]
        /\ UNCHANGED <<noFd, accVars, mainVars, func, peerVars>>
    BY <1>4 DEF Call
  <2>2. /\ refs' \in [Conns -> SUBSET Holders]
        /\ \A d \in Conns : refs[d] \subseteq refs'[d]
        /\ "argument" \in refs'[c]
    <3>1. "argument" \in Holders /\ Take(c, {"argument"})
      BY <1>4 DEF Call, Holders
    <3>2. QED BY <3>1, TakeOne
  <2>3. \A d \in Conns : CopyHolds(d)'
    BY <2>1, <2>2
  <2>4. \A d \in Conns : EventHolds(d)' /\ ListHolds(d)'
    BY <2>1, <2>2
  <2>5. QED BY <2>1, <2>2, <2>3, <2>4
<1>5. CASE ExitOnNull(c)
  BY <1>5 DEF ExitOnNull, loopVars
<1>6. CASE CallReturns(c)
  <2>1. /\ loopPc' = [loopPc EXCEPT ![c] = "wait"] /\ func' = [func EXCEPT ![c] = "none"]
        /\ UNCHANGED <<noFd, accVars, mainVars, arrived>>
    BY <1>6 DEF CallReturns
  <2>2. /\ refs' \in [Conns -> SUBSET Holders]
        /\ \A d \in Conns : refs'[d] = IF d = c THEN refs[d] \ {"func", "argument"} ELSE refs[d]
    BY <1>6, DropRefs DEF CallReturns
  <2>3. \A d \in Conns : CopyHolds(d)'
    BY <2>1, <2>2
  <2>4. \A d \in Conns : EventHolds(d)' /\ ListHolds(d)'
    BY <2>1, <2>2
  <2>5. QED BY <2>1, <2>2, <2>3, <2>4
<1>7. QED BY <1>1, <1>2, <1>3, <1>4, <1>5, <1>6 DEF loop

-----------------------------------------------------------------------------
LEMMA Invariance == Spec => []IInv
<1>1. IInv /\ [Next]_vars => IInv'
  <2>1. ASSUME IInv, UNCHANGED vars PROVE IInv'
    BY <2>1 DEF IInv, Typed, HoldersRight, CopyHolds, EventHolds, Cleared, ListHolds, Listed,
                vars, accVars, mainVars, loopVars, peerVars
  <2>2. QED BY <2>1, ClientStep, LogicStep, MainStep, LoopStep DEF Next, Step
<1>2. QED BY InitIInv, <1>1, PTL DEF Spec

(* The copy of the callback keeps the Connection for the length of the     *)
(* call (line 356), wherever main() and logic() are.                       *)
THEOREM CallKeepsAlive == Spec => []AliveDuringCall
<1>1. IInv => AliveDuringCall
  BY DEF IInv, HoldersRight, CopyHolds, AliveDuringCall, Alive
<1>2. QED BY Invariance, <1>1, PTL

(* A Connection that main() has not both cleared and erased owns itself,   *)
(* or connlist owns it (lines 396-402).                                    *)
THEOREM ClearedAndErasedDie == Spec => []OnlyClearedDie
<1>1. IInv => OnlyClearedDie
  BY DEF IInv, HoldersRight, EventHolds, Cleared, ListHolds, OnlyClearedDie, Alive
<1>2. QED BY Invariance, <1>1, PTL

-----------------------------------------------------------------------------
(* The other types.  What main() clears is a Connection, and one that is   *)
(* in connlist when main() takes its first element again (line 401): only  *)
(* the erasure itself takes one out.                                       *)
RestTyped ==
    /\ noFd \subseteq Conns /\ laterFirst \in BOOLEAN /\ setUp \in BOOLEAN
    /\ tmp \in 0 .. N /\ erased \in 0 .. N
    /\ unread \in [Conns -> 0 .. MaxSent] /\ sent \in [Conns -> 0 .. MaxSent]
    /\ \A c \in Conns : unread[c] <= sent[c]
    /\ closed \in [Conns -> BOOLEAN]
    /\ ended \in {"no", "exit", "empty", "map", "freed", "event", "race"}

ListNotEmpty ==
    Running /\ mainPc \in {"begun", "halfCleared", "cleared"} => tmp \in connlist

JInv == RestTyped /\ ListNotEmpty

LEMMA InitJInv == Init => JInv
<1> SUFFICES ASSUME Init PROVE JInv
  OBVIOUS
<1>1. 0 \in 0 .. N /\ 0 \in 0 .. MaxSent
  BY SizeAssumption
<1>2. unread = [c \in Conns |-> 0] /\ sent = [c \in Conns |-> 0] /\ closed = [c \in Conns |-> FALSE]
  BY DEF Init
<1>3. /\ unread \in [Conns -> 0 .. MaxSent] /\ sent \in [Conns -> 0 .. MaxSent]
      /\ \A c \in Conns : unread[c] <= sent[c]
      /\ closed \in [Conns -> BOOLEAN]
  BY <1>1, <1>2
<1>4. RestTyped
  BY <1>1, <1>3 DEF Init, RestTyped
<1>5. ListNotEmpty
  BY DEF Init, ListNotEmpty
<1>6. QED BY <1>4, <1>5 DEF JInv

(* The first of connlist is in it.                                         *)
LEMMA EndsOfList ==
    ASSUME NEW S, S \subseteq 1 .. 3, NEW e \in S
    PROVE  (\E x \in S : \A y \in S : x >= y) /\ (\E x \in S : \A y \in S : x <= y)
<1>1. e \in 1 .. 3 /\ \A y \in S : y = 1 \/ y = 2 \/ y = 3
  OBVIOUS
<1>2. \E x \in S : \A y \in S : x >= y
  <2>1. CASE 3 \in S
    BY <1>1, <2>1
  <2>2. CASE 3 \notin S /\ 2 \in S
    BY <1>1, <2>2
  <2>3. CASE 3 \notin S /\ 2 \notin S
    <3>1. \A y \in S : y = 1
      BY <1>1, <2>3
    <3>2. QED BY <3>1
  <2>4. QED BY <2>1, <2>2, <2>3
<1>3. \E x \in S : \A y \in S : x <= y
  <2>1. CASE 1 \in S
    BY <1>1, <2>1
  <2>2. CASE 1 \notin S /\ 2 \in S
    BY <1>1, <2>2
  <2>3. CASE 1 \notin S /\ 2 \notin S
    <3>1. \A y \in S : y = 3
      BY <1>1, <2>3
    <3>2. QED BY <3>1
  <2>4. QED BY <2>1, <2>2, <2>3
<1>4. QED BY <1>2, <1>3

LEMMA BeginInList == ASSUME connlist # {} PROVE begin \in connlist
<1>1. connlist \subseteq 1 .. 3
  BY SizeAssumption DEF connlist, Conns
<1>2. PICK e : e \in connlist
  OBVIOUS
<1>3. /\ \E x \in connlist : \A y \in connlist : x >= y
      /\ \E x \in connlist : \A y \in connlist : x <= y
  BY <1>1, <1>2, EndsOfList
<1>4. Max(connlist) \in connlist
  BY <1>3, Zenon DEF Max
<1>5. Min(connlist) \in connlist
  BY <1>3, Zenon DEF Min
<1>6. QED BY <1>4, <1>5 DEF begin

(* All other steps leave in connlist what is there.                        *)
LEMMA ListKept ==
    ASSUME Typed, NEW c, NEW holders, "connlist" \notin holders,
           Drop(c, holders) \/ (holders \subseteq Holders /\ Take(c, holders)) \/ UNCHANGED refs
    PROVE  \A d \in connlist : d \in connlist'
<1>1. \A d \in Conns : "connlist" \in refs[d] => "connlist" \in refs'[d]
  <2>1. CASE Drop(c, holders)
    <3>1. \A d \in Conns : refs'[d] = IF d = c THEN refs[d] \ holders ELSE refs[d]
      BY <2>1, DropRefs
    <3>2. QED BY <3>1
  <2>2. CASE holders \subseteq Holders /\ Take(c, holders)
    <3>1. holders \in SUBSET Holders
      BY <2>2
    <3>2. QED BY <2>2, <3>1, TakeRefs
  <2>3. CASE UNCHANGED refs
    BY <2>3
  <2>4. QED BY <2>1, <2>2, <2>3
<1>2. QED BY <1>1 DEF connlist

(* A step that keeps connlist, and leaves main() where it is or moves it   *)
(* on with the same Connection.                                            *)
LEMMA ListStep ==
    ASSUME JInv, Running, \A d \in connlist : d \in connlist', UNCHANGED tmp,
           mainPc' \in {"begun", "halfCleared", "cleared"} => mainPc \in {"begun", "halfCleared", "cleared"},
           RestTyped'
    PROVE  JInv'
BY DEF JInv, ListNotEmpty

LEMMA OthersKeepTypes ==
    ASSUME IInv, JInv, Running, UNCHANGED laterFirst,
           Client \/ logic \/ \E c \in Conns : loop(c)
    PROVE  JInv'
<1> USE DEF accVars, mainVars, loopVars, peerVars
<1>1. UNCHANGED <<noFd, mainPc, tmp, erased, setUp>> /\ ended' \in {ended, "exit", "event", "race"}
  BY DEF Client, Connect, Send, Close, logic, Accept, AcceptOne, ListBegins, ListEnds, SetReadCallback,
         registerLoop, LogicReturns, loop, EpollWait, CopyBegins, CopyEnds, CopyTo, Call, ExitOnNull, CallReturns
<1>2. /\ unread' \in [Conns -> 0 .. MaxSent] /\ sent' \in [Conns -> 0 .. MaxSent]
      /\ \A c \in Conns : unread'[c] <= sent'[c]
      /\ closed' \in [Conns -> BOOLEAN]
  <2>1. /\ unread \in [Conns -> 0 .. MaxSent] /\ sent \in [Conns -> 0 .. MaxSent]
        /\ \A c \in Conns : unread[c] <= sent[c]
        /\ closed \in [Conns -> BOOLEAN]
    BY DEF JInv, RestTyped
  <2>2. CASE \E c \in Conns : Send(c)
    <3>1. PICK c \in Conns : /\ sent[c] < MaxSent /\ closed' = closed
                             /\ sent' = [sent EXCEPT ![c] = @ + 1] /\ unread' = [unread EXCEPT ![c] = @ + 1]
      BY <2>2 DEF Send
    <3>2. sent[c] + 1 \in 0 .. MaxSent /\ unread[c] + 1 \in 0 .. MaxSent
      BY <2>1, <3>1, SizeAssumption
    <3>3. QED BY <2>1, <3>1, <3>2
  <2>3. CASE \E c \in Conns : CallReturns(c)
    BY <2>1, <2>3, SizeAssumption DEF CallReturns
  <2>4. CASE \E c \in Conns : Close(c)
    BY <2>1, <2>4 DEF Close
  <2>5. CASE UNCHANGED <<unread, sent, closed>>
    BY <2>1, <2>5
  <2>6. QED BY <2>2, <2>3, <2>4, <2>5
    DEF Client, Connect, logic, Accept, AcceptOne, ListBegins, ListEnds, SetReadCallback,
        registerLoop, LogicReturns, loop, EpollWait, CopyBegins, CopyEnds, CopyTo, Call, ExitOnNull
<1>3. RestTyped'
  BY <1>1, <1>2 DEF JInv, RestTyped
<1>4. \A d \in connlist : d \in connlist'
  <2>1. CASE UNCHANGED refs
    BY <2>1 DEF connlist
  <2>2. CASE Accept
    BY <2>2, ListKept DEF Accept, AcceptOne, Holders, IInv
  <2>3. CASE ListEnds
    <3>1. \A d \in Conns : refs'[d] = IF d = conn THEN refs[d] \cup {"connlist"} ELSE refs[d]
      BY <2>3, TakeRefs DEF ListEnds, Holders, IInv
    <3>2. QED BY <3>1 DEF connlist
  <2>4. CASE SetReadCallback
    BY <2>4, ListKept DEF SetReadCallback, Holders, IInv
  <2>5. CASE LogicReturns
    BY <2>5, ListKept DEF LogicReturns, IInv
  <2>6. CASE \E c \in Conns : CopyEnds(c) \/ Call(c) \/ CallReturns(c)
    <3>1. PICK c \in Conns : CopyEnds(c) \/ Call(c) \/ CallReturns(c)
      BY <2>6
    <3>2. CASE CopyEnds(c)
      <4>1. Take(c, {"func"}) \/ UNCHANGED refs
        BY <3>2 DEF CopyEnds, CopyTo
      <4>2. QED BY <4>1, ListKept DEF Holders, IInv
    <3>3. CASE Call(c)
      BY <3>3, ListKept DEF Call, Holders, IInv
    <3>4. CASE CallReturns(c)
      BY <3>4, ListKept DEF CallReturns, IInv
    <3>5. QED BY <3>1, <3>2, <3>3, <3>4
  <2>7. QED BY <2>1, <2>2, <2>3, <2>4, <2>5, <2>6
    DEF Client, Connect, Send, Close, logic, ListBegins, registerLoop, loop, EpollWait, CopyBegins, ExitOnNull
<1>5. QED BY <1>1, <1>3, <1>4, ListStep

LEMMA MainKeepsTypes == ASSUME IInv, JInv, Running, UNCHANGED laterFirst, Main PROVE JInv'
<1> USE DEF accVars, loopVars, peerVars
<1>1. connlist \subseteq Conns /\ Conns \subseteq 0 .. N
  BY SizeAssumption DEF connlist, Conns
<1>2. CASE Begin
  <2>1. /\ ended' \in {ended, "map", "empty"} /\ mainPc' = "begun"
        /\ UNCHANGED <<refs, noFd, erased, unread, sent, closed>>
    BY <1>2 DEF Begin, MapBreaks
  <2>2. CASE connlist = {}
    <3>1. ended' = "empty" /\ UNCHANGED <<tmp, setUp>>
      BY <1>2, <2>2 DEF Begin
    <3>2. QED BY <2>1, <3>1 DEF JInv, RestTyped, ListNotEmpty, Running
  <2>3. CASE connlist # {}
    <3>1. tmp' = begin /\ setUp' \in BOOLEAN
      BY <1>2, <2>3 DEF Begin
    <3>2. tmp' \in connlist /\ connlist' = connlist
      BY <2>1, <2>3, <3>1, BeginInList DEF connlist
    <3>3. QED BY <1>1, <2>1, <3>1, <3>2 DEF JInv, RestTyped, ListNotEmpty
  <2>4. QED BY <2>2, <2>3
<1>3. CASE ClearCallback \/ ClearConn
  <2>1. /\ UNCHANGED <<noFd, tmp, erased, setUp, unread, sent, closed, ended>>
        /\ Drop(tmp, {"evCallback"}) \/ Drop(tmp, {"evConn"})
        /\ mainPc \in {"begun", "halfCleared"}
    BY <1>3 DEF ClearCallback, ClearConn
  <2>2. \A d \in connlist : d \in connlist'
    BY <2>1, ListKept DEF IInv
  <2>3. RestTyped'
    BY <2>1 DEF JInv, RestTyped
  <2>4. QED BY <2>1, <2>2, <2>3, ListStep
<1>4. CASE ClearFd
  <2>1. /\ UNCHANGED <<refs, mainPc, tmp, erased, setUp, unread, sent, closed, ended>>
        /\ noFd' = noFd \cup {tmp} /\ tmp \in Conns /\ connlist' = connlist
    BY <1>1, <1>4 DEF ClearFd, mainVars, JInv, ListNotEmpty, connlist
  <2>2. RestTyped'
    BY <2>1 DEF JInv, RestTyped
  <2>3. QED BY <2>1, <2>2, ListStep
<1>5. CASE Erase
  <2>1. /\ UNCHANGED <<noFd, tmp, setUp, unread, sent, closed>> /\ mainPc' = "erased"
        /\ ended' \in {ended, "map"} /\ erased' = begin /\ mainPc = "cleared"
    BY <1>5 DEF Erase, MapBreaks
  <2>2. begin \in connlist
    BY <2>1, BeginInList DEF JInv, ListNotEmpty
  <2>3. QED BY <1>1, <2>1, <2>2 DEF JInv, RestTyped, ListNotEmpty
<1>6. CASE PrintCount
  <2>1. /\ UNCHANGED <<refs, noFd, tmp, erased, setUp, unread, sent, closed>> /\ mainPc' = "printed"
        /\ ended' \in {ended, "freed"}
    BY <1>6 DEF PrintCount
  <2>2. RestTyped' /\ connlist' = connlist
    BY <2>1 DEF JInv, RestTyped, connlist
  <2>3. QED BY <2>1, <2>2, ListStep
<1>7. QED BY <1>2, <1>3, <1>4, <1>5, <1>6 DEF Main

(* The variables keep their types.  In particular main() erases an element *)
(* of connlist that exists (line 401), and closes no descriptor but that   *)
(* of a Connection: begin() of an empty map has ended the run before.      *)
THEOREM TypeCorrect == Spec => []TypeOK
<1>1. IInv /\ JInv /\ [Next]_vars => JInv'
  <2> SUFFICES ASSUME IInv, JInv, [Next]_vars PROVE JInv'
    OBVIOUS
  <2>1. CASE UNCHANGED vars
    BY <2>1 DEF JInv, RestTyped, ListNotEmpty, Running, connlist, vars, mainVars, peerVars
  <2>2. CASE Next
    BY <2>2, OthersKeepTypes, MainKeepsTypes DEF Next, Step
  <2>3. QED BY <2>1, <2>2
<1>2. IInv /\ JInv => TypeOK
  BY DEF IInv, Typed, JInv, RestTyped, TypeOK
<1>3. QED BY InitJInv, Invariance, <1>1, <1>2, PTL DEF Spec
=============================================================================
