------------------------- MODULE AgentClientProofs -------------------------
(* Theorems about AgentClient, for every value of its constants. *)
EXTENDS AgentClient, SequenceTheorems, TLAPS

-----------------------------------------------------------------------------
(* The inductive invariant.                                                *)

(* Only the holder of the lock is in the middle of an exchange.            *)
HolderExchanges == \A c \in Callers : phase[c] \in Exchange => Holds(c)

(* A call has a number.                                                    *)
CallsNumbered == \A c \in Callers : phase[c] # "Idle" => req[c] # 0

(* What the agent works on is still the first request on the stream.       *)
AgentHasRequest ==
  /\ agent \in {"Busy", "Sending"} => outbox # <<>>
  /\ agent = "Gone" => outbox = <<>>

Asks(r, whole) == <<[of |-> r, whole |-> whole]>>
LenOf(r)  == [part |-> "Len", of |-> r]
BodyOf(r) == [part |-> "Body", of |-> r]

(* What can be on the stream while the exchange of request r is in a phase. *)
Under(p, r) ==
  IF p = "Writing"
    THEN {<<Asks(r, FALSE), <<>>, "Idle">>, <<<<>>, <<>>, "Gone">>}
  ELSE IF p = "ReadingLen"
    THEN {<<Asks(r, TRUE), <<>>, "Idle">>, <<Asks(r, TRUE), <<>>, "Busy">>,
          <<Asks(r, TRUE), <<LenOf(r)>>, "Sending">>,
          <<<<>>, <<LenOf(r), BodyOf(r)>>, "Idle">>,
          <<<<>>, <<>>, "Gone">>, <<<<>>, <<LenOf(r)>>, "Gone">>,
          <<<<>>, <<LenOf(r), BodyOf(r)>>, "Gone">>}
  ELSE {<<Asks(r, TRUE), <<>>, "Sending">>, <<<<>>, <<BodyOf(r)>>, "Idle">>,
        <<<<>>, <<>>, "Gone">>, <<<<>>, <<BodyOf(r)>>, "Gone">>}

(* In step: the stream holds what is under way for the holder's request,   *)
(* and nothing else.                                                       *)
InStep ==
  /\ (\A c \in Callers : phase[c] \notin Exchange) =>
       stream \in {<<<<>>, <<>>, "Idle">>, <<<<>>, <<>>, "Gone">>}
  /\ \A c \in Callers : phase[c] \in Exchange => stream \in Under(phase[c], req[c])

(* Out of step, as a failure leaves it: the next piece to be read, if one  *)
(* ever comes, is the body of a response whose length was read before.     *)
OutOfStep ==
  /\ \A c \in Callers : phase[c] # "ReadingBody"
  /\ inbox = <<>> => agent \in {"Sending", "Gone"}
  /\ inbox # <<>> => Head(inbox).part = "Body"

(* Capabilities are recorded before the flag is.                           *)
CapsFirst == \A c \in Callers : phase[c] = "Store" => caps

IInv ==
  /\ TypeOK /\ HolderExchanges /\ CallsNumbered /\ AgentHasRequest
  /\ cancels \in Cancels
  /\ ~cancels /\ ~broken => InStep
  /\ AnswersAreOwn
  /\ CapsFirst /\ AuthenticatedHasCaps

-----------------------------------------------------------------------------
(* Sequences of one and two elements.                                      *)

(* What Append, Head and Tail make of them.                                *)
LEMMA ShortSequences ==
  ASSUME NEW x, NEW y
  PROVE  /\ Append(<<>>, x) = <<x>> /\ Append(<<x>>, y) = <<x, y>>
         /\ Head(<<x>>) = x /\ Head(<<x, y>>) = x
         /\ Tail(<<x>>) = <<>> /\ Tail(<<x, y>>) = <<y>>
         /\ <<x>> # <<>> /\ <<x, y>> # <<>> /\ <<x>> # <<x, y>>
         /\ Len(<<x>>) = 1 /\ <<x>>[1] = x
<1>1. Append(<<x>>, y) = <<x, y>>
  <2> DEFINE S == {x, y}
  <2>1. <<x>> \in Seq(S) /\ <<x, y>> \in Seq(S) /\ y \in S
    OBVIOUS
  <2>2. Append(<<x>>, y) \in Seq(S)
    BY <2>1, AppendProperties
  <2>3. /\ Len(Append(<<x>>, y)) = 2 /\ Len(<<x, y>>) = 2
        /\ Append(<<x>>, y)[1] = x /\ Append(<<x>>, y)[2] = y
    BY <2>1, AppendProperties
  <2>4. \A i \in 1..Len(Append(<<x>>, y)) : Append(<<x>>, y)[i] = <<x, y>>[i]
    BY <2>3
  <2> QED
    BY <2>1, <2>2, <2>3, <2>4, SeqEqual
<1> QED
  BY <1>1

(* Frames with the same fields are the same.                               *)
LEMMA SameFrame ==
  ASSUME NEW f \in Frame, NEW g \in Frame, f.of = g.of, f.whole = g.whole
  PROVE  f = g
BY DEF Frame

(* The end of a frame makes it whole.                                      *)
LEMMA MadeWhole ==
  ASSUME NEW r \in Request
  PROVE  [Asks(r, FALSE) EXCEPT ![1].whole = TRUE] = Asks(r, TRUE)
<1>1. PICK x : x = [of |-> r, whole |-> FALSE]
  OBVIOUS
<1>2. PICK y : y = [x EXCEPT !.whole = TRUE]
  OBVIOUS
<1>3. PICK z : z = [of |-> r, whole |-> TRUE]
  OBVIOUS
<1>4. y \in Frame /\ y.of = r /\ y.whole = TRUE
  BY <1>1, <1>2 DEF Frame
<1>5. z \in Frame /\ z.of = r /\ z.whole = TRUE
  BY <1>3 DEF Frame
<1>6. y = z
  BY <1>4, <1>5, SameFrame
<1>7. [<<x>> EXCEPT ![1].whole = TRUE] = [<<x>> EXCEPT ![1] = y]
  BY <1>2
<1>8. [<<x>> EXCEPT ![1] = y] = <<y>>
  OBVIOUS
<1> QED
  BY <1>1, <1>3, <1>6, <1>7, <1>8, Zenon DEF Asks

(* A caller taken off a lock on which nobody is twice.                     *)
LEMMA TakenOff ==
  ASSUME NEW s \in Seq(Callers), NEW i \in 1..Len(s),
         \A j, k \in 1..Len(s) : s[j] = s[k] => j = k
  PROVE  /\ RemoveFirst(s, s[i]) \in Seq(Callers)
         /\ Len(RemoveFirst(s, s[i])) = Len(s) - 1
         /\ \A j \in 1..(Len(s) - 1) :
              RemoveFirst(s, s[i])[j] = IF j < i THEN s[j] ELSE s[j + 1]
<1>1. SelectInSeq(s, LAMBDA v : v = s[i]) = i
  <2> DEFINE I == {j \in 1..Len(s) : s[j] = s[i]}
  <2>1. I = {i}
    OBVIOUS
  <2>2. Min({i}) = i
    BY DEF Min
  <2> QED
    BY <2>1, <2>2 DEF SelectInSeq
<1>n. Len(s) \in Nat
  BY LenProperties
<1> DEFINE front == SubSeq(s, 1, i - 1)
           back  == SubSeq(s, i + 1, Len(s))
           rest  == front \o back
<1>2. RemoveFirst(s, s[i]) = rest
  BY <1>1 DEF RemoveFirst, RemoveAt
<1>3. /\ front \in Seq(Callers) /\ Len(front) = i - 1
      /\ \A j \in 1..(i - 1) : front[j] = s[j]
  BY SubSeqProperties, LenProperties
<1>4. /\ back \in Seq(Callers) /\ Len(back) = Len(s) - i
      /\ \A j \in 1..(Len(s) - i) : back[j] = s[i + j]
  BY SubSeqProperties, LenProperties
<1> HIDE DEF front, back
<1>5. /\ rest \in Seq(Callers) /\ Len(rest) = Len(front) + Len(back)
      /\ \A j \in 1..(Len(front) + Len(back)) :
           rest[j] = IF j <= Len(front) THEN front[j] ELSE back[j - Len(front)]
  <2>1. front \in Seq(Callers) /\ back \in Seq(Callers)
    BY <1>3, <1>4
  <2>2. rest \in Seq(Callers) /\ Len(rest) = Len(front) + Len(back)
    BY <2>1, ConcatProperties
  <2>3. ASSUME NEW j \in 1..(Len(front) + Len(back))
        PROVE  rest[j] = IF j <= Len(front) THEN front[j] ELSE back[j - Len(front)]
    BY <2>1, ConcatProperties
  <2> QED
    BY <2>2, <2>3
<1> HIDE DEF rest
<1>6. Len(rest) = Len(s) - 1
  BY <1>3, <1>4, <1>5, <1>n
<1>7. ASSUME NEW j \in 1..(Len(s) - 1)
      PROVE  rest[j] = IF j < i THEN s[j] ELSE s[j + 1]
  <2>1. CASE j < i
    <3>1. j \in 1..(i - 1) /\ j <= i - 1 /\ j \in 1..(Len(s) - 1)
      BY <2>1, <1>n
    <3>2. Len(front) + Len(back) = Len(s) - 1
      BY <1>3, <1>4, <1>n
    <3>3. rest[j] = front[j]
      <4>1. j \in 1..(Len(front) + Len(back)) /\ j <= Len(front)
        BY <1>3, <3>1, <3>2
      <4> QED
        BY <1>5, <4>1
    <3>4. front[j] = s[j]
      BY <1>3, <3>1
    <3> QED
      BY <2>1, <3>3, <3>4
  <2>2. CASE j >= i
    <3>1. j - (i - 1) \in 1..(Len(s) - i) /\ i + (j - (i - 1)) = j + 1 /\ ~(j <= i - 1)
      BY <2>2, <1>n
    <3>2. PICK k : k = j - (i - 1)
      OBVIOUS
    <3>3. rest[j] = back[k]
      <4>1. j \in 1..(Len(front) + Len(back)) /\ j - Len(front) = k /\ ~(j <= Len(front))
        BY <1>3, <1>4, <1>n, <3>1, <3>2
      <4> QED
        BY <1>5, <4>1
    <3>4. back[k] = s[i + k] /\ i + k = j + 1
      BY <1>4, <3>1, <3>2
    <3> QED
      BY <2>2, <3>3, <3>4
  <2> QED
    BY <2>1, <2>2
<1> QED
  BY <1>2, <1>5, <1>6, <1>7

(* A stream is a stream whatever a misframed read took off it.              *)
LEMMA LeftoversTyped ==
  ASSUME NEW s \in Seq(Piece), NEW left \in Leftovers(s)
  PROVE  left \in Seq(Piece)
<1>1. ASSUME NEW rest \in Suffixes(s) PROVE rest \in Seq(Piece)
  <2>1. CASE rest = <<>>
    BY <2>1, EmptySeq
  <2>2. CASE \E l \in 1..Len(s) : rest = SubSeq(s, l, Len(s))
    <3>1. PICK l \in 1..Len(s) : rest = SubSeq(s, l, Len(s))
      BY <2>2
    <3> QED
      BY <3>1, SubSeqProperties, LenProperties
  <2> QED
    BY <1>1, <2>1, <2>2 DEF Suffixes
<1>2. ASSUME NEW rest \in Seq(Piece), rest # <<>> PROVE Cut(rest) \in Seq(Piece)
  <2>1. 1 \in 1..Len(rest) /\ rest[1] \in Piece
    BY <1>2, EmptySeq, LenProperties
  <2>2. [rest[1] EXCEPT !.part = "Body"] \in Piece
    BY <2>1 DEF Piece
  <2>3. Cut(rest) = [rest EXCEPT ![1] = [rest[1] EXCEPT !.part = "Body"]]
    BY <2>1 DEF Cut
  <2> QED
    BY <2>1, <2>2, <2>3, ExceptSeq
<1> QED
  BY <1>1, <1>2 DEF Leftovers

-----------------------------------------------------------------------------
(* The lock.                                                               *)

(* The callers on the lock: each once, those inside round_trip and no      *)
(* other, the one in the middle of an exchange in front.                   *)
Queue ==
  /\ lock \in Seq(Callers)
  /\ \A i, j \in 1..Len(lock) : lock[i] = lock[j] => i = j
  /\ \A c \in Callers : phase[c] \in Locking <=> \E i \in 1..Len(lock) : lock[i] = c
  /\ HolderExchanges

(* The lock stays in order when the caller at its head goes from one phase *)
(* inside round_trip to another.                                           *)
LEMMA QueueKept ==
  ASSUME Queue, phase \in [Callers -> Phase], NEW c \in Callers, Holds(c),
         phase[c] \in Locking, NEW p \in Locking,
         phase' = [phase EXCEPT ![c] = p], UNCHANGED lock
  PROVE  Queue'
BY DEF Queue, HolderExchanges, Holds

(* The lock stays in order when a caller leaves round_trip.                *)
LEMMA QueueReleased ==
  ASSUME Queue, phase \in [Callers -> Phase], NEW c \in Callers,
         phase[c] \in Locking, NEW p \in Phase \ Locking,
         phase' = [phase EXCEPT ![c] = p], lock' = Released(c)
  PROVE  Queue'
<1>1. PICK i \in 1..Len(lock) : lock[i] = c
  BY DEF Queue
<1>n. Len(lock) \in Nat
  BY LenProperties DEF Queue
<1>2. /\ lock' \in Seq(Callers) /\ Len(lock') = Len(lock) - 1
      /\ \A j \in 1..(Len(lock) - 1) : lock'[j] = IF j < i THEN lock[j] ELSE lock[j + 1]
  <2>1. lock \in Seq(Callers) /\ \A j, k \in 1..Len(lock) : lock[j] = lock[k] => j = k
    BY DEF Queue
  <2>2. /\ RemoveFirst(lock, lock[i]) \in Seq(Callers)
        /\ Len(RemoveFirst(lock, lock[i])) = Len(lock) - 1
        /\ \A j \in 1..(Len(lock) - 1) :
             RemoveFirst(lock, lock[i])[j] = IF j < i THEN lock[j] ELSE lock[j + 1]
    BY <2>1, TakenOff
  <2>3. lock' = RemoveFirst(lock, lock[i])
    BY <1>1 DEF Released
  <2> QED
    BY <2>2, <2>3
<1>3. \A j, k \in 1..Len(lock') : lock'[j] = lock'[k] => j = k
  <2> SUFFICES ASSUME NEW j \in 1..Len(lock'), NEW k \in 1..Len(lock'), lock'[j] = lock'[k]
               PROVE  j = k
    OBVIOUS
  <2>1. PICK m \in 1..Len(lock) : lock'[j] = lock[m] /\ m = IF j < i THEN j ELSE j + 1
    BY <1>n, <1>2
  <2>2. PICK n \in 1..Len(lock) : lock'[k] = lock[n] /\ n = IF k < i THEN k ELSE k + 1
    BY <1>n, <1>2
  <2>3. m = n
    <3>1. lock[m] = lock[n]
      BY <2>1, <2>2
    <3> QED
      BY <3>1 DEF Queue
  <2> QED
    BY <1>n, <1>2, <2>1, <2>2, <2>3
<1>4. ASSUME NEW d \in Callers
      PROVE  phase'[d] \in Locking <=> \E j \in 1..Len(lock') : lock'[j] = d
  <2>1. ASSUME NEW j \in 1..Len(lock'), lock'[j] = d PROVE phase'[d] \in Locking
    <3>1. PICK m \in 1..Len(lock) : lock'[j] = lock[m] /\ m # i
      BY <1>n, <1>2
    <3>2. d # c /\ phase[d] \in Locking
      BY <1>1, <2>1, <3>1 DEF Queue
    <3> QED
      BY <3>2
  <2>2. ASSUME phase'[d] \in Locking PROVE \E j \in 1..Len(lock') : lock'[j] = d
    <3>1. d # c /\ phase[d] \in Locking
      BY <2>2
    <3>2. PICK m \in 1..Len(lock) : lock[m] = d
      BY <3>1 DEF Queue
    <3>3. CASE m < i
      <4>1. m \in 1..Len(lock') /\ lock'[m] = lock[m]
        BY <1>n, <1>2, <3>3
      <4> QED
        BY <3>2, <4>1
    <3>4. CASE m > i
      <4>1. m - 1 \in 1..(Len(lock) - 1) /\ ~(m - 1 < i) /\ m - 1 + 1 = m
        BY <1>n, <3>4
      <4>2. PICK j : j = m - 1
        OBVIOUS
      <4>3. j \in 1..Len(lock') /\ lock'[j] = lock[m]
        BY <1>2, <4>1, <4>2
      <4> QED
        BY <3>2, <4>3
    <3>5. m # i
      BY <1>1, <3>1, <3>2
    <3> QED
      BY <1>n, <3>3, <3>4, <3>5
  <2> QED
    BY <2>1, <2>2
<1>5. HolderExchanges'
  <2> SUFFICES ASSUME NEW d \in Callers, phase'[d] \in Exchange PROVE Holds(d)'
    BY DEF HolderExchanges
  <2>1. d # c /\ phase[d] \in Exchange /\ phase'[d] \in Locking
    BY DEF Exchange, Locking
  <2>2. lock[1] = d /\ lock # <<>> /\ i # 1
    BY <1>1, <2>1 DEF Queue, HolderExchanges, Holds
  <2>3. 1 \in 1..(Len(lock) - 1) /\ lock'[1] = lock[1]
    BY <1>n, <1>2, <2>2
  <2>4. lock' # <<>> /\ Head(lock') = lock'[1]
    BY <1>2, <2>3
  <2> QED
    BY <2>2, <2>3, <2>4 DEF Holds
<1> QED
  BY <1>2, <1>3, <1>4, <1>5 DEF Queue

(* The lock stays in order when a caller joins it at the end.              *)
LEMMA QueueJoined ==
  ASSUME Queue, phase \in [Callers -> Phase], NEW c \in Callers,
         phase[c] \notin Locking, phase' = [phase EXCEPT ![c] = "Waiting"],
         lock' = Append(lock, c)
  PROVE  Queue'
<1>1. /\ Len(lock) \in Nat
      /\ lock' \in Seq(Callers) /\ Len(lock') = Len(lock) + 1
      /\ \A i \in 1..Len(lock) : lock'[i] = lock[i]
      /\ lock'[Len(lock) + 1] = c
  BY AppendProperties, LenProperties DEF Queue
<1>2. \A i \in 1..Len(lock) : lock[i] # c
  BY DEF Queue
<1>3. \A i, j \in 1..Len(lock') : lock'[i] = lock'[j] => i = j
  BY <1>1, <1>2 DEF Queue
<1>4. ASSUME NEW d \in Callers
      PROVE  phase'[d] \in Locking <=> \E i \in 1..Len(lock') : lock'[i] = d
  <2>1. CASE d = c
    BY <1>1, <2>1 DEF Locking
  <2>2. CASE d # c
    BY <1>1, <2>2 DEF Queue
  <2> QED
    BY <2>1, <2>2
<1>5. HolderExchanges'
  BY HeadTailAppend DEF Queue, HolderExchanges, Holds, Exchange
<1> QED
  BY <1>1, <1>3, <1>4, <1>5 DEF Queue

-----------------------------------------------------------------------------
(* One step.                                                               *)

(* The lock is in order after every step.                                  *)
LEMMA QueueStep ==
  ASSUME TypeOK, HolderExchanges, [Next]_vars
  PROVE  Queue'
<1>q. Queue /\ phase \in [Callers -> Phase]
  BY DEF TypeOK, Queue
<1>1. ASSUME NEW c \in Callers, Call(c)
      PROVE  Queue'
  <2>1. CASE broken
    BY <1>q, <1>1, <2>1 DEF Call, Queue, HolderExchanges, Holds
  <2>2. CASE ~broken
    BY <1>q, <1>1, <2>2, QueueJoined DEF Call, Locking
  <2> QED
    BY <2>1, <2>2
<1>2. ASSUME NEW c \in Callers, WriteStarts(c) \/ WriteDone(c) \/ ReadLength(c)
      PROVE  Queue'
  <2>1. /\ Holds(c) /\ phase[c] \in Locking /\ UNCHANGED lock
        /\ \E p \in Locking : phase' = [phase EXCEPT ![c] = p]
    BY <1>2 DEF WriteStarts, WriteDone, ReadLength, KeepLock, HolderExchanges, Exchange, Locking
  <2> QED
    BY <1>q, <2>1, QueueKept
<1>3. ASSUME NEW c \in Callers, phase[c] \in Locking, lock' = Released(c),
             \E p \in {"Idle", "Caps"} : phase' = [phase EXCEPT ![c] = p]
      PROVE  Queue'
  <2>1. PICK p \in {"Idle", "Caps"} : phase' = [phase EXCEPT ![c] = p]
    BY <1>3
  <2>2. p \in Phase \ Locking
    BY <2>1 DEF Phase, Locking
  <2>3. phase[c] \in Locking /\ lock' = Released(c)
    BY <1>3
  <2> QED
    BY <1>q, <2>1, <2>2, <2>3, QueueReleased
<1>4. ASSUME NEW c \in Callers, WriteFails(c) \/ ReadMisframed(c) \/ BodyTimeout(c) \/ ReadEof(c)
                                  \/ Cancel(c)
      PROVE  Queue'
  <2>1. phase[c] \in Locking
    BY <1>4 DEF WriteFails, ReadMisframed, Misframed, BodyTimeout, BodyTimesOut, ReadEof, Cancel, Locking
  <2>2. lock' = Released(c) /\ \E p \in {"Idle", "Caps"} : phase' = [phase EXCEPT ![c] = p]
    BY <1>4 DEF WriteFails, ReadMisframed, BodyTimeout, ReadEof, Cancel, TransportError, Return
  <2> QED
    BY <1>3, <2>1, <2>2
<1>5. ASSUME NEW c \in Callers, NEW granted \in BOOLEAN, ReadBody(c, granted)
      PROVE  Queue'
  BY <1>3, <1>5 DEF ReadBody, Return, Locking
<1>6. ASSUME NEW c \in Callers, Record(c)
      PROVE  Queue'
  BY <1>q, <1>6 DEF Record, Queue, HolderExchanges, Holds, Locking, Exchange
<1>7. CASE UNCHANGED <<lock, phase>>
  BY <1>q, <1>7 DEF Queue, HolderExchanges, Holds
<1> QED
  BY <1>1, <1>2, <1>4, <1>5, <1>6, <1>7
     DEF Next, Caller, AgentReads, AgentSendsLength, AgentSendsBody, AgentCloses, client, vars

(* The types, the numbers of the calls and what the agent works on.        *)
Typed == TypeOK /\ CallsNumbered /\ AgentHasRequest

(* They survive every step that leaves the lock in order.                  *)
LEMMA TypeStep ==
  ASSUME Typed, HolderExchanges, [Next]_vars
  PROVE  Typed'
<1> USE ClientAssumption DEF Typed
<1>q. Queue'
  BY QueueStep
<1>1. ASSUME NEW c \in Callers, Call(c)
      PROVE  Typed'
  <2>1. /\ next_req \in Request /\ next_req' \in 1..(MaxRequests + 1)
        /\ req' \in [Callers -> Request \union {0}]
    BY <1>1 DEF Call, TypeOK, Request
  <2>2. result' \in [Callers -> Result]
    <3>1. ResultOf("Unusable", next_req) \in Result /\ ResultOf("None", 0) \in Result
      BY <2>1 DEF ResultOf, Result
    <3> QED
      BY <1>1, <3>1 DEF Call, TypeOK
  <2>3. phase' \in [Callers -> Phase]
    BY <1>1, SMTT(30) DEF Call, TypeOK, Phase, Locking
  <2>4. CallsNumbered'
    BY <1>1, <2>1 DEF Call, CallsNumbered, TypeOK, Request
  <2> QED
    BY <1>q, <1>1, <2>1, <2>2, <2>3, <2>4 DEF Call, TypeOK, Queue, AgentHasRequest, session, stream
<1>2. ASSUME NEW c \in Callers, WriteStarts(c)
      PROVE  Typed'
  <2>1. req[c] \in Request
    BY <1>2 DEF WriteStarts, CallsNumbered, TypeOK
  <2>2. outbox' \in Seq(Frame) /\ outbox' # <<>>
    <3>1. [of |-> req[c], whole |-> FALSE] \in Frame
      BY <2>1 DEF Frame
    <3> QED
      BY <1>2, <3>1, AppendProperties DEF WriteStarts, TypeOK
  <2> QED
    BY <1>q, <1>2, <2>1, <2>2 DEF WriteStarts, TypeOK, Queue, CallsNumbered, AgentHasRequest,
       Phase, Locking, session
<1>3. ASSUME NEW c \in Callers, WriteDone(c)
      PROVE  Typed'
  <2>1. outbox' \in Seq(Frame) /\ (outbox # <<>> => outbox' # <<>>)
    <3>1. CASE outbox = <<>>
      <4>1. DOMAIN outbox' = {} /\ outbox' = [i \in DOMAIN outbox' |-> outbox'[i]]
        BY <1>3, <3>1 DEF WriteDone
      <4>2. outbox' \in [1..0 -> Frame]
        BY <4>1
      <4> QED
        BY <3>1, <4>2, SeqDef
    <3>2. CASE outbox # <<>>
      <4>1. Len(outbox) \in 1..Len(outbox) /\ outbox[Len(outbox)] \in Frame
        BY <3>2, EmptySeq, LenProperties DEF TypeOK
      <4>2. [outbox[Len(outbox)] EXCEPT !.whole = TRUE] \in Frame
        BY <4>1 DEF Frame
      <4>3. outbox' = [outbox EXCEPT ![Len(outbox)] = [outbox[Len(outbox)] EXCEPT !.whole = TRUE]]
        BY <1>3, <4>1 DEF WriteDone
      <4>4. outbox' \in Seq(Frame) /\ Len(outbox') = Len(outbox)
        BY <4>1, <4>2, <4>3, ExceptSeq DEF TypeOK
      <4> QED
        BY <4>1, <4>4
    <3> QED
      BY <3>1, <3>2
  <2> QED
    BY <1>q, <1>3, <2>1 DEF WriteDone, TypeOK, Queue, CallsNumbered, AgentHasRequest,
       Phase, Locking, session
<1>4. ASSUME NEW c \in Callers, NEW p \in {"Idle", "Caps", "ReadingBody"},
             NEW type \in {"None", "Answer", "Unusable", "Garbage"}, NEW of \in Request \union {0},
             phase' = [phase EXCEPT ![c] = p], phase[c] # "Idle",
             result' \in {result, [result EXCEPT ![c] = ResultOf(type, of)]},
             broken' \in BOOLEAN, inbox' \in Seq(Piece),
             UNCHANGED <<cancels, req, session, next_req, outbox, agent>>
      PROVE  Typed'
  <2>1. ResultOf(type, of) \in Result
    BY <1>4 DEF ResultOf, Result
  <2>2. result' \in [Callers -> Result]
    BY <1>4, <2>1 DEF TypeOK
  <2>3. phase' \in [Callers -> Phase] /\ CallsNumbered'
    BY <1>4 DEF TypeOK, Phase, Locking, CallsNumbered
  <2> QED
    BY <1>q, <1>4, <2>2, <2>3 DEF TypeOK, Queue, AgentHasRequest, session
<1>5. ASSUME NEW c \in Callers, WriteFails(c) \/ BodyTimeout(c) \/ ReadEof(c)
      PROVE  Typed'
  <2>1. /\ phase[c] # "Idle" /\ req[c] \in Request \union {0} /\ inbox' \in Seq(Piece)
        /\ TransportError(c, "Unusable")
    BY <1>5 DEF WriteFails, BodyTimeout, BodyTimesOut, ReadEof, TypeOK
  <2> QED
    BY <1>4, <2>1 DEF TransportError, Return, MarkBroken
<1>14. ASSUME NEW c \in Callers, ReadMisframed(c)
       PROVE  Typed'
  <2>1. phase[c] # "Idle" /\ req[c] \in Request \union {0} /\ inbox' \in Seq(Piece)
    BY <1>14, LeftoversTyped DEF ReadMisframed, Misframed, TypeOK
  <2>2. CASE TransportError(c, "Garbage")
    BY <1>4, <2>1, <2>2 DEF TransportError, Return, MarkBroken
  <2>3. CASE ~TransportError(c, "Garbage")
    <3>1. PICK next \in {"Idle", "Caps"} : phase' = [phase EXCEPT ![c] = next]
      BY <1>14, <2>3 DEF ReadMisframed
    <3>2. /\ result' = [result EXCEPT ![c] = ResultOf("Garbage", req[c])]
          /\ UNCHANGED <<cancels, broken, req, session, next_req, outbox, agent>>
      BY <1>14, <2>3 DEF ReadMisframed, Return
    <3>3. broken' \in BOOLEAN
      BY <3>2 DEF TypeOK
    <3> QED
      BY <1>4, <2>1, <3>1, <3>2, <3>3
  <2> QED
    BY <2>2, <2>3
<1>6. ASSUME NEW c \in Callers, Cancel(c)
      PROVE  Typed'
  <2>1. phase[c] # "Idle" /\ inbox' \in Seq(Piece) /\ broken' \in BOOLEAN
    BY <1>6, LeftoversTyped DEF Cancel, TypeOK, Locking
  <2> QED
    BY <1>4, <1>6, <2>1 DEF Cancel, Return, stream
<1>7. ASSUME NEW c \in Callers, ReadLength(c)
      PROVE  Typed'
  <2>1. phase[c] # "Idle" /\ inbox' \in Seq(Piece) /\ broken' \in BOOLEAN
    BY <1>7, HeadTailProperties DEF ReadLength, TypeOK
  <2> QED
    BY <1>4, <1>7, <2>1 DEF ReadLength
<1>8. ASSUME NEW c \in Callers, NEW granted \in BOOLEAN, ReadBody(c, granted)
      PROVE  Typed'
  <2>h. inbox' \in Seq(Piece) /\ Head(inbox) \in Piece
    BY <1>8, HeadTailProperties DEF ReadBody, TypeOK
  <2>1. /\ phase[c] # "Idle" /\ broken' \in BOOLEAN /\ inbox' \in Seq(Piece)
        /\ Head(inbox).of \in Request \union {0}
    BY <1>8, <2>h DEF ReadBody, TypeOK, Piece
  <2> QED
    BY <1>4, <1>8, <2>1 DEF ReadBody, Return
<1>9. ASSUME NEW c \in Callers, Record(c)
      PROVE  Typed'
  BY <1>q, <1>9 DEF Record, TypeOK, Queue, CallsNumbered, AgentHasRequest, Phase, Locking, stream
<1>10. ASSUME outbox' \in Seq(Frame), agent' \in {"Idle", "Busy", "Sending", "Gone"},
              UNCHANGED <<client, inbox>>
       PROVE  TypeOK' /\ CallsNumbered'
  BY <1>q, <1>10 DEF TypeOK, Queue, CallsNumbered, client, session
<1>13. CASE AgentReads \/ AgentCloses
  <2>1. outbox' \in Seq(Frame) /\ AgentHasRequest'
    <3>1. CASE AgentReads
      BY <3>1 DEF AgentReads, TypeOK, AgentHasRequest
    <3>2. CASE AgentCloses
      BY <3>2, EmptySeq DEF AgentCloses, AgentHasRequest
    <3> QED
      BY <1>13, <3>1, <3>2
  <2> QED
    BY <1>10, <1>13, <2>1 DEF AgentReads, AgentCloses
<1>11. CASE AgentSendsLength \/ AgentSendsBody
  <2>1. outbox # <<>>
    BY <1>11 DEF AgentSendsLength, AgentSendsBody, AgentHasRequest
  <2>h. Head(outbox) \in Frame /\ Tail(outbox) \in Seq(Frame)
    BY <2>1, HeadTailProperties DEF TypeOK
  <2>2. \A part \in {"Len", "Body"} : [part |-> part, of |-> Head(outbox).of] \in Piece
    BY <2>h DEF Frame, Piece
  <2>3. inbox' \in Seq(Piece)
    <3>1. \E piece \in Piece : inbox' = Append(inbox, piece)
      BY <1>11, <2>2 DEF AgentSendsLength, AgentSendsBody
    <3> QED
      BY <3>1, AppendProperties DEF TypeOK
  <2> QED
    BY <1>q, <1>11, <2>1, <2>h, <2>3
       DEF Queue, AgentSendsLength, AgentSendsBody, TypeOK, CallsNumbered, AgentHasRequest, client, session
<1>12. CASE UNCHANGED vars
  BY <1>12 DEF TypeOK, CallsNumbered, AgentHasRequest, vars, session, stream
<1> QED
  BY <1>1, <1>2, <1>3, <1>5, <1>6, <1>7, <1>8, <1>9, <1>11, <1>12, <1>13, <1>14 DEF Next, Caller

(* The flag is never cleared.                                              *)
LEMMA BrokenForGood ==
  ASSUME TypeOK, broken, [Next]_vars
  PROVE  broken'
BY DEF Next, Caller, Call, WriteStarts, WriteDone, WriteFails, ReadLength, ReadMisframed, ReadBody,
   BodyTimeout, ReadEof, Record, Cancel, TransportError, MarkBroken, AgentReads, AgentSendsLength,
   AgentSendsBody, AgentCloses, client, vars

(* A stream that is out of step stays so until a caller misreads it, and   *)
(* the connection is broken for good.                                      *)
LEMMA StaysBroken ==
  ASSUME TypeOK, OutOfStep, broken, ~cancels, [Next]_vars, \A c \in Callers : ~ReadMisframed(c)
  PROVE  broken' /\ OutOfStep'
<1> USE DEF stream, session
<1>1. ASSUME NEW c \in Callers, ReadLength(c) \/ (\E granted \in BOOLEAN : ReadBody(c, granted))
      PROVE  FALSE
  BY <1>1 DEF OutOfStep, ReadLength, ReadBody
<1>2. ASSUME NEW c \in Callers, NEW p \in Phase \ {"ReadingBody"},
             phase' \in {phase, [phase EXCEPT ![c] = p]}, broken', UNCHANGED <<inbox, agent>>
      PROVE  broken' /\ OutOfStep'
  BY <1>2 DEF OutOfStep, TypeOK
<1>3. ASSUME NEW c \in Callers, Caller(c)
      PROVE  broken' /\ OutOfStep'
  <2>1. ASSUME NEW p \in {"Idle", "Waiting", "Writing", "ReadingLen", "Caps", "Store"},
               phase' \in {phase, [phase EXCEPT ![c] = p]}, broken', UNCHANGED <<inbox, agent>>
        PROVE  broken' /\ OutOfStep'
    BY <1>2, <2>1 DEF Phase, Locking
  <2>2. CASE Call(c)
    BY <2>1, <2>2 DEF Call
  <2>3. CASE WriteStarts(c) \/ WriteDone(c) \/ Record(c)
    BY <2>1, <2>3 DEF WriteStarts, WriteDone, Record
  <2>4. CASE WriteFails(c) \/ BodyTimeout(c) \/ ReadEof(c)
    BY <2>1, <2>4 DEF WriteFails, BodyTimeout, ReadEof, TransportError, MarkBroken
  <2> QED
    BY <1>1, <1>3, <2>2, <2>3, <2>4 DEF Caller, Cancel
<1>4. CASE AgentReads \/ AgentCloses
  BY <1>4 DEF AgentReads, AgentCloses, OutOfStep, client
<1>5. CASE AgentSendsLength
  BY <1>5, HeadTailAppend, AppendProperties DEF AgentSendsLength, OutOfStep, client, TypeOK
<1>6. CASE AgentSendsBody
  BY <1>6, HeadTailAppend, AppendProperties DEF AgentSendsBody, OutOfStep, client, TypeOK
<1>7. CASE UNCHANGED vars
  BY <1>7 DEF vars, OutOfStep
<1> QED
  BY <1>3, <1>4, <1>5, <1>6, <1>7 DEF Next

(* A stream that is in step stays so, unless the connection is marked      *)
(* broken.                                                                 *)
LEMMA StaysInStep ==
  ASSUME TypeOK, HolderExchanges, CallsNumbered, InStep, ~broken, ~cancels, [Next]_vars
  PROVE  /\ ~broken' => InStep'
         /\ broken' => OutOfStep'
<1> DEFINE Outcome == (~broken' => InStep') /\ (broken' => OutOfStep')
<1> USE DEF stream, session
<1>o. \A c, d \in Callers : phase[c] \in Exchange /\ Holds(d) => c = d
  BY DEF HolderExchanges, Holds
<1>p. phase \in [Callers -> Phase] /\ req \in [Callers -> Request \union {0}]
  BY DEF TypeOK
<1>e. /\ \A p \in {"Idle", "Waiting", "Caps", "Store"} : p \in Phase \ Exchange
      /\ Exchange \subseteq Phase
  BY DEF Phase, Locking, Exchange
\* c is the only one who may be exchanging, before and after the step
<1>1. ASSUME NEW c \in Callers, NEW p \in Phase, phase' = [phase EXCEPT ![c] = p],
             \A d \in Callers : phase[d] \in Exchange => c = d,
             UNCHANGED <<broken, req>>,
             p \in Exchange => stream' \in Under(p, req[c]),
             p \notin Exchange => stream' \in {<<<<>>, <<>>, "Idle">>, <<<<>>, <<>>, "Gone">>}
      PROVE  Outcome
  BY <1>p, <1>1 DEF InStep
<1>2. ASSUME NEW c \in Callers, phase[c] \notin Exchange,
             NEW p \in Phase \ Exchange, phase' \in {phase, [phase EXCEPT ![c] = p]},
             \A d \in Callers : d # c => req'[d] = req[d],
             UNCHANGED <<broken, stream>>
      PROVE  Outcome
  BY <1>p, <1>2 DEF InStep
<1>3. ASSUME NEW c \in Callers, Call(c)
      PROVE  Outcome
  <2>1. phase[c] \notin Exchange
    BY <1>3 DEF Call, Exchange
  <2> QED
    BY <1>2, <1>3, <1>e, <2>1 DEF Call
<1>4. ASSUME NEW c \in Callers, Record(c)
      PROVE  Outcome
  <2>1. phase[c] \notin Exchange
    BY <1>4 DEF Record, Exchange
  <2>2. \E p \in {"Store", "Idle"} : phase' = [phase EXCEPT ![c] = p]
    BY <1>4 DEF Record
  <2>3. UNCHANGED <<broken, req, stream>>
    BY <1>4 DEF Record
  <2> QED
    BY <1>2, <1>e, <2>1, <2>2, <2>3
<1>5. ASSUME NEW c \in Callers, WriteStarts(c)
      PROVE  Outcome
  <2>1. /\ phase[c] \notin Exchange
        /\ \A d \in Callers : phase[d] \notin Exchange
    BY <1>5, <1>o DEF WriteStarts, Exchange
  <2>2. stream = <<<<>>, <<>>, "Idle">>
    BY <1>5, <2>1 DEF WriteStarts, InStep
  <2>3. outbox' = Asks(req[c], FALSE)
    BY <1>5, <2>2, ShortSequences DEF WriteStarts, Asks
  <2>4. stream' \in Under("Writing", req[c])
    BY <1>5, <2>2, <2>3 DEF WriteStarts, Under
  <2> QED
    BY <1>1, <1>5, <1>e, <2>1, <2>4 DEF WriteStarts, Exchange
<1>6. ASSUME NEW c \in Callers, phase[c] \in Exchange
      PROVE  /\ \A d \in Callers : phase[d] \in Exchange => c = d
             /\ stream \in Under(phase[c], req[c])
  BY <1>6, <1>o DEF HolderExchanges, InStep
<1>7. ASSUME NEW c \in Callers, WriteDone(c)
      PROVE  Outcome
  <2>1. phase[c] = "Writing" /\ "Writing" \in Exchange /\ "ReadingLen" \in Exchange
    BY <1>7 DEF WriteDone, Exchange
  <2>2. stream = <<Asks(req[c], FALSE), <<>>, "Idle">>
    BY <1>6, <1>7, <2>1 DEF Under, WriteDone
  <2>3. outbox' = Asks(req[c], TRUE)
    <3>1. outbox' = [outbox EXCEPT ![1].whole = TRUE]
      BY <1>7, <2>2, ShortSequences DEF WriteDone, Asks
    <3>2. req[c] \in Request
      BY <1>7 DEF WriteDone, CallsNumbered, TypeOK
    <3> QED
      BY <2>2, <3>1, <3>2, MadeWhole
  <2>4. stream' \in Under("ReadingLen", req[c])
    BY <1>7, <2>2, <2>3 DEF WriteDone, Under
  <2> QED
    BY <1>1, <1>6, <1>7, <1>e, <2>1, <2>4 DEF WriteDone
<1>8. ASSUME NEW c \in Callers, ReadLength(c)
      PROVE  Outcome
  <2>1. phase[c] = "ReadingLen" /\ "ReadingLen" \in Exchange /\ "ReadingBody" \in Exchange
    BY <1>8 DEF ReadLength, Exchange
  <2>2. stream \in Under("ReadingLen", req[c]) /\ inbox # <<>>
    BY <1>6, <1>8, <2>1 DEF ReadLength
  <2>3. stream' \in Under("ReadingBody", req[c])
    <3>1. \/ inbox = <<LenOf(req[c])>> /\ outbox = Asks(req[c], TRUE) /\ agent = "Sending"
          \/ inbox = <<LenOf(req[c]), BodyOf(req[c])>> /\ outbox = <<>> /\ agent = "Idle"
          \/ inbox = <<LenOf(req[c])>> /\ outbox = <<>> /\ agent = "Gone"
          \/ inbox = <<LenOf(req[c]), BodyOf(req[c])>> /\ outbox = <<>> /\ agent = "Gone"
      BY <2>2 DEF Under
    <3>2. inbox' = IF inbox = <<LenOf(req[c])>> THEN <<>> ELSE <<BodyOf(req[c])>>
      <4>1. inbox' = Tail(inbox)
        BY <1>8 DEF ReadLength
      <4>2. /\ Tail(<<LenOf(req[c])>>) = <<>>
            /\ Tail(<<LenOf(req[c]), BodyOf(req[c])>>) = <<BodyOf(req[c])>>
            /\ <<LenOf(req[c])>> # <<LenOf(req[c]), BodyOf(req[c])>>
        BY ShortSequences
      <4>3. CASE inbox = <<LenOf(req[c])>>
        BY <4>1, <4>2, <4>3
      <4>4. CASE inbox = <<LenOf(req[c]), BodyOf(req[c])>>
        BY <4>1, <4>2, <4>4, Zenon
      <4> QED
        BY <3>1, <4>3, <4>4
    <3>3. UNCHANGED <<outbox, agent>>
      BY <1>8 DEF ReadLength
    <3>4. <<LenOf(req[c])>> # <<LenOf(req[c]), BodyOf(req[c])>>
      BY ShortSequences
    <3> QED
      BY <3>1, <3>2, <3>3, <3>4 DEF Under
  <2> QED
    BY <1>1, <1>6, <1>8, <1>e, <2>1, <2>3 DEF ReadLength
<1>9. ASSUME NEW c \in Callers, NEW granted \in BOOLEAN, ReadBody(c, granted)
      PROVE  Outcome
  <2>1. phase[c] = "ReadingBody" /\ "ReadingBody" \in Exchange
    BY <1>9 DEF ReadBody, Exchange
  <2>2. stream \in Under("ReadingBody", req[c]) /\ inbox # <<>>
    BY <1>6, <1>9, <2>1 DEF ReadBody
  <2>3. stream' \in {<<<<>>, <<>>, "Idle">>, <<<<>>, <<>>, "Gone">>}
    BY <1>9, <2>2, ShortSequences DEF ReadBody, Under
  <2> QED
    BY <1>1, <1>6, <1>9, <1>e, <2>1, <2>3 DEF ReadBody
\* the transport errors
<1>10. ASSUME NEW c \in Callers, phase' = [phase EXCEPT ![c] = "Idle"], broken',
              \A d \in Callers : phase[d] \in Exchange => c = d,
              UNCHANGED <<inbox, agent>>, inbox = <<>>, agent \in {"Sending", "Gone"}
       PROVE  Outcome
  BY <1>10, <1>p DEF OutOfStep, Exchange
<1>11. ASSUME NEW c \in Callers, WriteFails(c)
       PROVE  Outcome
  <2>1. \A d \in Callers : phase[d] \in Exchange => c = d
    BY <1>6, <1>11, <1>o DEF WriteFails, Exchange
  <2>2. inbox = <<>>
    <3>1. CASE phase[c] = "Writing"
      BY <1>6, <3>1 DEF Exchange, Under
    <3>2. CASE phase[c] = "Waiting"
      BY <2>1, <3>2 DEF Exchange, InStep
    <3> QED
      BY <1>11, <3>1, <3>2 DEF WriteFails
  <2> QED
    BY <1>10, <1>11, <2>1, <2>2 DEF WriteFails, TransportError, MarkBroken
<1>12. ASSUME NEW c \in Callers, ReadMisframed(c)
       PROVE  FALSE
  <2>1. phase[c] = "ReadingLen" /\ phase[c] \in Exchange /\ inbox # <<>>
    BY <1>12 DEF ReadMisframed, Misframed, Exchange
  <2>2. inbox = <<LenOf(req[c])>> \/ inbox = <<LenOf(req[c]), BodyOf(req[c])>>
    BY <1>6, <2>1 DEF Under
  <2> QED
    BY <1>12, <2>2 DEF ReadMisframed, Misframed, LenOf
<1>13. ASSUME NEW c \in Callers, BodyTimeout(c)
       PROVE  Outcome
  <2>1. phase[c] = "ReadingBody" /\ phase[c] \in Exchange /\ inbox = <<>>
    BY <1>13 DEF BodyTimeout, BodyTimesOut, Exchange
  <2>2. agent \in {"Sending", "Gone"}
    BY <1>6, <2>1, ShortSequences DEF Under
  <2> QED
    BY <1>6, <1>10, <1>13, <2>1, <2>2 DEF BodyTimeout, TransportError, MarkBroken
<1>14. ASSUME NEW c \in Callers, ReadEof(c)
       PROVE  Outcome
  <2>1. phase[c] \in Exchange
    BY <1>14 DEF ReadEof, Exchange
  <2> QED
    BY <1>6, <1>10, <1>14, <2>1 DEF ReadEof, StreamEnded, TransportError, MarkBroken
\* the agent
<1>15. ASSUME UNCHANGED client,
              (\A c \in Callers : phase[c] \notin Exchange) =>
                 stream' \in {<<<<>>, <<>>, "Idle">>, <<<<>>, <<>>, "Gone">>},
              \A c \in Callers : phase[c] \in Exchange => stream' \in Under(phase[c], req[c])
       PROVE  Outcome
  BY <1>15 DEF client, InStep
<1>16. ASSUME NEW c \in Callers, phase[c] \in Exchange,
              AgentReads \/ AgentSendsLength \/ AgentSendsBody
       PROVE  stream' \in Under(phase[c], req[c])
  <2>1. stream \in Under(phase[c], req[c])
    BY <1>6, <1>16
  <2>2. CASE AgentReads
    BY <2>1, <2>2, ShortSequences DEF AgentReads, Under, Asks
  <2>3. CASE AgentSendsLength
    BY <2>1, <2>3, ShortSequences DEF AgentSendsLength, Under, Asks, LenOf
  <2>4. CASE AgentSendsBody
    <3>1. outbox = Asks(req[c], TRUE) /\ (inbox = <<>> \/ inbox = <<LenOf(req[c])>>)
      BY <2>1, <2>4, ShortSequences DEF AgentSendsBody, Under
    <3>2. outbox' = <<>> /\ agent' = "Idle" /\ inbox' = Append(inbox, BodyOf(req[c]))
      BY <2>4, <3>1, ShortSequences DEF AgentSendsBody, Asks, BodyOf
    <3>3. CASE phase[c] = "ReadingLen"
      <4>1. inbox' = <<LenOf(req[c]), BodyOf(req[c])>>
        <5>1. inbox = <<LenOf(req[c])>>
          BY <2>1, <2>4, <3>3 DEF AgentSendsBody, Under
        <5> QED
          BY <3>2, <5>1, ShortSequences, Zenon
      <4> QED
        BY <3>2, <3>3, <4>1 DEF Under
    <3>4. CASE phase[c] = "ReadingBody"
      <4>1. inbox' = <<BodyOf(req[c])>>
        BY <2>1, <2>4, <3>2, <3>4, ShortSequences DEF AgentSendsBody, Under
      <4> QED
        BY <3>2, <3>4, <4>1 DEF Under
    <3> QED
      BY <1>16, <2>1, <2>4, <3>3, <3>4 DEF Exchange, Under, AgentSendsBody
  <2> QED
    BY <1>16, <2>2, <2>3, <2>4
<1>17. CASE AgentReads \/ AgentSendsLength \/ AgentSendsBody
  <2>1. \E c \in Callers : phase[c] \in Exchange
    BY <1>17 DEF InStep, AgentReads, AgentSendsLength, AgentSendsBody
  <2> QED
    BY <1>15, <1>16, <1>17, <2>1 DEF AgentReads, AgentSendsLength, AgentSendsBody
<1>18. CASE AgentCloses
  <2>1. ASSUME NEW c \in Callers, phase[c] \in Exchange PROVE stream' \in Under(phase[c], req[c])
    <3>1. stream \in Under(phase[c], req[c])
      BY <1>6, <2>1
    <3> QED
      BY <1>18, <3>1 DEF AgentCloses, Under
  <2>2. (\A c \in Callers : phase[c] \notin Exchange) =>
           stream' \in {<<<<>>, <<>>, "Idle">>, <<<<>>, <<>>, "Gone">>}
    BY <1>18 DEF AgentCloses, InStep
  <2> QED
    BY <1>15, <1>18, <2>1, <2>2 DEF AgentCloses
<1>19. CASE UNCHANGED vars
  BY <1>15, <1>19 DEF vars, client, InStep
<1> QED
  BY <1>3, <1>4, <1>5, <1>7, <1>8, <1>9, <1>11, <1>12, <1>13, <1>14, <1>17, <1>18, <1>19
     DEF Next, Caller, Cancel

(* Where no call is dropped and the connection is not marked broken, an    *)
(* answer is the answer to the caller's own request.                       *)
LEMMA AnswersStep ==
  ASSUME IInv, [Next]_vars, ~cancels, ~broken
  PROVE  \A d \in Callers : result'[d].type = "Answer" => result'[d].of = req'[d]
<1> USE DEF stream, session
<1>i. /\ result \in [Callers -> Result] /\ req \in [Callers -> Request \union {0}]
      /\ \A d \in Callers : result[d].type = "Answer" => result[d].of = req[d]
  BY DEF IInv, TypeOK, AnswersAreOwn
<1>1. ASSUME NEW c \in Callers, Call(c)
      PROVE  \A d \in Callers : result'[d].type = "Answer" => result'[d].of = req'[d]
  BY <1>i, <1>1 DEF Call, ResultOf
<1>2. ASSUME NEW c \in Callers, NEW type \in {"None", "Unusable", "Garbage"}, NEW of,
             result' = [result EXCEPT ![c] = ResultOf(type, of)], UNCHANGED req
      PROVE  \A d \in Callers : result'[d].type = "Answer" => result'[d].of = req'[d]
  BY <1>i, <1>2 DEF ResultOf
<1>3. ASSUME NEW c \in Callers, NEW granted \in BOOLEAN, ReadBody(c, granted)
      PROVE  \A d \in Callers : result'[d].type = "Answer" => result'[d].of = req'[d]
  <2>1. phase[c] = "ReadingBody" /\ phase[c] \in Exchange /\ inbox # <<>>
    BY <1>3 DEF ReadBody, Exchange
  <2>2. stream \in Under("ReadingBody", req[c])
    BY <2>1 DEF IInv, InStep
  <2>3. inbox = <<BodyOf(req[c])>>
    BY <2>1, <2>2 DEF Under
  <2>4. Head(inbox).of = req[c]
    BY <2>3, ShortSequences DEF BodyOf
  <2> QED
    BY <1>i, <1>3, <2>4 DEF ReadBody, Return, ResultOf
<1>4. CASE UNCHANGED <<result, req>>
  BY <1>i, <1>4
<1> QED
  BY <1>1, <1>2, <1>3, <1>4
     DEF Next, Caller, WriteStarts, WriteDone, WriteFails, ReadLength, ReadMisframed, BodyTimeout,
       ReadEof, Record, Cancel, TransportError, Return, AgentReads, AgentSendsLength,
       AgentSendsBody, AgentCloses, client, vars

(* The capabilities are there first.                                       *)
LEMMA CapsStep ==
  ASSUME TypeOK, CapsFirst, AuthenticatedHasCaps, [Next]_vars
  PROVE  CapsFirst' /\ AuthenticatedHasCaps'
<1> USE DEF session, stream
<1>p. phase \in [Callers -> Phase] /\ caps \in BOOLEAN /\ authenticated \in BOOLEAN
  BY DEF TypeOK
<1>1. ASSUME NEW c \in Callers, NEW p \in {"Idle", "Waiting", "Writing", "ReadingLen", "ReadingBody", "Caps"},
             phase' \in {phase, [phase EXCEPT ![c] = p]}, UNCHANGED session
      PROVE  CapsFirst' /\ AuthenticatedHasCaps'
  BY <1>p, <1>1 DEF CapsFirst, AuthenticatedHasCaps
<1>2. ASSUME NEW c \in Callers, Record(c)
      PROVE  CapsFirst' /\ AuthenticatedHasCaps'
  <2>1. CASE phase[c] = "Caps"
    BY <1>p, <1>2, <2>1 DEF Record, Recorded, CapsFirst, AuthenticatedHasCaps
  <2>2. CASE phase[c] = "Store"
    BY <1>p, <1>2, <2>2 DEF Record, Recorded, CapsFirst, AuthenticatedHasCaps
  <2> QED
    BY <1>2, <2>1, <2>2 DEF Record
<1>3. ASSUME NEW c \in Callers,
             \/ Call(c)
             \/ WriteStarts(c) \/ WriteDone(c) \/ WriteFails(c)
             \/ ReadLength(c) \/ ReadMisframed(c) \/ BodyTimeout(c) \/ ReadEof(c) \/ Cancel(c)
      PROVE  CapsFirst' /\ AuthenticatedHasCaps'
  BY <1>1, <1>3 DEF Call, WriteStarts, WriteDone, WriteFails, ReadLength, ReadMisframed,
     BodyTimeout, ReadEof, Cancel, TransportError
<1>4. ASSUME NEW c \in Callers, NEW granted \in BOOLEAN, ReadBody(c, granted)
      PROVE  CapsFirst' /\ AuthenticatedHasCaps'
  BY <1>1, <1>4 DEF ReadBody
<1>5. CASE UNCHANGED <<phase, session>>
  BY <1>5 DEF CapsFirst, AuthenticatedHasCaps
<1> QED
  BY <1>2, <1>3, <1>4, <1>5
     DEF Next, Caller, AgentReads, AgentSendsLength, AgentSendsBody, AgentCloses, client, vars

(* The inductive invariant is one.                                         *)
LEMMA Invariance == Spec => []IInv
<1>1. Init => IInv
  <2> SUFFICES ASSUME Init PROVE IInv
    OBVIOUS
  <2> USE DEF Init
  <2>1. TypeOK
    <3>1. lock \in Seq(Callers) /\ outbox \in Seq(Frame) /\ inbox \in Seq(Piece) /\ Len(lock) = 0
      BY EmptySeq
    <3>2. result \in [Callers -> Result]
      BY DEF Result, ResultOf
    <3>3. next_req \in 1..(MaxRequests + 1) /\ cancels \in BOOLEAN
      BY ClientAssumption
    <3>4. \A c \in Callers : phase[c] \in Locking <=> \E i \in 1..Len(lock) : lock[i] = c
      BY <3>1 DEF Locking
    <3>5. \A i, j \in 1..Len(lock) : lock[i] = lock[j] => i = j
      BY <3>1
    <3>6. caps \in BOOLEAN /\ authenticated \in BOOLEAN /\ phase \in [Callers -> Phase]
      BY DEF Phase, session
    <3>7. agent \in {"Idle", "Busy", "Sending", "Gone"} /\ broken \in BOOLEAN
      BY DEF stream
    <3>8. req \in [Callers -> Request \union {0}]
      OBVIOUS
    <3> QED
      BY <3>1, <3>2, <3>3, <3>4, <3>5, <3>6, <3>7, <3>8 DEF TypeOK
  <2>2. HolderExchanges /\ CallsNumbered /\ AgentHasRequest /\ CapsFirst /\ AuthenticatedHasCaps
    BY DEF HolderExchanges, CallsNumbered, AgentHasRequest, CapsFirst, AuthenticatedHasCaps, Exchange
  <2>3. InStep /\ ~broken /\ AnswersAreOwn
    BY DEF InStep, AnswersAreOwn, Exchange, ResultOf, stream
  <2> QED
    BY <2>1, <2>2, <2>3 DEF IInv
<1>2. IInv /\ [Next]_vars => IInv'
  <2> SUFFICES ASSUME IInv, [Next]_vars PROVE IInv'
    OBVIOUS
  <2>1. TypeOK' /\ CallsNumbered' /\ AgentHasRequest'
    BY TypeStep DEF IInv, Typed
  <2>2. HolderExchanges'
    BY QueueStep DEF IInv, Queue
  <2>3. UNCHANGED cancels
    BY DEF Next, Caller, Call, WriteStarts, WriteDone, WriteFails, ReadLength, ReadMisframed,
       ReadBody, BodyTimeout, ReadEof, Record, Cancel, TransportError, AgentReads,
       AgentSendsLength, AgentSendsBody, AgentCloses, client, vars
  <2>b. ~broken' => ~broken
    BY BrokenForGood DEF IInv
  <2>4. ~cancels /\ ~broken' => InStep'
    BY <2>b, StaysInStep DEF IInv
  <2>5. ~cancels /\ ~broken' =>
           \A d \in Callers : result'[d].type = "Answer" => result'[d].of = req'[d]
    BY <2>b, AnswersStep
  <2>6. CapsFirst' /\ AuthenticatedHasCaps'
    BY CapsStep DEF IInv
  <2> QED
    BY <2>1, <2>2, <2>3, <2>4, <2>5, <2>6 DEF IInv, AnswersAreOwn
<1> QED
  BY <1>1, <1>2, PTL DEF Spec

-----------------------------------------------------------------------------
(* The theorems.                                                           *)

(* Every variable keeps its type, and a caller is on the lock once, while  *)
(* it is inside round_trip.                                                *)
THEOREM TypeCorrect == Spec => []TypeOK
<1>1. IInv => TypeOK
  BY DEF IInv
<1> QED
  BY <1>1, Invariance, PTL

(* The stream of a connection not marked broken is in step.                *)
THEOREM StreamInStep == Spec => []InStepUnlessBroken
<1>1. IInv => InStepUnlessBroken
  BY DEF IInv, InStep, InStepUnlessBroken, stream
<1> QED
  BY <1>1, Invariance, PTL

(* What a connection not marked broken has handed to its callers answered  *)
(* each one's own request, where no call is dropped.                       *)
THEOREM OwnAnswers == Spec => []AnswersAreOwn
<1>1. IInv => AnswersAreOwn
  BY DEF IInv
<1> QED
  BY <1>1, Invariance, PTL

(* An authenticated connection has its capabilities.                       *)
THEOREM CapsRecorded == Spec => []AuthenticatedHasCaps
<1>1. IInv => AuthenticatedHasCaps
  BY DEF IInv
<1> QED
  BY <1>1, Invariance, PTL

(* Only a dropped call lets requests overlap: where the callers never drop *)
(* one, a request completes before the next starts, as round_trip says.    *)
THEOREM NoOverlapWithoutCancels ==
  ASSUME Cancels = {FALSE}
  PROVE  Spec => RequestsDoNotOverlap
<1> DEFINE Apart == \A c \in Callers :
                      phase[c] = "Waiting" /\ phase'[c] = "Writing" /\ ~broken =>
                        outbox = <<>> /\ inbox = <<>>
<1>1. ASSUME IInv, [Next]_vars PROVE Apart
  <2> SUFFICES ASSUME NEW c \in Callers,
                      phase[c] = "Waiting", phase'[c] = "Writing", ~broken
               PROVE  outbox = <<>> /\ inbox = <<>>
    OBVIOUS
  <2> USE DEF stream, session
  <2>i. ~cancels /\ InStep /\ HolderExchanges /\ phase \in [Callers -> Phase]
    BY <1>1 DEF IInv, TypeOK
  <2>1. WriteStarts(c)
    BY <1>1, <2>i DEF Next, Caller, Call, WriteStarts, WriteDone, WriteFails, ReadLength,
       ReadMisframed, ReadBody, BodyTimeout, BodyTimesOut, ReadEof, Record, Cancel,
       TransportError, AgentReads, AgentSendsLength, AgentSendsBody, AgentCloses, client, vars
  <2>2. \A d \in Callers : phase[d] \notin Exchange
    BY <2>i, <2>1 DEF WriteStarts, HolderExchanges, Holds, Exchange
  <2> QED
    BY <2>i, <2>2 DEF InStep
<1> QED
  BY <1>1, Invariance, PTL DEF Spec, RequestsDoNotOverlap

(* Where there is one caller, nobody waits for the lock of a connection    *)
(* that breaks, and a call on a broken one does not get as far.            *)
NobodyQueued == broken => \A c \in Callers : phase[c] \notin Locking

LEMMA OneCallerStep ==
  ASSUME IInv, ~cancels, \A c, d \in Callers : c = d, NobodyQueued, NoMisframedRead, [Next]_vars
  PROVE  NobodyQueued' /\ NoMisframedRead'
<1> USE DEF NobodyQueued, NoMisframedRead
<1>i. phase \in [Callers -> Phase] /\ result \in [Callers -> Result]
  BY DEF IInv, TypeOK
<1>1. ASSUME NEW c \in Callers, Call(c)
      PROVE  NobodyQueued' /\ NoMisframedRead'
  BY <1>i, <1>1 DEF Call, ResultOf
<1>2. ASSUME NEW c \in Callers, WriteStarts(c) \/ WriteDone(c) \/ ReadLength(c) \/ Record(c)
      PROVE  NobodyQueued' /\ NoMisframedRead'
  BY <1>i, <1>2 DEF WriteStarts, WriteDone, ReadLength, Record, Locking
<1>3. ASSUME NEW c \in Callers, WriteFails(c) \/ BodyTimeout(c) \/ ReadEof(c)
      PROVE  NobodyQueued' /\ NoMisframedRead'
  BY <1>i, <1>3 DEF WriteFails, BodyTimeout, ReadEof, TransportError, Return, ResultOf, Locking
<1>4. ASSUME NEW c \in Callers, ReadMisframed(c)
      PROVE  FALSE
  <2>1. phase[c] = "ReadingLen" /\ inbox # <<>> /\ Head(inbox).part = "Body"
    BY <1>4 DEF ReadMisframed, Misframed
  <2>2. ~broken
    BY <2>1 DEF Locking
  <2>3. stream \in Under("ReadingLen", req[c])
    BY <2>1, <2>2 DEF IInv, InStep, Exchange
  <2>4. inbox \in {<<>>, <<LenOf(req[c])>>, <<LenOf(req[c]), BodyOf(req[c])>>}
    BY <2>3 DEF Under, stream
  <2>5. Head(inbox) = LenOf(req[c])
    BY <2>1, <2>4, ShortSequences
  <2> QED
    BY <2>1, <2>5 DEF LenOf
<1>5. ASSUME NEW c \in Callers, NEW granted, ReadBody(c, granted)
      PROVE  NobodyQueued' /\ NoMisframedRead'
  BY <1>i, <1>5 DEF ReadBody, Return, ResultOf, Locking
<1>6. \A c \in Callers : ~Cancel(c)
  BY DEF Cancel
<1>7. CASE AgentReads \/ AgentSendsLength \/ AgentSendsBody \/ AgentCloses \/ UNCHANGED vars
  BY <1>7 DEF AgentReads, AgentSendsLength, AgentSendsBody, AgentCloses, client, vars
<1> QED
  BY <1>1, <1>2, <1>3, <1>4, <1>5, <1>6, <1>7 DEF Next, Caller

(* A call takes the rest of an earlier response for its own only if it     *)
(* waited for the lock while the connection broke, or after a dropped call: *)
(* one caller that drops none fails fast, as the comment on broken says.   *)
THEOREM NoMisframedReadAlone ==
  ASSUME Cancels = {FALSE}, \A c, d \in Callers : c = d
  PROVE  Spec => []NoMisframedRead
<1>1. Init => NobodyQueued /\ NoMisframedRead
  BY DEF Init, NobodyQueued, NoMisframedRead, ResultOf
<1>2. IInv /\ NobodyQueued /\ NoMisframedRead /\ [Next]_vars => NobodyQueued' /\ NoMisframedRead'
  BY OneCallerStep DEF IInv
<1> QED
  BY <1>1, <1>2, Invariance, PTL DEF Spec

(* Where there are two callers, at most one waits for the lock of a         *)
(* connection that breaks, and nobody comes after it.                      *)
OneLeft == \A c, d \in Callers : phase[c] \in Locking /\ phase[d] \in Locking => c = d
LastInQueue == broken => (\A c \in Callers : phase[c] \notin Locking) \/ (OutOfStep /\ OneLeft)

LEMMA TwoCallersStep ==
  ASSUME IInv, ~cancels, \A c, d, e \in Callers : c = d \/ c = e \/ d = e,
         LastInQueue, NoForeignAnswer, [Next]_vars
  PROVE  LastInQueue' /\ NoForeignAnswer'
<1> USE DEF stream, session
<1>i. TypeOK /\ phase \in [Callers -> Phase] /\ result \in [Callers -> Result]
  BY DEF IInv, TypeOK
<1>1. CASE ~broken
  <2>1. NoForeignAnswer'
    BY <1>1, AnswersStep DEF NoForeignAnswer
  <2>2. ASSUME broken' PROVE OutOfStep' /\ \E c \in Callers : phase'[c] = "Idle"
    <3>1. OutOfStep'
      BY <1>1, <2>2, StaysInStep DEF IInv
    <3>2. \E c \in Callers : phase' = [phase EXCEPT ![c] = "Idle"]
      BY <1>1, <2>2 DEF Next, Caller, Call, WriteStarts, WriteDone, WriteFails, ReadLength,
         ReadMisframed, ReadBody, BodyTimeout, ReadEof, Record, Cancel, TransportError,
         AgentReads, AgentSendsLength, AgentSendsBody, AgentCloses, client, vars
    <3> QED
      BY <1>i, <3>1, <3>2
  <2>3. (\E c \in Callers : phase'[c] = "Idle") => OneLeft'
    BY DEF OneLeft, Locking
  <2> QED
    BY <2>1, <2>2, <2>3 DEF LastInQueue
<1>2. CASE broken
  <2>1. broken'
    BY <1>2, <1>i, BrokenForGood
  <2>2. \A c \in Callers : phase'[c] \in Locking => phase[c] \in Locking
    <3>1. ASSUME NEW c \in Callers, Caller(c)
          PROVE  \A d \in Callers : phase'[d] \in Locking => phase[d] \in Locking
      <4>1. PICK p \in Phase : /\ phase' \in {phase, [phase EXCEPT ![c] = p]}
                               /\ phase[c] \in Locking \/ p \notin Locking
        BY <1>2, <3>1 DEF Caller, Call, WriteStarts, WriteDone, WriteFails, ReadLength,
           ReadMisframed, Misframed, ReadBody, BodyTimeout, BodyTimesOut, ReadEof, Record, Cancel,
           TransportError, Phase, Locking
      <4> QED
        BY <1>i, <4>1
    <3>2. CASE UNCHANGED phase
      BY <3>2
    <3> QED
      BY <3>1, <3>2 DEF Next, AgentReads, AgentSendsLength, AgentSendsBody, AgentCloses,
         client, vars
  <2>3. ASSUME NEW c \in Callers, ReadMisframed(c)
        PROVE  phase[c] \in Locking /\ phase'[c] \notin Locking
    BY <1>i, <2>3 DEF ReadMisframed, Misframed, TransportError, Locking
  <2>4. LastInQueue'
    <3>1. CASE \A c \in Callers : phase[c] \notin Locking
      BY <2>2, <3>1 DEF LastInQueue
    <3>2. CASE OutOfStep /\ OneLeft /\ \A c \in Callers : ~ReadMisframed(c)
      <4>1. OutOfStep'
        BY <1>2, <1>i, <3>2, StaysBroken
      <4> QED
        BY <2>2, <3>2, <4>1 DEF LastInQueue, OneLeft
    <3>3. CASE OneLeft /\ \E c \in Callers : ReadMisframed(c)
      BY <2>2, <2>3, <3>3 DEF LastInQueue, OneLeft
    <3> QED
      BY <1>2, <3>1, <3>2, <3>3 DEF LastInQueue
  <2>5. \A c \in Callers, granted \in BOOLEAN : ~ReadBody(c, granted)
    BY <1>2 DEF LastInQueue, OutOfStep, ReadBody, Locking
  <2>6. NoForeignAnswer'
    <3>1. ASSUME NEW c \in Callers, Call(c)
          PROVE  NoForeignAnswer'
      BY <1>i, <3>1 DEF Call, NoForeignAnswer, ResultOf, IInv, TypeOK
    <3>2. ASSUME NEW c \in Callers, NEW type \in {"Unusable", "Garbage"},
                 result' = [result EXCEPT ![c] = ResultOf(type, req[c])], UNCHANGED req
          PROVE  NoForeignAnswer'
      BY <1>i, <3>2 DEF NoForeignAnswer, ResultOf
    <3>3. CASE UNCHANGED <<result, req>>
      BY <3>3 DEF NoForeignAnswer
    <3>4. ASSUME NEW c \in Callers, WriteFails(c) \/ ReadMisframed(c) \/ BodyTimeout(c) \/ ReadEof(c)
          PROVE  NoForeignAnswer'
      <4>1. /\ UNCHANGED req
            /\ \E type \in {"Unusable", "Garbage"} :
                 result' = [result EXCEPT ![c] = ResultOf(type, req[c])]
        BY <3>4 DEF WriteFails, ReadMisframed, BodyTimeout, ReadEof, TransportError, Return
      <4> QED
        BY <3>2, <4>1
    <3>5. ASSUME NEW c \in Callers, WriteStarts(c) \/ WriteDone(c) \/ ReadLength(c) \/ Record(c)
          PROVE  UNCHANGED <<result, req>>
      BY <3>5 DEF WriteStarts, WriteDone, ReadLength, Record
    <3>6. \A c \in Callers : ~Cancel(c)
      BY DEF Cancel
    <3>7. AgentReads \/ AgentSendsLength \/ AgentSendsBody \/ AgentCloses \/ UNCHANGED vars
            => UNCHANGED <<result, req>>
      BY DEF AgentReads, AgentSendsLength, AgentSendsBody, AgentCloses, client, vars
    <3> QED
      BY <2>5, <3>1, <3>3, <3>4, <3>5, <3>6, <3>7 DEF Next, Caller
  <2> QED
    BY <2>4, <2>6
<1> QED
  BY <1>1, <1>2

(* A caller is handed the response to another request only if a call was    *)
(* dropped, or two callers were queued when the connection broke: of two   *)
(* callers that drop no call, neither ever is.                             *)
THEOREM NoForeignAnswerForTwo ==
  ASSUME Cancels = {FALSE}, \A c, d, e \in Callers : c = d \/ c = e \/ d = e
  PROVE  Spec => []NoForeignAnswer
<1>1. Init => LastInQueue /\ NoForeignAnswer
  BY DEF Init, LastInQueue, NoForeignAnswer, ResultOf
<1>2. IInv /\ LastInQueue /\ NoForeignAnswer /\ [Next]_vars => LastInQueue' /\ NoForeignAnswer'
  BY TwoCallersStep DEF IInv
<1> QED
  BY <1>1, <1>2, Invariance, PTL DEF Spec
=============================================================================
