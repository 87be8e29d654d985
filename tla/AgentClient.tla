---------------------------- MODULE AgentClient ----------------------------
(***************************************************************************)
(* AgentExecutor of src/agent.rs: several callers share one connection to  *)
(* the agent.  round_trip takes the connection's lock (tokio's Mutex: first *)
(* come, first served), writes a request frame, reads the response frame   *)
(* (an untimed length prefix, then a body under FRAME_BODY_TIMEOUT) and    *)
(* releases the lock; a transport error marks the connection broken.       *)
(*                                                                         *)
(* The stream is modelled down to what can go out of step: a request is in *)
(* `outbox` whole or cut short; a response is two pieces in `inbox`, its   *)
(* length prefix and its body, each tagged with the request it answers.  A  *)
(* prefix arrives all at once; of a body, some bytes may have been read     *)
(* when its reader gives up, and "Body" then stands for the rest of it.     *)
(* Where a prefix should be, a "Body" is bytes that mean nothing: taken for *)
(* a length they make the read fail or misread, and what it took off the    *)
(* stream is gone.                                                         *)
(* The agent (modelled for itself in AgentServer) is the environment here: *)
(* it answers requests one at a time and in order, may stall between the   *)
(* two pieces, and may go away.                                            *)
(*                                                                         *)
(* A definition marked "Fault" is a plausible slip in the definition that  *)
(* follows it, kept to confirm that the properties notice it.              *)
(***************************************************************************)
EXTENDS Naturals, Sequences, SequencesExt

CONSTANTS
  Callers,       \* tasks holding the same executor
  MaxRequests,   \* bound: calls made in one behaviour
  Cancels        \* {FALSE}, {TRUE} or both: what `cancels` may be

ASSUME ClientAssumption ==
  /\ MaxRequests \in Nat
  /\ Cancels \subseteq BOOLEAN

VARIABLES
  cancels,        \* callers may drop a call's future at an await
  broken,         \* the flag
  lock,           \* who holds conn (the head) and who waits, in order
  phase,          \* where each caller is in its call
  req,            \* the number of the caller's current request
  result,         \* what the caller's last call returned
  caps,           \* the OnceLock is set
  authenticated,  \* the flag
  next_req,       \* requests are numbered as they are made
  outbox, inbox,  \* the stream, both ways
  agent           \* the far end: "Idle", "Busy", "Sending" or "Gone"

stream == <<outbox, inbox, agent>>
session == <<caps, authenticated>>
vars == <<cancels, broken, lock, phase, req, result, session, next_req, stream>>

Request == 1..MaxRequests

Locking  == {"Waiting", "Writing", "ReadingLen", "ReadingBody"}
Exchange == {"Writing", "ReadingLen", "ReadingBody"}
Phase    == {"Idle", "Caps", "Store"} \union Locking

Result == [type : {"None", "Answer", "Unusable", "Garbage"}, of : Request \union {0}]
ResultOf(type, r) == [type |-> type, of |-> r]

Frame == [of : Request, whole : BOOLEAN]
Piece == [part : {"Len", "Body"}, of : Request]

Init ==
  /\ cancels \in Cancels
  /\ broken = FALSE
  /\ lock = <<>>
  /\ phase = [c \in Callers |-> "Idle"]
  /\ req = [c \in Callers |-> 0]
  /\ result = [c \in Callers |-> ResultOf("None", 0)]
  /\ caps = FALSE /\ authenticated = FALSE
  /\ next_req = 1
  /\ outbox = <<>> /\ inbox = <<>> /\ agent = "Idle"

Holds(c) == lock # <<>> /\ Head(lock) = c

(* The guard is dropped, or a waiter gives up its place. *)
Released(c) == RemoveFirst(lock, c)

Return(c, what) ==
  /\ result' = [result EXCEPT ![c] = what]
  /\ lock' = Released(c)

-----------------------------------------------------------------------------
(* round_trip.                                                             *)

(* A call begins: refused at once on a broken connection, else it waits    *)
(* for the lock.                                                           *)
Call(c) ==
  /\ phase[c] = "Idle"
  /\ next_req <= MaxRequests                                       \* bound
  /\ next_req' = next_req + 1
  /\ req' = [req EXCEPT ![c] = next_req]
  /\ IF broken
       THEN /\ result' = [result EXCEPT ![c] = ResultOf("Unusable", next_req)]
            /\ UNCHANGED <<phase, lock>>
       ELSE /\ phase' = [phase EXCEPT ![c] = "Waiting"]
            /\ lock' = Append(lock, c)
            /\ result' = [result EXCEPT ![c] = ResultOf("None", 0)]
  /\ UNCHANGED <<cancels, broken, session, stream>>

(* write_frame with the lock held: the frame goes out in two parts. *)
WriteStarts(c) ==
  /\ phase[c] = "Waiting" /\ Holds(c)
  /\ agent # "Gone"
  /\ phase' = [phase EXCEPT ![c] = "Writing"]
  /\ outbox' = Append(outbox, [of |-> req[c], whole |-> FALSE])
  /\ UNCHANGED <<cancels, broken, lock, req, result, session, next_req, inbox, agent>>

(* Fault: the guard is dropped once the request is on the wire. *)
UnlockAfterWrite(c) == lock' = Released(c)

KeepLock(c) == UNCHANGED lock

WriteDone(c) ==
  /\ phase[c] = "Writing"
  /\ agent # "Gone"
  /\ phase' = [phase EXCEPT ![c] = "ReadingLen"]
  /\ outbox' = [outbox EXCEPT ![Len(outbox)].whole = TRUE]
  /\ KeepLock(c)
  /\ UNCHANGED <<cancels, broken, req, result, session, next_req, inbox, agent>>

(* Fault: only a failed write is taken for a broken stream. *)
BrokenByWrites(c) ==
  broken' = (broken \/ phase[c] \in {"Waiting", "Writing"})

MarkBroken(c) == broken' = TRUE

(* A write or read error: the connection is marked broken, the lock freed. *)
TransportError(c, type) ==
  /\ MarkBroken(c)
  /\ Return(c, ResultOf(type, req[c]))
  /\ phase' = [phase EXCEPT ![c] = "Idle"]
  /\ UNCHANGED <<cancels, req, session, next_req, outbox, agent>>

WriteFails(c) ==
  /\ agent = "Gone"
  /\ phase[c] = "Writing" \/ (phase[c] = "Waiting" /\ Holds(c))
  /\ TransportError(c, "Unusable")
  /\ UNCHANGED inbox

(* Four bytes arrived and are a length prefix. *)
ReadLength(c) ==
  /\ phase[c] = "ReadingLen"
  /\ inbox # <<>> /\ Head(inbox).part = "Len"
  /\ inbox' = Tail(inbox)
  /\ phase' = [phase EXCEPT ![c] = "ReadingBody"]
  /\ UNCHANGED <<cancels, broken, lock, req, result, session, next_req, outbox, agent>>

(* The rest of an earlier response is where a length prefix should be.     *)
Misframed(c) ==
  /\ phase[c] = "ReadingLen"
  /\ inbox # <<>> /\ Head(inbox).part = "Body"

(* A response cut anywhere: what is left of its first piece means nothing. *)
Cut(pieces) == [pieces EXCEPT ![1].part = "Body"]

(* What a misframed read may leave of the stream: it takes four bytes, and *)
(* more if they make a length within the limit, and so ends anywhere, at a *)
(* boundary between pieces too (a body of four bytes is one such read).    *)
Leftovers(pieces) ==
  LET rests == Suffixes(pieces) IN rests \union {Cut(rest) : rest \in rests \ {<<>>}}

(* Four bytes of an earlier response's body are taken for a length.  Over   *)
(* the limit, short or stalled, the read fails; else a frame is read that   *)
(* no agent sent, and decoding makes of it what it can, an error or a      *)
(* response of any kind.                                                   *)
ReadMisframed(c) ==
  /\ Misframed(c)
  /\ inbox' \in Leftovers(inbox)
  /\ \/ TransportError(c, "Garbage")
     \/ /\ Return(c, ResultOf("Garbage", req[c]))
        /\ \E next \in {"Idle", "Caps"} : phase' = [phase EXCEPT ![c] = next]
        /\ UNCHANGED <<cancels, broken, req, session, next_req, outbox, agent>>

(* The body is in: the lock is released and the response decoded.  If the  *)
(* call was a handshake and is granted, it goes on to record capabilities. *)
ReadBody(c, granted) ==
  /\ phase[c] = "ReadingBody"
  /\ inbox # <<>>
  /\ inbox' = Tail(inbox)
  /\ Return(c, ResultOf("Answer", Head(inbox).of))
  /\ phase' = [phase EXCEPT ![c] = IF granted THEN "Caps" ELSE "Idle"]
  /\ UNCHANGED <<cancels, broken, req, session, next_req, outbox, agent>>

(* Fault: only a connection that is gone ends the wait for a body. *)
BodyEof(c) == phase[c] = "ReadingBody" /\ inbox = <<>> /\ agent = "Gone"

BodyTimesOut(c) == phase[c] = "ReadingBody" /\ inbox = <<>>

(* FRAME_BODY_TIMEOUT, or the end of the stream in the middle of a frame. *)
BodyTimeout(c) ==
  /\ BodyTimesOut(c)
  /\ TransportError(c, "Unusable")
  /\ UNCHANGED inbox

(* Fault: a read of no bytes is taken for "nothing yet". *)
NothingYet == FALSE

StreamEnded == inbox = <<>> /\ agent = "Gone"

(* The stream ends where a response should begin. *)
ReadEof(c) ==
  /\ phase[c] = "ReadingLen"
  /\ StreamEnded
  /\ TransportError(c, "Unusable")
  /\ UNCHANGED inbox

(* The caller drops the future at an await: the guard goes, the flag stays, *)
(* and so does what was read of the stream.                                *)
Cancel(c) ==
  /\ cancels
  /\ phase[c] \in Locking
  /\ Return(c, ResultOf("None", 0))
  /\ phase' = [phase EXCEPT ![c] = "Idle"]
  /\ inbox' \in IF Misframed(c) THEN Leftovers(inbox) ELSE {inbox}
  /\ UNCHANGED <<cancels, broken, req, session, next_req, outbox, agent>>

-----------------------------------------------------------------------------
(* authenticate and request_authorization, once granted.                   *)

(* Fault: the flag goes up before the capabilities are there. *)
FlagFirst(c) == IF phase[c] = "Caps" THEN "authenticated" ELSE "caps"

Recorded(c) == IF phase[c] = "Caps" THEN "caps" ELSE "authenticated"

(* caps.set (a no-op when already set), then authenticated.store. *)
Record(c) ==
  /\ phase[c] \in {"Caps", "Store"}
  /\ phase' = [phase EXCEPT ![c] = IF phase[c] = "Caps" THEN "Store" ELSE "Idle"]
  /\ caps' = (caps \/ Recorded(c) = "caps")
  /\ authenticated' = (authenticated \/ Recorded(c) = "authenticated")
  /\ UNCHANGED <<cancels, broken, lock, req, result, next_req, stream>>

-----------------------------------------------------------------------------
(* The agent at the far end of the stream.                                 *)

client == <<cancels, broken, lock, phase, req, result, session, next_req>>

(* It reads a whole request, and only then the next one. *)
AgentReads ==
  /\ agent = "Idle"
  /\ outbox # <<>> /\ Head(outbox).whole
  /\ agent' = "Busy"
  /\ UNCHANGED <<client, outbox, inbox>>

AgentSendsLength ==
  /\ agent = "Busy"
  /\ inbox' = Append(inbox, [part |-> "Len", of |-> Head(outbox).of])
  /\ agent' = "Sending"
  /\ UNCHANGED <<client, outbox>>

AgentSendsBody ==
  /\ agent = "Sending"
  /\ inbox' = Append(inbox, [part |-> "Body", of |-> Head(outbox).of])
  /\ outbox' = Tail(outbox)
  /\ agent' = "Idle"
  /\ UNCHANGED client

(* It shuts down, reaps the connection, or cannot make out a frame. *)
AgentCloses ==
  /\ agent # "Gone"
  /\ agent' = "Gone"
  /\ outbox' = <<>>
  /\ UNCHANGED <<client, inbox>>

-----------------------------------------------------------------------------
Caller(c) ==
  \/ Call(c)
  \/ WriteStarts(c) \/ WriteDone(c) \/ WriteFails(c)
  \/ ReadLength(c) \/ ReadMisframed(c)
  \/ \E granted \in BOOLEAN : ReadBody(c, granted)
  \/ BodyTimeout(c) \/ ReadEof(c)
  \/ Record(c)
  \/ Cancel(c)

Next ==
  \/ \E c \in Callers : Caller(c)
  \/ AgentReads \/ AgentSendsLength \/ AgentSendsBody \/ AgentCloses

Spec == Init /\ [][Next]_vars

(* The runtime's part: the timer fires, and a caller that can go on does.  *)
(* Nothing is assumed of the agent: fewer than four bytes where a prefix   *)
(* should be may keep a caller waiting for as long as the agent is there.  *)
FairSpec ==
  /\ Spec
  /\ \A c \in Callers :
       /\ WF_vars(BodyTimeout(c) \/ (\E granted \in BOOLEAN : ReadBody(c, granted)))
       /\ WF_vars(ReadEof(c) \/ WriteFails(c) \/ ReadLength(c) \/ (agent = "Gone" /\ ReadMisframed(c)))
       /\ WF_vars(Record(c))

-----------------------------------------------------------------------------
(* Type invariant; and a caller is on the lock, once, exactly while it is  *)
(* inside round_trip.                                                      *)
TypeOK ==
  /\ cancels \in BOOLEAN /\ broken \in BOOLEAN
  /\ caps \in BOOLEAN /\ authenticated \in BOOLEAN
  /\ lock \in Seq(Callers)
  /\ \A i, j \in 1..Len(lock) : lock[i] = lock[j] => i = j
  /\ \A c \in Callers : phase[c] \in Locking <=> \E i \in 1..Len(lock) : lock[i] = c
  /\ phase \in [Callers -> Phase]
  /\ req \in [Callers -> Request \union {0}]
  /\ result \in [Callers -> Result]
  /\ next_req \in 1..(MaxRequests + 1)
  /\ outbox \in Seq(Frame) /\ inbox \in Seq(Piece)
  /\ agent \in {"Idle", "Busy", "Sending", "Gone"}

(* Where no call is dropped half-way, the stream of a connection not marked *)
(* broken is in step: between two exchanges nothing of an earlier one is   *)
(* left on it, in either direction.                                        *)
InStepUnlessBroken ==
  ~cancels /\ ~broken /\ (\A c \in Callers : phase[c] \notin Exchange) =>
    outbox = <<>> /\ inbox = <<>> /\ agent \in {"Idle", "Gone"}

(* Where no call is dropped half-way, what a connection not marked broken  *)
(* has handed to its callers answered each one's own request, however they *)
(* queue and interleave on it.                                             *)
AnswersAreOwn ==
  ~cancels /\ ~broken =>
    \A c \in Callers : result[c].type = "Answer" => result[c].of = req[c]

(* Whoever sees the connection authenticated also finds its capabilities   *)
(* (access and base_url would otherwise report the defaults).              *)
AuthenticatedHasCaps == authenticated => caps

(* A response that stalls after its length prefix does not hold a call, or *)
(* the callers queued behind it, for ever: FRAME_BODY_TIMEOUT.             *)
StalledBodyEnds ==
  \A c \in Callers : phase[c] = "ReadingBody" ~> phase[c] # "ReadingBody"

(* Once the agent is gone every call comes back, the queued ones included: *)
(* the lock is passed on from each failed caller to the next.              *)
NobodyWaitsForAGoneAgent ==
  \A c \in Callers : (agent = "Gone" /\ phase[c] \in Locking) ~> phase[c] \notin Locking

(* "Further requests fail fast instead of reading misframed garbage": no   *)
(* call takes the rest of an earlier response for its own.                 *)
NoMisframedRead == \A c \in Callers : result[c].type # "Garbage"

(* "A desynchronized stream can never be trusted again, so further requests *)
(* fail fast", and "a request fully completes before the next one starts   *)
(* on the shared stream": whatever fails or is dropped, no caller is handed *)
(* the response to another request as its own.                             *)
NoForeignAnswer ==
  \A c \in Callers : result[c].type = "Answer" => result[c].of = req[c]

(* "A request fully completes before the next one starts on the shared     *)
(* stream": on an unbroken connection a caller starts to write only when   *)
(* nothing of an earlier request is under way.                             *)
RequestsDoNotOverlap ==
  [][\A c \in Callers :
       phase[c] = "Waiting" /\ phase'[c] = "Writing" /\ ~broken =>
         outbox = <<>> /\ inbox = <<>>]_vars
=============================================================================
