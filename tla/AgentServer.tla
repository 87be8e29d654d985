---------------------------- MODULE AgentServer ----------------------------
(***************************************************************************)
(* The signing agent of src/agent.rs: AgentServer's accept loop, the       *)
(* registry it shares with AgentControl, and one session task per          *)
(* connection (handle_connection).                                         *)
(*                                                                         *)
(* A session is a task: between two of its awaits (reading a frame, the    *)
(* executor's answer, writing a reply) it runs the handler of one request, *)
(* which enters the registry's mutex once.  That critical section is one   *)
(* action here.  The operator's grants and denials, the accept loop, the   *)
(* timers and the other sessions interleave between those actions.         *)
(*                                                                         *)
(* Peers are the environment: any frame may arrive in "Body", a peer may   *)
(* stall or vanish at any await.  Labels, peer credentials and timestamps, *)
(* which no decision depends on, are left out.                             *)
(*                                                                         *)
(* A definition marked "Fault" is not part of the specification: it is a   *)
(* plausible slip in the definition that follows it, kept to confirm that  *)
(* the properties notice it.                                               *)
(***************************************************************************)
EXTENDS Access, FiniteSets

CONSTANTS
  MaxConnId,          \* bound: connections accepted in one behaviour
  MAX_CONNECTIONS,    \* concurrently served connections (64 in the code)
  MAX_AUTH_ATTEMPTS,  \* wrong tokens tolerated on a connection (5)
  Ceilings,           \* the tiers agents are started with
  Methods, Paths      \* what Execute frames name

ASSUME BoundsAssumption ==
  /\ MaxConnId \in Nat
  /\ MAX_CONNECTIONS \in Nat
  /\ MAX_AUTH_ATTEMPTS \in Nat \ {0}
  /\ Ceilings \subseteq AccessLevel

VARIABLES
  \* Registry
  conns,                 \* [ConnId -> Entry], NoEntry where there is none
  next_id,
  ceiling,
  token,                 \* Option<Gate>: "None", "Fresh", "Consumed"
  \* the accept loop
  running,               \* AgentServer::run has not left its loop
  shutdown,              \* the stored permit of the shutdown Notify
  \* handle_connection, one per connection
  pc,
  awaiting_first_frame,
  token_attempts,
  job,                   \* tier the request handed to the executor needs
  reply                  \* the response being written

registry == <<conns, next_id, ceiling, token>>
server   == <<running, shutdown>>
session  == <<pc, awaiting_first_frame, token_attempts, job, reply>>
vars     == <<registry, server, session>>

ConnId == 1..MaxConnId

-----------------------------------------------------------------------------
(* The registry's entries and the agent's replies.                         *)

Entry ==
  [state  : {"Absent", "Connected", "Pending", "Authorized", "Denied"},
   access : Option(AccessLevel),
   method : {"None", "Token", "Manual"}]

EntryOf(state, access, method) ==
  [state |-> state, access |-> access, method |-> method]

NoEntry == EntryOf("Absent", None, "None")

Reply ==
  [type : {"None", "Authenticated", "AuthPending", "AuthDenied", "Pong",
           "Executed", "Failed"},
   access : Option(AccessLevel)]

ReplyOf(type)            == [type |-> type, access |-> None]
Authenticated(level)     == [type |-> "Authenticated", access |-> Some(level)]
NoReply                  == ReplyOf("None")

(* authorized_access: the tier connection id may use now, if any. *)
authorized_access(id) ==
  IF conns[id].state = "Authorized" THEN conns[id].access ELSE None

-----------------------------------------------------------------------------
(* Session control.                                                        *)

Parked == {"Reading", "Body", "Executing", "Replying", "FinalReply"}
Live   == Parked \union {"Closing"}
Ended  == {"Finished", "Aborted"}
Control == {"Unused"} \union Live \union Ended

(* Fault: only sessions waiting for a request are cancelled. *)
ReadersOnly == {"Reading", "Body"}

(* Where dropping the JoinSet cancels a task: any await. *)
CancelledAt == Parked

(* sessions.len() once the accept loop has reaped the finished tasks. *)
OpenSessions == {id \in ConnId : pc[id] \in Live}

(* Fault: one connection too many. *)
RoomForMore == Cardinality(OpenSessions) <= MAX_CONNECTIONS

RoomForOne == Cardinality(OpenSessions) < MAX_CONNECTIONS

(* Fault: numbered by how many there are. *)
IdFromCount == Cardinality(OpenSessions) + 1

FreshId == next_id

Init ==
  /\ conns = [id \in ConnId |-> NoEntry]
  /\ next_id = 1
  /\ ceiling \in Ceilings
  /\ token \in {"None", "Fresh"}
  /\ running = TRUE
  /\ shutdown = FALSE
  /\ pc = [id \in ConnId |-> "Unused"]
  /\ awaiting_first_frame = [id \in ConnId |-> TRUE]
  /\ token_attempts = [id \in ConnId |-> 0]
  /\ job = [id \in ConnId |-> None]
  /\ reply = [id \in ConnId |-> NoReply]

-----------------------------------------------------------------------------
(* The operator: AgentControl.                                             *)

(* grant: the tier given, or else the one a pending connection asked for;  *)
(* an error (no change) when there is neither, or above the ceiling.       *)
Grant(id, access) ==
  LET requested == IF conns[id].state = "Pending" THEN conns[id].access ELSE None
      level     == IF access # None THEN access ELSE requested
  IN /\ conns[id] # NoEntry
     /\ level # None
     /\ \A l \in level : l <= ceiling
     /\ conns' = [conns EXCEPT ![id] = EntryOf("Authorized", level, "Manual")]
     /\ UNCHANGED <<next_id, ceiling, token, server, session>>

Deny(id) ==
  /\ conns[id] # NoEntry
  /\ conns' = [conns EXCEPT ![id].state = "Denied", ![id].access = None]
  /\ UNCHANGED <<next_id, ceiling, token, server, session>>

Shutdown ==
  /\ shutdown' = TRUE
  /\ UNCHANGED <<registry, running, session>>

-----------------------------------------------------------------------------
(* AgentServer::run.                                                       *)

(* One accepted connection below the cap: registered under a fresh id and  *)
(* served by a task of its own.  At the cap the stream is dropped and      *)
(* nothing changes.                                                        *)
Accept ==
  /\ running
  /\ next_id <= MaxConnId                                          \* bound
  /\ RoomForOne
  /\ conns' = [conns EXCEPT ![FreshId] = EntryOf("Connected", None, "None")]
  /\ next_id' = next_id + 1
  /\ pc' = [pc EXCEPT ![FreshId] = "Reading"]
  /\ UNCHANGED <<ceiling, token, server,
                 awaiting_first_frame, token_attempts, job, reply>>

(* select! picks the shutdown branch: run returns and drops the JoinSet. *)
Stop ==
  /\ running
  /\ shutdown
  /\ running' = FALSE
  /\ shutdown' = FALSE
  /\ UNCHANGED <<registry, session>>

(* A task of the dropped JoinSet is cancelled at an await; its entry stays. *)
Abort(id) ==
  /\ ~running
  /\ pc[id] \in CancelledAt
  /\ pc' = [pc EXCEPT ![id] = "Aborted"]
  /\ job' = [job EXCEPT ![id] = None]
  /\ reply' = [reply EXCEPT ![id] = NoReply]
  /\ UNCHANGED <<registry, server, awaiting_first_frame, token_attempts>>

-----------------------------------------------------------------------------
(* Reading a frame.                                                        *)

(* The length prefix arrived and is within MAX_REQUEST_FRAME. *)
ReadLength(id) ==
  /\ pc[id] = "Reading"
  /\ pc' = [pc EXCEPT ![id] = "Body"]
  /\ UNCHANGED <<registry, server,
                 awaiting_first_frame, token_attempts, job, reply>>

(* The session leaves handle_connection's loop. *)
Leave(id) ==
  /\ pc' = [pc EXCEPT ![id] = "Closing"]
  /\ reply' = [reply EXCEPT ![id] = NoReply]
  /\ UNCHANGED <<registry, server, awaiting_first_frame, token_attempts, job>>

(* The peer closed, the length is over the limit, or the frame is malformed. *)
ReadFails(id) == pc[id] \in {"Reading", "Body"} /\ Leave(id)

(* Fault: the deadline is armed only once the length prefix is in. *)
BodyOnlyTimeout(id) ==
  awaiting_first_frame[id] /\ pc[id] = "Body" /\ Leave(id)

(* HANDSHAKE_TIMEOUT covers the whole first frame. *)
HandshakeTimeout(id) ==
  awaiting_first_frame[id] /\ pc[id] \in {"Reading", "Body"} /\ Leave(id)

(* FRAME_BODY_TIMEOUT: the rest of a started frame did not arrive. *)
BodyTimeout(id) == pc[id] = "Body" /\ Leave(id)

-----------------------------------------------------------------------------
(* The handlers: a whole frame arrived and decodes to a request.           *)

Receive(id) ==
  /\ pc[id] = "Body"
  /\ awaiting_first_frame' = [awaiting_first_frame EXCEPT ![id] = FALSE]

Answer(id, response) ==
  /\ pc' = [pc EXCEPT ![id] = "Replying"]
  /\ reply' = [reply EXCEPT ![id] = response]

(* Authenticate, agent started without a token. *)
AuthenticateNoToken(id) ==
  /\ Receive(id)
  /\ token = "None"
  /\ Answer(id, ReplyOf("Failed"))
  /\ UNCHANGED <<registry, server, token_attempts, job>>

(* Fault: the last tolerated attempt is forgiven. *)
OneMoreAttempt(id) == token_attempts[id] + 1 > MAX_AUTH_ATTEMPTS

AttemptsExhausted(id) == token_attempts[id] + 1 >= MAX_AUTH_ATTEMPTS

(* Authenticate, wrong or spent token: answered, and the session ends after *)
(* MAX_AUTH_ATTEMPTS of them.                                               *)
AuthenticateBad(id, matches) ==
  /\ Receive(id)
  /\ token # "None"
  /\ token = "Consumed" \/ ~matches
  /\ token_attempts' = [token_attempts EXCEPT ![id] = @ + 1]
  /\ pc' = [pc EXCEPT ![id] =
              IF AttemptsExhausted(id) THEN "FinalReply" ELSE "Replying"]
  /\ reply' = [reply EXCEPT ![id] = ReplyOf("Failed")]
  /\ UNCHANGED <<registry, server, job>>

(* Fault: the token stays good. *)
KeepToken == UNCHANGED token

ConsumeToken == token' = "Consumed"

(* Authenticate with the unspent token: spent, and whatever the entry's    *)
(* state was, the connection is authorized at the ceiling.                 *)
AuthenticateGranted(id, matches) ==
  /\ Receive(id)
  /\ token = "Fresh"
  /\ matches
  /\ ConsumeToken
  /\ conns' = IF conns[id] = NoEntry THEN conns ELSE
                [conns EXCEPT ![id] = EntryOf("Authorized", Some(ceiling), "Token")]
  /\ Answer(id, Authenticated(ceiling))
  /\ UNCHANGED <<next_id, ceiling, server, token_attempts, job>>

(* Fault: what is asked for is registered uncapped. *)
AsAsked(requested) == requested

Capped(requested) == LowerOf(requested, ceiling)

(* Fault: the lowest tier is granted without the operator. *)
SelfService(requested) ==
  EntryOf(IF requested = Market THEN "Authorized" ELSE "Pending",
          Some(Capped(requested)), "Manual")

PendingFor(requested) == EntryOf("Pending", Some(Capped(requested)), "Manual")

(* RequestAuth (request_manual): asks, refreshes the request, or polls. *)
RequestAuth(id, requested) ==
  LET asks == conns[id].state \in {"Connected", "Pending"} IN
  /\ Receive(id)
  /\ conns' = IF ~asks THEN conns ELSE
                [conns EXCEPT ![id] = PendingFor(requested)]
  /\ Answer(id, CASE asks -> ReplyOf("AuthPending")
                  [] conns[id].state = "Authorized" ->
                       [type |-> "Authenticated", access |-> conns[id].access]
                  [] conns[id].state = "Denied" -> ReplyOf("AuthDenied")
                  [] OTHER -> ReplyOf("Failed"))
  /\ UNCHANGED <<next_id, ceiling, token, server, token_attempts, job>>

Ping(id) ==
  /\ Receive(id)
  /\ Answer(id, ReplyOf(IF authorized_access(id) # None THEN "Pong" ELSE "Failed"))
  /\ UNCHANGED <<registry, server, token_attempts, job>>

(* Fault: the gate looks at the agent's tier, not at the connection's. *)
PermittedByAgent(id, required) ==
  authorized_access(id) # None /\ permits(ceiling, required)

Permitted(id, required) ==
  \E level \in authorized_access(id) : permits(level, required)

(* Method::from_bytes accepts it. *)
ValidMethod(method) == method # "malformed"

(* Execute: the tier is read under the lock, then the request is classified *)
(* and, if permitted, handed to the executor, which signs and sends it.     *)
Execute(id, method, path) ==
  LET required == required_access_for(method, path)
  IN /\ Receive(id)
     /\ IF ValidMethod(method) /\ Permitted(id, required)
          THEN /\ pc' = [pc EXCEPT ![id] = "Executing"]
               /\ job' = [job EXCEPT ![id] = Some(required)]
               /\ UNCHANGED reply
          ELSE /\ Answer(id, ReplyOf("Failed"))
               /\ UNCHANGED job
     /\ UNCHANGED <<registry, server, token_attempts>>

(* The executor's answer, forwarded; an error or a body larger than        *)
(* MAX_RESPONSE_BODY is answered with Failed.                              *)
ExecutorReturns(id, deliverable) ==
  /\ pc[id] = "Executing"
  /\ Answer(id, ReplyOf(IF deliverable THEN "Executed" ELSE "Failed"))
  /\ job' = [job EXCEPT ![id] = None]
  /\ UNCHANGED <<registry, server, awaiting_first_frame, token_attempts>>

-----------------------------------------------------------------------------
(* Replying and leaving.                                                   *)

ReplyWritten(id) ==
  /\ pc[id] = "Replying"
  /\ pc' = [pc EXCEPT ![id] = "Reading"]
  /\ reply' = [reply EXCEPT ![id] = NoReply]
  /\ UNCHANGED <<registry, server, awaiting_first_frame, token_attempts, job>>

WriteFails(id) == pc[id] = "Replying" /\ Leave(id)

(* The reply to the last tolerated wrong token: written or not, it ends. *)
FinalReplyDone(id) == pc[id] = "FinalReply" /\ Leave(id)

(* Fault: the entry of a connection that is over stays listed. *)
KeepEntry(id) == UNCHANGED conns

RemoveEntry(id) == conns' = [conns EXCEPT ![id] = NoEntry]

(* The task's last statement: conns.remove(&id). *)
Deregister(id) ==
  /\ pc[id] = "Closing"
  /\ RemoveEntry(id)
  /\ pc' = [pc EXCEPT ![id] = "Finished"]
  /\ awaiting_first_frame' = [awaiting_first_frame EXCEPT ![id] = TRUE]
  /\ token_attempts' = [token_attempts EXCEPT ![id] = 0]
  /\ UNCHANGED <<next_id, ceiling, token, server, job, reply>>

-----------------------------------------------------------------------------
Operator(id) ==
  \/ \E access \in Option(AccessLevel) : Grant(id, access)
  \/ Deny(id)

Handle(id) ==
  \/ AuthenticateNoToken(id)
  \/ \E matches \in BOOLEAN :
       AuthenticateBad(id, matches) \/ AuthenticateGranted(id, matches)
  \/ \E requested \in AccessLevel : RequestAuth(id, requested)
  \/ Ping(id)
  \/ \E method \in Methods, path \in Paths : Execute(id, method, path)

Session(id) ==
  \/ ReadLength(id)
  \/ ReadFails(id)
  \/ HandshakeTimeout(id)
  \/ BodyTimeout(id)
  \/ Handle(id)
  \/ \E deliverable \in BOOLEAN : ExecutorReturns(id, deliverable)
  \/ ReplyWritten(id)
  \/ WriteFails(id)
  \/ FinalReplyDone(id)
  \/ Deregister(id)

Next ==
  \/ Shutdown \/ Accept \/ Stop
  \/ \E id \in ConnId : Operator(id) \/ Session(id) \/ Abort(id)

Spec == Init /\ [][Next]_vars

(***************************************************************************)
(* The runtime keeps its promises: timers fire, the executor returns (its  *)
(* HTTP client has a timeout), a task that left its loop is scheduled, a   *)
(* cancelled task is dropped, select! eventually picks the shutdown permit.*)
(* Nothing is assumed of peers or of the operator: a reply a peer never    *)
(* drains is never written.                                                *)
(***************************************************************************)
Fairness ==
  /\ WF_vars(Stop)
  /\ \A id \in ConnId :
       /\ WF_vars(HandshakeTimeout(id))
       /\ WF_vars(BodyTimeout(id))
       /\ WF_vars(\E deliverable \in BOOLEAN : ExecutorReturns(id, deliverable))
       /\ WF_vars(Deregister(id))
       /\ WF_vars(Abort(id))

FairSpec == Spec /\ Fairness

-----------------------------------------------------------------------------
(* Type invariant: every variable ranges over the values declared above,   *)
(* and a connection's wrong-token count never passes the cap.              *)
TypeOK ==
  /\ conns \in [ConnId -> Entry]
  /\ next_id \in 1..(MaxConnId + 1)
  /\ ceiling \in AccessLevel
  /\ token \in {"None", "Fresh", "Consumed"}
  /\ running \in BOOLEAN
  /\ shutdown \in BOOLEAN
  /\ pc \in [ConnId -> Control]
  /\ awaiting_first_frame \in [ConnId -> BOOLEAN]
  /\ token_attempts \in [ConnId -> 0..MAX_AUTH_ATTEMPTS]
  /\ job \in [ConnId -> Option(AccessLevel)]
  /\ reply \in [ConnId -> Reply]

(* Nothing above the agent's ceiling is ever requested of the operator,    *)
(* granted, reported to a client or executed, whatever clients ask for and *)
(* the operator types (request_manual's cap, grant's check, the gate).     *)
WithinCeiling ==
  \A id \in ConnId :
    \A level \in conns[id].access \union job[id] \union reply[id].access :
      level <= ceiling

(* "One token, one client": over the whole run at most one connection is   *)
(* authorized by the token, and from then on the token is spent.           *)
TokenAuthorizesOnce ==
  \A i, j \in ConnId :
    conns[i].method = "Token" =>
      token = "Consumed" /\ (conns[j].method = "Token" => i = j)

(* A connection still served has not used up its wrong tokens: the session *)
(* that presents the last tolerated one reads no further request.          *)
GuessesBounded ==
  \A id \in ConnId :
    pc[id] \in {"Reading", "Body", "Executing", "Replying"} =>
      token_attempts[id] < MAX_AUTH_ATTEMPTS

(* The registry lists exactly the connections whose session task has not   *)
(* deregistered, plus those cut off by the shutdown, whose tasks never get *)
(* to; so a handler always finds its own entry.                            *)
RegistryMatchesSessions ==
  \A id \in ConnId :
    /\ conns[id] # NoEntry <=> pc[id] \in Live \union {"Aborted"}
    /\ pc[id] = "Aborted" => ~running

(* The registry, like the accept loop's task set, is bounded by the cap    *)
(* through any churn of connections.                                       *)
CapRespected ==
  Cardinality({id \in ConnId : conns[id] # NoEntry}) <= MAX_CONNECTIONS

(* An id the operator has seen never comes to mean another connection: a   *)
(* grant or denial typed late reaches the connection it was meant for or   *)
(* none (register never reuses an id; the session removes only its own).   *)
IdsNeverReused ==
  [][\A id \in ConnId :
       pc[id] = "Finished" => pc'[id] = "Finished" /\ conns'[id] = NoEntry]_vars

(* A connection's authority appears or changes only by the operator's hand *)
(* (no session moves) or by spending the token; no request, poll or reply  *)
(* of a client raises or restores it.                                      *)
AuthorityHasASource ==
  [][\A id \in ConnId :
       authorized_access(id)' \notin {None, authorized_access(id)} =>
         \/ UNCHANGED pc
         \/ token = "Fresh" /\ token' = "Consumed"]_vars

(* The agent implements the gate it promises to be: each request upstream  *)
(* was permitted by the authority its own connection held when it passed.  *)
Gate == INSTANCE SigningGate WITH
          Conns     <- ConnId,
          authority <- [id \in ConnId |-> authorized_access(id)],
          inflight  <- job

ImplementsGate == Gate!Spec

(* AgentControl::deny, "it is refused everything until it disconnects": no *)
(* step of the connection's own session lifts a denial.                    *)
DenialSticks ==
  [][\A id \in ConnId :
       conns[id].state = "Denied" =>
         \/ conns'[id].state \in {"Denied", "Absent"}
         \/ UNCHANGED pc]_vars

(* HANDSHAKE_TIMEOUT "reaps silent connections": a peer that never sends a *)
(* whole first frame does not hold its session for ever.                   *)
SilentPeerReaped ==
  \A id \in ConnId :
    (pc[id] = "Reading" /\ awaiting_first_frame[id])
      ~> (pc[id] \in Ended \/ ~awaiting_first_frame[id])

(* Once shut down, the agent stops accepting and every session comes to an *)
(* end, those blocked on a peer or on the exchange included.               *)
ShutdownEndsEverything ==
  shutdown ~> (~running /\ \A id \in ConnId : pc[id] \in {"Unused"} \union Ended)
=============================================================================
