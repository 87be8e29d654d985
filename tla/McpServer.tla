----------------------------- MODULE McpServer -----------------------------
(***************************************************************************)
(* mcp/src/main.rs and server.rs: the MCP server between an LLM client and *)
(* the signing agent.  Its main loop takes one JSON-RPC line at a time off *)
(* stdin, where more of them may wait; a tools/call either authenticates   *)
(* (with the one-time token, or by asking the agent's operator) or runs a  *)
(* command on the session it has.  CommandPath has what becomes of it.     *)
(*                                                                         *)
(* The agent is the environment, as AgentServer has it: per connection, a  *)
(* state the operator and the token change.  The agent may stop and be     *)
(* started again, with a new token, at any moment, an answer under way     *)
(* included.  Connections the server no longer holds are closed, and leave *)
(* the agent's console; their names are used again.  A line is what its    *)
(* handling tells apart, and a reply its id: tiers, prompts and results    *)
(* are left out.                                                           *)
(*                                                                         *)
(* A definition marked "Fault" is a plausible slip in the definition that  *)
(* follows it, kept to confirm that the properties notice it.              *)
(***************************************************************************)
EXTENDS Integers, Sequences, FiniteSets

CONSTANTS
  Conns,       \* names for connections; three are held at most
  Ids,         \* what the client names its requests by
  MaxUnread    \* Bound: lines on stdin, the one being handled included

(* There is a name that is not in use, whatever two are.                   *)
ASSUME McpAssumption ==
  /\ MaxUnread \in Nat
  /\ \A c, d \in Conns : \E e \in Conns : e \notin {c, d}
  /\ Conns # {}

VARIABLES
  \* the client
  stdin,      \* lines not read yet, after the one being handled
  stays,      \* whether the client is still there
  owed,       \* per id: the client's requests less the replies it got
  \* Server
  session,    \* Option: the authenticated connection
  pending,    \* Option: the connection awaiting the operator
  guard,      \* "Free", or "Held" when handle_line kept pending's mutex locked
  pc,         \* "Ready" for a line, what handle_line awaits, or "Exited"
  executor,   \* Option: the connection it awaits it on
  \* the agent
  up,
  token,      \* "None", "Fresh", "Consumed"
  far,        \* each connection's state there, "Closed" if there is none
  answer      \* what the agent answered `executor`, not yet received

server == <<session, pending, guard, pc, executor>>
client == <<stdin, stays, owed>>
vars   == <<server, client, up, token, far, answer>>

None    == {}
Some(c) == {c}

Listed == {"Connected", "Pending", "Authorized", "Denied"}
Awaits == {"Authenticate", "RequestAuth", "Execute"}
Answers == {"Authenticated", "AuthPending", "AuthDenied", "Executed", "Failed"}

(* Lines without an id of their own: not UTF-8 or over the bound, blank,   *)
(* not JSON, not an object.                                                *)
Nameless == {"Unreadable", "Blank", "Garbage", "Batch"}

(* Requests that reach nothing: no method; initialize, ping and tools/list *)
(* or an unknown one; tools/call without a name, with arguments no command *)
(* takes, or for authenticate with a token or a tier that is no string.    *)
Stateless == {"NoMethod", "Method", "BadCall"}

ToolCalls == {"Token", "Interactive", "Command"}

(* What has no id, but could have one, is a notification. *)
Lines ==
  [kind : Nameless \union Stateless \union ToolCalls, id : {None}]
    \union [kind : Stateless \union ToolCalls, id : {Some(i) : i \in Ids}]

Init ==
  /\ stdin = <<>> /\ stays = TRUE /\ owed = [i \in Ids |-> 0]
  /\ session = None /\ pending = None /\ guard = "Free"
  /\ pc = "Ready" /\ executor = None
  /\ up \in BOOLEAN
  /\ token \in {"None", "Fresh"}
  /\ far = [c \in Conns |-> "Closed"]
  /\ answer = "None"

(* What the agent has left of its connections once only `held` are open. *)
Closing(held, states) ==
  [c \in Conns |-> IF c \in held THEN states[c] ELSE "Closed"]

(* handle_line is done with its line: its locks are released, and          *)
(* connections it lets go of are closed.                                   *)
Finish(newSession, newPending) ==
  /\ executor' = None
  /\ answer' = "None"
  /\ session' = newSession
  /\ pending' = newPending
  /\ guard' = "Free"
  /\ far' = Closing(newSession \union newPending, far)
  /\ stdin' = Tail(stdin)
  /\ UNCHANGED <<stays, up, token>>

Exit ==
  /\ pc' = "Exited"
  /\ executor' = None /\ answer' = "None"
  /\ session' = None /\ pending' = None /\ guard' = "Free"
  /\ far' = Closing(None, far)
  /\ UNCHANGED <<client, up, token>>

(* The reply has the id of its request; one that cannot be written, the    *)
(* client being gone, ends the server.                                     *)
Reply(newSession, newPending) ==
  \/ /\ pc' = "Ready"
     /\ owed' = [i \in Ids |-> IF i \in Head(stdin).id THEN owed[i] - 1 ELSE owed[i]]
     /\ Finish(newSession, newPending)
  \/ ~stays /\ Exit

-----------------------------------------------------------------------------
(* The client, which may write before it has its answers; its ids are its  *)
(* own to keep apart.                                                      *)

ClientWrites ==
  /\ stays /\ Len(stdin) < MaxUnread
  /\ \E line \in Lines :
       /\ \A i \in line.id : owed[i] = 0
       /\ stdin' = Append(stdin, line)
       /\ owed' = [i \in Ids |-> IF i \in line.id THEN owed[i] + 1 ELSE owed[i]]
  /\ UNCHANGED <<server, stays, up, token, far, answer>>

ClientLeaves ==
  /\ stays
  /\ stays' = FALSE
  /\ UNCHANGED <<server, stdin, owed, up, token, far, answer>>

-----------------------------------------------------------------------------
(* main's loop and handle_line, up to the method.                          *)

Reads(kinds) == pc = "Ready" /\ stdin # <<>> /\ Head(stdin).kind \in kinds

(* A framing error or the end of stdin. *)
StopReading ==
  /\ Reads({"Unreadable"}) \/ (pc = "Ready" /\ stdin = <<>> /\ ~stays)
  /\ Exit

(* Fault: the method is looked at before the id. *)
Methodless(line) == line.id = None \/ line.kind = "NoMethod"

Notification(line) == line.id = None

(* Blank lines and notifications are neither executed nor answered. *)
Skip ==
  /\ Reads({"Blank"} \union Stateless \union ToolCalls)
  /\ Notification(Head(stdin))
  /\ Finish(session, pending)
  /\ UNCHANGED <<pc, owed>>

(* parse error, or not a single request object: to the null id. *)
NotARequest ==
  /\ Reads({"Garbage", "Batch"})
  /\ Reply(session, pending)

Request(kinds) == Reads(kinds) /\ ~Notification(Head(stdin))

AnswerStateless ==
  /\ Request(Stateless)
  /\ Reply(session, pending)

-----------------------------------------------------------------------------
(* handle_tools_call.                                                      *)

(* connect: there is a connection if an agent listens; one at its limit    *)
(* drops it at once.  Names are interchangeable: any that is free will do. *)
FreeName == CHOOSE c \in Conns : c \notin session \union pending

Connected(accepted) == [far EXCEPT ![FreeName] = IF accepted THEN "Connected" ELSE "Closed"]

Await(what, c, states) ==
  /\ pc' = what
  /\ executor' = Some(c)
  /\ far' = states
  /\ UNCHANGED <<client, session, up, token, answer>>

NotAuthenticated ==
  /\ Request({"Command"}) /\ session = None
  /\ Reply(session, pending)

RunCommand ==
  /\ Request({"Command"})
  /\ \E c \in session : Await("Execute", c, far)
  /\ UNCHANGED <<pending, guard>>

CannotConnect ==
  /\ Request({"Token"}) \/ (Request({"Interactive"}) /\ pending = None)
  /\ ~up
  /\ Reply(session, pending)

AuthenticateWithToken ==
  /\ Request({"Token"}) /\ up
  /\ \E accepted \in BOOLEAN : Await("Authenticate", FreeName, Connected(accepted))
  /\ UNCHANGED <<pending, guard>>

(* Fault: the guard of the look at pending lives on to the end. *)
GuardLivesOn == "Held"

GuardDropped == "Free"

(* authenticate without a token: the connection that already waits for the *)
(* operator is asked about again.                                          *)
PollPending ==
  /\ Request({"Interactive"})
  /\ \E c \in pending : Await("RequestAuth", c, far)
  /\ guard' = GuardDropped
  /\ UNCHANGED pending

(* Fault: the new connection is forgotten after the first poll. *)
NotKept(c) == pending

KeptForPolls(c) == Some(c)

AskOperator ==
  /\ Request({"Interactive"}) /\ up
  /\ pending = None
  /\ \E accepted \in BOOLEAN : Await("RequestAuth", FreeName, Connected(accepted))
  /\ pending' = KeptForPolls(FreeName)
  /\ guard' = GuardDropped

-----------------------------------------------------------------------------
(* The answers.                                                            *)

Lost == \E c \in executor : far[c] = "Closed" /\ answer = "None"

NoLongerPending == None

(* Fault: an answer that is not a refusal will do. *)
NotRefused == answer \in {"Authenticated", "AuthPending"}

GrantedAnswer == answer = "Authenticated"

Authenticated ==
  /\ pc \in {"Authenticate", "RequestAuth"}
  /\ GrantedAnswer
  /\ guard = "Free"
  /\ Reply(executor, NoLongerPending)

TokenRefused ==
  /\ pc = "Authenticate"
  /\ answer = "Failed" \/ Lost
  /\ Reply(session, pending)

AwaitingApproval ==
  /\ pc = "RequestAuth"
  /\ answer = "AuthPending"
  /\ Reply(session, pending)

(* Fault: a connection that failed is asked about again. *)
KeepAsking == pending

StopAsking == None

(* Denied, or the connection failed: the next call connects anew. *)
ApprovalFails ==
  /\ pc = "RequestAuth"
  /\ answer = "AuthDenied" \/ Lost
  /\ guard = "Free"
  /\ Reply(session, StopAsking)

CommandAnswered ==
  /\ pc = "Execute"
  /\ answer \in {"Executed", "Failed"}
  /\ Reply(session, pending)

(* Fault: the dead session is kept. *)
KeepSession == session

DropSession == None

(* is_connection_unusable: the session is dropped. *)
SessionLost ==
  /\ pc = "Execute"
  /\ Lost
  /\ Reply(DropSession, pending)

-----------------------------------------------------------------------------
(* The agent and its operator.                                             *)

AgentAnswers ==
  \E c \in executor :
    /\ answer = "None"
    /\ far[c] # "Closed"
    /\ \/ /\ pc = "Authenticate" /\ token = "Fresh"
          /\ answer' = "Authenticated"
          /\ token' = "Consumed"
          /\ far' = [far EXCEPT ![c] = "Authorized"]
       \/ /\ pc = "Authenticate"      \* a wrong token, or none to match
          /\ answer' = "Failed"
          /\ UNCHANGED <<token, far>>
       \/ /\ pc = "RequestAuth"
          /\ answer' = CASE far[c] = "Authorized" -> "Authenticated"
                         [] far[c] = "Denied" -> "AuthDenied"
                         [] OTHER -> "AuthPending"
          /\ far' = [far EXCEPT ![c] = IF @ = "Connected" THEN "Pending" ELSE @]
          /\ UNCHANGED token
       \/ /\ pc = "Execute"           \* refused, too, above the tier
          /\ answer' = "Failed" \/ (far[c] = "Authorized" /\ answer' = "Executed")
          /\ UNCHANGED <<token, far>>
    /\ UNCHANGED <<server, client, up>>

OperatorGrants(c) ==
  /\ far[c] \in Listed
  /\ far' = [far EXCEPT ![c] = "Authorized"]
  /\ UNCHANGED <<server, client, up, token, answer>>

OperatorDenies(c) ==
  /\ far[c] \in Listed
  /\ far' = [far EXCEPT ![c] = "Denied"]
  /\ UNCHANGED <<server, client, up, token, answer>>

(* Every connection is lost, an answer on its way perhaps with it. *)
AgentStops ==
  /\ up
  /\ up' = FALSE
  /\ far' = [c \in Conns |-> "Closed"]
  /\ answer' \in {answer, "None"}
  /\ UNCHANGED <<server, client, token>>

AgentStarts ==
  /\ ~up
  /\ up' = TRUE
  /\ token' \in {"None", "Fresh"}
  /\ UNCHANGED <<server, client, far, answer>>

-----------------------------------------------------------------------------
Receive ==
  \/ Authenticated \/ TokenRefused
  \/ AwaitingApproval \/ ApprovalFails
  \/ CommandAnswered \/ SessionLost

Authenticate ==
  \/ PollPending
  \/ CannotConnect
  \/ AuthenticateWithToken \/ AskOperator

HandleLine ==
  \/ StopReading \/ Skip \/ NotARequest \/ AnswerStateless
  \/ NotAuthenticated \/ RunCommand \/ Authenticate

Next ==
  \/ ClientWrites \/ ClientLeaves
  \/ HandleLine \/ Receive
  \/ AgentAnswers \/ AgentStops \/ AgentStarts
  \/ \E c \in Conns : OperatorGrants(c) \/ OperatorDenies(c)

Spec == Init /\ [][Next]_vars

(* The server runs, and the agent answers what reaches it.  Nothing is     *)
(* assumed of the LLM client or the operator.                              *)
FairSpec == Spec /\ WF_vars(HandleLine) /\ WF_vars(Receive) /\ WF_vars(AgentAnswers)

-----------------------------------------------------------------------------
(* Type invariant. *)
TypeOK ==
  /\ stdin \in UNION {[1..n -> Lines] : n \in 0..MaxUnread}
  /\ stays \in BOOLEAN
  /\ owed \in [Ids -> Int]
  /\ session \in {None} \union {Some(c) : c \in Conns}
  /\ pending \in {None} \union {Some(c) : c \in Conns}
  /\ executor \in {None} \union {Some(c) : c \in Conns}
  /\ guard \in {"Free", "Held"}
  /\ pc \in {"Ready", "Exited"} \union Awaits
  /\ executor = None <=> pc \in {"Ready", "Exited"}
  /\ executor = None => guard = "Free" /\ answer = "None"
  /\ executor # None => Head(stdin).id # None
  /\ pc = "Execute" => executor = session
  /\ pc = "RequestAuth" => executor = pending
  /\ up \in BOOLEAN
  /\ token \in {"None", "Fresh", "Consumed"}
  /\ far \in [Conns -> Listed \union {"Closed"}]
  /\ answer \in {"None"} \union Answers

(* Commands run only on a connection the agent once authorized: whatever   *)
(* the order of polls, grants and restarts, the session is never one still *)
(* waiting for the operator.                                               *)
SessionWasAuthorized ==
  \A c \in session : far[c] \in {"Authorized", "Denied", "Closed"}

(* "Silently dropping it would hang a client waiting for a response": as   *)
(* long as the server runs, the client is owed one reply to each request   *)
(* it has not come to yet, however many were written ahead and whatever    *)
(* lines are between them, and none to any other.                          *)
EachRequestAnsweredOnce ==
  pc # "Exited" =>
    \A i \in Ids : owed[i] = Cardinality({n \in DOMAIN stdin : i \in stdin[n].id})

(* "Re-polling reuses the same console entry": an entry waiting for the    *)
(* operator leaves the agent's console only with the agent or the server,  *)
(* or when its caller was authenticated meanwhile, with the token.         *)
AwaitedEntryKept ==
  [][\A c \in Conns :
       far[c] = "Pending" /\ far'[c] = "Closed"
         => ~up' \/ pc' = "Exited" \/ session' \notin {None, session}]_vars

(* Every request gets its answer: the server never waits on itself, nor    *)
(* for an agent that is gone.  A client that leaves ends it.               *)
EveryLineAnswered == \A i \in Ids : owed[i] > 0 ~> owed[i] = 0 \/ pc = "Exited"

(* A connection to an agent that is gone is used once more at most: that   *)
(* call says so, and the next one does not meet it again.                  *)
DeadConnectionDropped ==
  [][(pc \in {"Execute", "RequestAuth"} /\ Lost /\ pc' = "Ready") =>
       (\A c \in executor : c \notin session' \union pending')]_vars
=============================================================================
