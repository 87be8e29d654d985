------------------------- MODULE AgentServerProofs -------------------------
(* Theorems about AgentServer, for every value of its constants. *)
EXTENDS AgentServer, FiniteSetTheorems, TLAPS

(* What one step of the agent can be, and nothing else: the case split of  *)
(* the proofs below.                                                       *)
LEMMA StepCases ==
  ASSUME [Next]_vars
  PROVE  \/ Shutdown \/ Accept \/ Stop
         \/ \E id \in ConnId :
              \/ \E access \in Option(AccessLevel) : Grant(id, access)
              \/ Deny(id)
              \/ Abort(id)
              \/ ReadLength(id)
              \/ pc[id] \in {"Reading", "Body", "Replying", "FinalReply"} /\ Leave(id)
              \/ AuthenticateNoToken(id)
              \/ \E matches \in BOOLEAN : AuthenticateBad(id, matches)
              \/ \E matches \in BOOLEAN : AuthenticateGranted(id, matches)
              \/ \E requested \in AccessLevel : RequestAuth(id, requested)
              \/ Ping(id)
              \/ \E method \in Methods, path \in Paths : Execute(id, method, path)
              \/ \E deliverable \in BOOLEAN : ExecutorReturns(id, deliverable)
              \/ ReplyWritten(id)
              \/ Deregister(id)
         \/ UNCHANGED vars
BY DEF Next, Operator, Session, Handle, ReadFails, HandshakeTimeout,
       BodyTimeout, WriteFails, FinalReplyDone

(* A request is classified into one of the tiers. *)
LEMMA ClassificationType ==
  ASSUME NEW method, NEW path
  PROVE  required_access_for(method, path) \in AccessLevel
BY DEF required_access_for, AccessLevel, Market, View, Trading

(* request_manual registers a tier of the ladder, within the ceiling. *)
LEMMA CappedType ==
  ASSUME ceiling \in AccessLevel, NEW requested \in AccessLevel
  PROVE  Capped(requested) \in AccessLevel /\ Capped(requested) <= ceiling
BY DEF Capped, LowerOf, AccessLevel, Market, View, Trading

(* There is always something to choose from. *)
LEMMA OptionNonEmpty ==
  Option(AccessLevel) # {} /\ AccessLevel # {} /\ TRUE \in BOOLEAN
BY DEF Option, AccessLevel

(* The agent's records are what they are declared to be. *)
LEMMA RecordTypes ==
  /\ None \in Option(AccessLevel)
  /\ \A l \in AccessLevel : Some(l) \in Option(AccessLevel)
  /\ NoEntry \in Entry
  /\ \A state \in {"Connected", "Pending", "Authorized", "Denied"},
        access \in Option(AccessLevel), method \in {"None", "Token", "Manual"} :
        EntryOf(state, access, method) \in Entry
  /\ \A e \in Entry : e.access \in Option(AccessLevel)
  /\ \A e \in Entry : [[e EXCEPT !.state = "Denied"] EXCEPT !.access = None] \in Entry
  /\ NoReply \in Reply
  /\ \A type \in {"AuthPending", "AuthDenied", "Pong", "Executed", "Failed"} :
        ReplyOf(type) \in Reply
  /\ \A l \in AccessLevel : Authenticated(l) \in Reply
  /\ \A a \in Option(AccessLevel) : [type |-> "Authenticated", access |-> a] \in Reply
BY DEF Entry, EntryOf, NoEntry, Reply, ReplyOf, Authenticated, NoReply,
       Option, None, Some

(* The control states a session can move to. *)
LEMMA ControlTypes ==
  /\ {"Unused", "Reading", "Body", "Executing", "Replying", "FinalReply",
      "Closing", "Finished", "Aborted"} = Control
BY DEF Control, Live, Ended, Parked

(***************************************************************************)
(* Every variable keeps its type, the wrong-token count its bound.         *)
(***************************************************************************)
LEMMA TypeStep ==
  ASSUME TypeOK, GuessesBounded, [Next]_vars
  PROVE  TypeOK'
<1> USE DEF TypeOK, registry, server, session, vars
<1>1. CASE Shutdown
  BY <1>1 DEF Shutdown
<1>2. CASE Accept
  <2>1. next_id \in ConnId /\ next_id' \in 1..(MaxConnId + 1)
    BY <1>2, BoundsAssumption DEF Accept, ConnId
  <2>2. EntryOf("Connected", None, "None") \in Entry
    BY RecordTypes
  <2>3. conns' \in [ConnId -> Entry] /\ pc' \in [ConnId -> Control]
    BY <1>2, <2>1, <2>2, ControlTypes DEF Accept, FreshId
  <2> QED
    BY <1>2, <2>1, <2>3 DEF Accept
<1>3. CASE Stop
  BY <1>3 DEF Stop
<1>4. ASSUME NEW id \in ConnId, NEW access \in Option(AccessLevel), Grant(id, access)
      PROVE  TypeOK'
  BY <1>4, RecordTypes DEF Grant
<1>5. ASSUME NEW id \in ConnId, Deny(id)
      PROVE  TypeOK'
  BY <1>5, RecordTypes DEF Deny
<1>6. ASSUME NEW id \in ConnId, Abort(id)
      PROVE  TypeOK'
  BY <1>6, RecordTypes, ControlTypes DEF Abort
<1>7. ASSUME NEW id \in ConnId, ReadLength(id)
      PROVE  TypeOK'
  BY <1>7, ControlTypes DEF ReadLength
<1>8. ASSUME NEW id \in ConnId, Leave(id)
      PROVE  TypeOK'
  BY <1>8, RecordTypes, ControlTypes DEF Leave
<1>9. ASSUME NEW id \in ConnId, AuthenticateNoToken(id)
      PROVE  TypeOK'
  BY <1>9, RecordTypes, ControlTypes DEF AuthenticateNoToken, Receive, Answer
<1>10. ASSUME NEW id \in ConnId, NEW matches \in BOOLEAN, AuthenticateBad(id, matches)
       PROVE  TypeOK'
  <2>1. token_attempts[id] < MAX_AUTH_ATTEMPTS
    BY <1>10 DEF AuthenticateBad, Receive, GuessesBounded
  <2>2. token_attempts[id] + 1 \in 0..MAX_AUTH_ATTEMPTS
    BY <2>1, BoundsAssumption
  <2>3. token_attempts' \in [ConnId -> 0..MAX_AUTH_ATTEMPTS]
    BY <1>10, <2>2 DEF AuthenticateBad
  <2>4. pc' \in [ConnId -> Control]
    BY <1>10, ControlTypes DEF AuthenticateBad
  <2>5. reply' \in [ConnId -> Reply]
    BY <1>10, RecordTypes DEF AuthenticateBad
  <2> QED
    BY <1>10, <2>3, <2>4, <2>5 DEF AuthenticateBad, Receive
<1>11. ASSUME NEW id \in ConnId, NEW matches \in BOOLEAN, AuthenticateGranted(id, matches)
       PROVE  TypeOK'
  BY <1>11, RecordTypes, ControlTypes
     DEF AuthenticateGranted, Receive, Answer, ConsumeToken
<1>12. ASSUME NEW id \in ConnId, NEW requested \in AccessLevel, RequestAuth(id, requested)
       PROVE  TypeOK'
  BY <1>12, CappedType, RecordTypes, ControlTypes
     DEF RequestAuth, Receive, Answer, PendingFor
<1>13. ASSUME NEW id \in ConnId, Ping(id)
       PROVE  TypeOK'
  BY <1>13, RecordTypes, ControlTypes DEF Ping, Receive, Answer
<1>14. ASSUME NEW id \in ConnId, NEW method \in Methods, NEW path \in Paths,
              Execute(id, method, path)
       PROVE  TypeOK'
  <2> DEFINE required == required_access_for(method, path)
  <2>1. Some(required) \in Option(AccessLevel)
    BY ClassificationType, RecordTypes
  <2>2. CASE ValidMethod(method) /\ Permitted(id, required)
    BY <1>14, <2>1, <2>2, ControlTypes DEF Execute, Receive
  <2>3. CASE ~(ValidMethod(method) /\ Permitted(id, required))
    BY <1>14, <2>3, RecordTypes, ControlTypes DEF Execute, Receive, Answer
  <2> QED
    BY <2>2, <2>3
<1>15. ASSUME NEW id \in ConnId, NEW deliverable \in BOOLEAN, ExecutorReturns(id, deliverable)
       PROVE  TypeOK'
  BY <1>15, RecordTypes, ControlTypes DEF ExecutorReturns, Answer
<1>16. ASSUME NEW id \in ConnId, ReplyWritten(id)
       PROVE  TypeOK'
  BY <1>16, RecordTypes, ControlTypes DEF ReplyWritten
<1>17. ASSUME NEW id \in ConnId, Deregister(id)
       PROVE  TypeOK'
  <2>1. 0 \in 0..MAX_AUTH_ATTEMPTS
    BY BoundsAssumption
  <2> QED
    BY <1>17, <2>1, RecordTypes, ControlTypes DEF Deregister, RemoveEntry
<1>18. CASE UNCHANGED vars
  BY <1>18
<1> QED
  <2> HIDE DEF TypeOK, registry, server, session, vars
  <2> QED
    BY <1>1, <1>2, <1>3, <1>4, <1>5, <1>6, <1>7, <1>8, <1>9, <1>10, <1>11,
       <1>12, <1>13, <1>14, <1>15, <1>16, <1>17, <1>18, StepCases

-----------------------------------------------------------------------------
(* What the invariants rest on besides the types: ids not handed out yet   *)
(* have no session and a clean slate, and a request is with the executor   *)
(* exactly while its session waits for it.                                 *)
FreshIds ==
  \A id \in ConnId :
    /\ pc[id] = "Unused" <=> id >= next_id
    /\ pc[id] = "Unused" => token_attempts[id] = 0

JobsExecuting ==
  \A id \in ConnId : job[id] # None <=> pc[id] = "Executing"

(* The wrong-token bound is kept by every step. *)
LEMMA GuessesStep ==
  ASSUME TypeOK, FreshIds, GuessesBounded, [Next]_vars
  PROVE  GuessesBounded'
<1> SUFFICES ASSUME NEW i \in ConnId,
                    pc'[i] \in {"Reading", "Body", "Executing", "Replying"}
             PROVE  token_attempts'[i] < MAX_AUTH_ATTEMPTS
  BY DEF GuessesBounded
<1> USE DEF TypeOK, GuessesBounded, registry, server, session, vars
<1>1. CASE Accept
  <2>1. next_id \in ConnId /\ pc[next_id] = "Unused"
    BY <1>1, BoundsAssumption DEF Accept, ConnId, FreshIds
  <2>2. token_attempts[next_id] = 0 /\ 0 < MAX_AUTH_ATTEMPTS
    BY <2>1, BoundsAssumption DEF FreshIds
  <2> QED
    BY <1>1, <2>1, <2>2 DEF Accept, FreshId
<1>2. CASE Shutdown \/ Stop \/ UNCHANGED vars
  BY <1>2 DEF Shutdown, Stop
<1>3. ASSUME NEW id \in ConnId, NEW access \in Option(AccessLevel),
             Grant(id, access) \/ Deny(id)
      PROVE  token_attempts'[i] < MAX_AUTH_ATTEMPTS
  BY <1>3 DEF Grant, Deny
<1>4. ASSUME NEW id \in ConnId, Abort(id) \/ Leave(id) \/ Deregister(id)
      PROVE  token_attempts'[i] < MAX_AUTH_ATTEMPTS
  BY <1>4 DEF Abort, Leave, Deregister
<1>5. ASSUME NEW id \in ConnId, NEW matches \in BOOLEAN, AuthenticateBad(id, matches)
      PROVE  token_attempts'[i] < MAX_AUTH_ATTEMPTS
  <2>1. CASE i = id
    <3>1. ~AttemptsExhausted(id)
      BY <1>5, <2>1 DEF AuthenticateBad
    <3> QED
      BY <1>5, <2>1, <3>1, BoundsAssumption DEF AuthenticateBad, AttemptsExhausted
  <2>2. CASE i # id
    BY <1>5, <2>2 DEF AuthenticateBad
  <2> QED
    BY <2>1, <2>2
<1>6. ASSUME NEW id \in ConnId, ReadLength(id) \/ ReplyWritten(id)
      PROVE  token_attempts'[i] < MAX_AUTH_ATTEMPTS
  BY <1>6 DEF ReadLength, ReplyWritten
<1>7. ASSUME NEW id \in ConnId, NEW matches \in BOOLEAN, NEW requested \in AccessLevel,
             \/ AuthenticateNoToken(id) \/ AuthenticateGranted(id, matches)
             \/ RequestAuth(id, requested) \/ Ping(id)
      PROVE  token_attempts'[i] < MAX_AUTH_ATTEMPTS
  BY <1>7 DEF AuthenticateNoToken, AuthenticateGranted, RequestAuth, Ping, Receive, Answer
<1>8. ASSUME NEW id \in ConnId, NEW method \in Methods, NEW path \in Paths,
             Execute(id, method, path)
      PROVE  token_attempts'[i] < MAX_AUTH_ATTEMPTS
  BY <1>8 DEF Execute, Receive, Answer
<1>9. ASSUME NEW id \in ConnId, NEW deliverable \in BOOLEAN, ExecutorReturns(id, deliverable)
      PROVE  token_attempts'[i] < MAX_AUTH_ATTEMPTS
  BY <1>9 DEF ExecutorReturns, Answer
<1> QED
  <2> HIDE DEF TypeOK, GuessesBounded, registry, server, session, vars
  <2> QED
    BY <1>1, <1>2, <1>3, <1>4, <1>5, <1>6, <1>7, <1>8, <1>9,
       OptionNonEmpty, StepCases

(* Ids are handed out in order, each to a session that starts from zero. *)
LEMMA FreshIdsStep ==
  ASSUME TypeOK, FreshIds, [Next]_vars
  PROVE  FreshIds'
<1> USE DEF TypeOK, FreshIds, registry, server, session, vars
<1>1. CASE Accept
  <2>1. next_id \in ConnId
    BY <1>1, BoundsAssumption DEF Accept, ConnId
  <2>2. \A i \in ConnId : pc'[i] = IF i = next_id THEN "Reading" ELSE pc[i]
    BY <1>1, <2>1 DEF Accept, FreshId
  <2>3. next_id' = next_id + 1 /\ token_attempts' = token_attempts
    BY <1>1 DEF Accept
  <2> QED
    BY <2>1, <2>2, <2>3 DEF ConnId
<1>2. CASE Shutdown \/ Stop \/ UNCHANGED vars
  BY <1>2 DEF Shutdown, Stop
<1>3. ASSUME NEW id \in ConnId, NEW access \in Option(AccessLevel),
             Grant(id, access) \/ Deny(id)
      PROVE  FreshIds'
  BY <1>3 DEF Grant, Deny
<1>4. ASSUME NEW id \in ConnId, Abort(id)
      PROVE  FreshIds'
  BY <1>4 DEF Abort, CancelledAt, Parked
<1>5. ASSUME NEW id \in ConnId,
             pc[id] \in {"Reading", "Body", "Replying", "FinalReply"} /\ Leave(id)
      PROVE  FreshIds'
  BY <1>5 DEF Leave
<1>6. ASSUME NEW id \in ConnId, ReadLength(id) \/ ReplyWritten(id) \/ Deregister(id)
      PROVE  FreshIds'
  BY <1>6 DEF ReadLength, ReplyWritten, Deregister
<1>7. ASSUME NEW id \in ConnId, NEW matches \in BOOLEAN, NEW requested \in AccessLevel,
             \/ AuthenticateNoToken(id) \/ AuthenticateGranted(id, matches)
             \/ RequestAuth(id, requested) \/ Ping(id)
      PROVE  FreshIds'
  BY <1>7 DEF AuthenticateNoToken, AuthenticateGranted, RequestAuth, Ping, Receive, Answer
<1>8. ASSUME NEW id \in ConnId, NEW matches \in BOOLEAN, AuthenticateBad(id, matches)
      PROVE  FreshIds'
  BY <1>8 DEF AuthenticateBad, Receive
<1>9. ASSUME NEW id \in ConnId, NEW method \in Methods, NEW path \in Paths,
             Execute(id, method, path)
      PROVE  FreshIds'
  BY <1>9 DEF Execute, Receive, Answer
<1>10. ASSUME NEW id \in ConnId, NEW deliverable \in BOOLEAN, ExecutorReturns(id, deliverable)
       PROVE  FreshIds'
  BY <1>10 DEF ExecutorReturns, Answer
<1> QED
  <2> HIDE DEF TypeOK, FreshIds, registry, server, session, vars
  <2> QED
    BY <1>1, <1>2, <1>3, <1>4, <1>5, <1>6, <1>7, <1>8, <1>9, <1>10,
       OptionNonEmpty, StepCases

(* A request is with the executor exactly while its session waits for it. *)
LEMMA JobsExecutingStep ==
  ASSUME TypeOK, FreshIds, JobsExecuting, [Next]_vars
  PROVE  JobsExecuting'
<1> USE DEF TypeOK, JobsExecuting, None, registry, server, session, vars
<1>1. CASE Accept
  <2>1. next_id \in ConnId /\ pc[next_id] = "Unused"
    BY <1>1, BoundsAssumption DEF Accept, ConnId, FreshIds
  <2> QED
    BY <1>1, <2>1 DEF Accept, FreshId
<1>2. CASE Shutdown \/ Stop \/ UNCHANGED vars
  BY <1>2 DEF Shutdown, Stop
<1>3. ASSUME NEW id \in ConnId, NEW access \in Option(AccessLevel),
             Grant(id, access) \/ Deny(id)
      PROVE  JobsExecuting'
  BY <1>3 DEF Grant, Deny
<1>4. ASSUME NEW id \in ConnId, Abort(id)
      PROVE  JobsExecuting'
  BY <1>4 DEF Abort
<1>5. ASSUME NEW id \in ConnId,
             pc[id] \in {"Reading", "Body", "Replying", "FinalReply"} /\ Leave(id)
      PROVE  JobsExecuting'
  BY <1>5 DEF Leave
<1>6. ASSUME NEW id \in ConnId, ReadLength(id) \/ ReplyWritten(id) \/ Deregister(id)
      PROVE  JobsExecuting'
  BY <1>6 DEF ReadLength, ReplyWritten, Deregister
<1>7. ASSUME NEW id \in ConnId, NEW matches \in BOOLEAN, NEW requested \in AccessLevel,
             \/ AuthenticateNoToken(id) \/ AuthenticateGranted(id, matches)
             \/ RequestAuth(id, requested) \/ Ping(id)
      PROVE  JobsExecuting'
  BY <1>7 DEF AuthenticateNoToken, AuthenticateGranted, RequestAuth, Ping, Receive, Answer
<1>8. ASSUME NEW id \in ConnId, NEW matches \in BOOLEAN, AuthenticateBad(id, matches)
      PROVE  JobsExecuting'
  BY <1>8 DEF AuthenticateBad, Receive
<1>9. ASSUME NEW id \in ConnId, NEW method \in Methods, NEW path \in Paths,
             Execute(id, method, path)
      PROVE  JobsExecuting'
  <2> DEFINE required == required_access_for(method, path)
  <2>1. CASE ValidMethod(method) /\ Permitted(id, required)
    <3>1. /\ pc' = [pc EXCEPT ![id] = "Executing"]
          /\ job' = [job EXCEPT ![id] = Some(required)]
      BY <1>9, <2>1 DEF Execute
    <3>2. Some(required) # None
      BY DEF Some
    <3> HIDE DEF required, None
    <3> QED
      BY <3>1, <3>2
  <2>2. CASE ~(ValidMethod(method) /\ Permitted(id, required))
    BY <1>9, <2>2 DEF Execute, Receive, Answer
  <2> QED
    BY <2>1, <2>2
<1>10. ASSUME NEW id \in ConnId, NEW deliverable \in BOOLEAN, ExecutorReturns(id, deliverable)
       PROVE  JobsExecuting'
  BY <1>10 DEF ExecutorReturns, Answer
<1> QED
  <2> HIDE DEF TypeOK, JobsExecuting, None, registry, server, session, vars
  <2> QED
    BY <1>1, <1>2, <1>3, <1>4, <1>5, <1>6, <1>7, <1>8, <1>9, <1>10,
       OptionNonEmpty, StepCases

-----------------------------------------------------------------------------
(* Entries that list a connection are not NoEntry. *)
LEMMA ListedEntries ==
  /\ \A state \in {"Connected", "Pending", "Authorized", "Denied"} : \A access, method :
        EntryOf(state, access, method) # NoEntry
  /\ \A e \in Entry : [[e EXCEPT !.state = "Denied"] EXCEPT !.access = None] # NoEntry
  /\ \A e \in Entry : e.state \in {"Connected", "Pending", "Authorized", "Denied"}
                        => e # NoEntry
<1>1. NoEntry.state = "Absent"
  BY DEF NoEntry, EntryOf
<1>2. \A state, access, method : EntryOf(state, access, method).state = state
  BY DEF EntryOf
<1>3. \A e \in Entry : [[e EXCEPT !.state = "Denied"] EXCEPT !.access = None].state = "Denied"
  BY DEF Entry
<1>4. ASSUME NEW state \in {"Connected", "Pending", "Authorized", "Denied"},
             NEW access, NEW method
      PROVE  EntryOf(state, access, method) # NoEntry
  BY <1>1, <1>2
<1>5. ASSUME NEW e \in Entry
      PROVE  [[e EXCEPT !.state = "Denied"] EXCEPT !.access = None] # NoEntry
  BY <1>1, <1>3
<1>6. ASSUME NEW e \in Entry, e.state \in {"Connected", "Pending", "Authorized", "Denied"}
      PROVE  e # NoEntry
  BY <1>1, <1>6
<1> QED
  BY <1>4, <1>5, <1>6

(* The registry follows the sessions through every step. *)
LEMMA RegistryStep ==
  ASSUME TypeOK, FreshIds, RegistryMatchesSessions, [Next]_vars
  PROVE  RegistryMatchesSessions'
<1> USE DEF TypeOK, RegistryMatchesSessions, Live, Parked, registry, server, session, vars
<1>1. CASE Accept
  <2>1. next_id \in ConnId /\ pc[next_id] = "Unused"
    BY <1>1, BoundsAssumption DEF Accept, ConnId, FreshIds
  <2> QED
    BY <1>1, <2>1, ListedEntries DEF Accept, FreshId
<1>2. CASE Shutdown \/ Stop \/ UNCHANGED vars
  BY <1>2 DEF Shutdown, Stop
<1>3. ASSUME NEW id \in ConnId, NEW access \in Option(AccessLevel), Grant(id, access)
      PROVE  RegistryMatchesSessions'
  BY <1>3, ListedEntries DEF Grant
<1>4. ASSUME NEW id \in ConnId, Deny(id)
      PROVE  RegistryMatchesSessions'
  BY <1>4, ListedEntries DEF Deny
<1>5. ASSUME NEW id \in ConnId, Abort(id)
      PROVE  RegistryMatchesSessions'
  BY <1>5 DEF Abort, CancelledAt
<1>6. ASSUME NEW id \in ConnId,
             pc[id] \in {"Reading", "Body", "Replying", "FinalReply"} /\ Leave(id)
      PROVE  RegistryMatchesSessions'
  BY <1>6 DEF Leave
<1>7. ASSUME NEW id \in ConnId, ReadLength(id) \/ ReplyWritten(id) \/ Deregister(id)
      PROVE  RegistryMatchesSessions'
  BY <1>7 DEF ReadLength, ReplyWritten, Deregister, RemoveEntry
<1>8. ASSUME NEW id \in ConnId, NEW matches \in BOOLEAN,
             \/ AuthenticateNoToken(id) \/ AuthenticateBad(id, matches) \/ Ping(id)
      PROVE  RegistryMatchesSessions'
  BY <1>8 DEF AuthenticateNoToken, AuthenticateBad, Ping, Receive, Answer
<1>9. ASSUME NEW id \in ConnId, NEW matches \in BOOLEAN, AuthenticateGranted(id, matches)
      PROVE  RegistryMatchesSessions'
  BY <1>9, ListedEntries DEF AuthenticateGranted, Receive, Answer
<1>10. ASSUME NEW id \in ConnId, NEW requested \in AccessLevel, RequestAuth(id, requested)
       PROVE  RegistryMatchesSessions'
  <2>1. conns' = conns \/ conns' = [conns EXCEPT ![id] = PendingFor(requested)]
    BY <1>10 DEF RequestAuth
  <2>2. PendingFor(requested) # NoEntry
    BY ListedEntries DEF PendingFor
  <2>3. pc[id] = "Body" /\ pc' = [pc EXCEPT ![id] = "Replying"] /\ running' = running
    BY <1>10 DEF RequestAuth, Receive, Answer
  <2> QED
    BY <2>1, <2>2, <2>3
<1>11. ASSUME NEW id \in ConnId, NEW method \in Methods, NEW path \in Paths,
              Execute(id, method, path)
       PROVE  RegistryMatchesSessions'
  BY <1>11 DEF Execute, Receive, Answer
<1>12. ASSUME NEW id \in ConnId, NEW deliverable \in BOOLEAN, ExecutorReturns(id, deliverable)
       PROVE  RegistryMatchesSessions'
  BY <1>12 DEF ExecutorReturns, Answer
<1> QED
  <2> HIDE DEF TypeOK, RegistryMatchesSessions, Live, Parked, registry, server, session, vars
  <2> QED
    BY <1>1, <1>2, <1>3, <1>4, <1>5, <1>6, <1>7, <1>8, <1>9, <1>10, <1>11, <1>12,
       OptionNonEmpty, StepCases

(* An entry appears only with an accepted connection. *)
LEMMA EntriesAppearOnAccept ==
  ASSUME TypeOK, FreshIds, RegistryMatchesSessions, [Next]_vars, ~Accept,
         NEW id \in ConnId, conns[id] = NoEntry
  PROVE  conns'[id] = NoEntry
<1>1. pc[id] \notin Live \union {"Aborted"}
  BY DEF RegistryMatchesSessions
<1>2. RegistryMatchesSessions'
  BY RegistryStep
<1>3. pc'[id] = pc[id] \/ pc'[id] \in {"Finished"}
  <2> USE <1>1 DEF TypeOK, Live, Parked, registry, server, session, vars
  <2>1. CASE Shutdown \/ Stop \/ UNCHANGED vars
    BY <2>1 DEF Shutdown, Stop
  <2>2. ASSUME NEW i \in ConnId, NEW access \in Option(AccessLevel),
               Grant(i, access) \/ Deny(i)
        PROVE  pc'[id] = pc[id]
    BY <2>2 DEF Grant, Deny
  <2>3. ASSUME NEW i \in ConnId,
               \/ Abort(i) \/ ReadLength(i) \/ ReplyWritten(i) \/ Deregister(i)
               \/ pc[i] \in {"Reading", "Body", "Replying", "FinalReply"} /\ Leave(i)
        PROVE  pc'[id] = pc[id]
    BY <2>3 DEF Abort, CancelledAt, ReadLength, ReplyWritten, Deregister, Leave
  <2>4. ASSUME NEW i \in ConnId, NEW matches \in BOOLEAN, NEW requested \in AccessLevel,
               \/ AuthenticateNoToken(i) \/ AuthenticateBad(i, matches)
               \/ AuthenticateGranted(i, matches)
               \/ RequestAuth(i, requested) \/ Ping(i)
        PROVE  pc'[id] = pc[id]
    BY <2>4 DEF AuthenticateNoToken, AuthenticateBad, AuthenticateGranted,
                RequestAuth, Ping, Receive, Answer
  <2>5. ASSUME NEW i \in ConnId, NEW method \in Methods, NEW path \in Paths,
               Execute(i, method, path)
        PROVE  pc'[id] = pc[id]
    BY <2>5 DEF Execute, Receive, Answer
  <2>6. ASSUME NEW i \in ConnId, NEW deliverable \in BOOLEAN,
               ExecutorReturns(i, deliverable)
        PROVE  pc'[id] = pc[id]
    BY <2>6 DEF ExecutorReturns, Answer
  <2> QED
    <3> HIDE DEF TypeOK, Live, Parked, registry, server, session, vars
    <3> QED
      BY <2>1, <2>2, <2>3, <2>4, <2>5, <2>6, OptionNonEmpty, StepCases
<1> QED
  BY <1>1, <1>2, <1>3 DEF RegistryMatchesSessions, Live, Parked

(* The registry stays within the cap: only the accept loop adds an entry,  *)
(* and it counted the sessions, which are the entries while it runs.       *)
LEMMA CapStep ==
  ASSUME TypeOK, FreshIds, RegistryMatchesSessions, CapRespected, [Next]_vars
  PROVE  CapRespected'
<1> DEFINE Listed == {id \in ConnId : conns[id] # NoEntry}
<1>1. IsFiniteSet(Listed) /\ IsFiniteSet(ConnId)
  <2>1. 1 \in Int /\ MaxConnId \in Int
    BY BoundsAssumption
  <2>2. IsFiniteSet(ConnId)
    BY <2>1, FS_Interval DEF ConnId
  <2>3. Listed \in SUBSET ConnId
    OBVIOUS
  <2> QED
    BY <2>2, <2>3, FS_Subset
<1>2. CASE Accept
  <2>1. next_id \in ConnId /\ pc[next_id] = "Unused"
    BY <1>2, BoundsAssumption DEF Accept, ConnId, TypeOK, FreshIds
  <2>2. next_id \notin Listed
    BY <2>1 DEF RegistryMatchesSessions, Live, Parked
  <2>3. Listed = OpenSessions
    BY <1>2 DEF RegistryMatchesSessions, OpenSessions, Accept, Live, Parked
  <2>4. Listed' = Listed \union {next_id}
    BY <1>2, <2>1, ListedEntries DEF Accept, FreshId, TypeOK
  <2>5. Cardinality(Listed') = Cardinality(Listed) + 1
    BY <1>1, <2>2, <2>4, FS_AddElement
  <2>6. Cardinality(Listed) < MAX_CONNECTIONS
    BY <1>2, <2>3 DEF Accept, RoomForOne
  <2>7. Cardinality(Listed) \in Nat
    BY <1>1, FS_CardinalityType
  <2>8. Cardinality(Listed') <= MAX_CONNECTIONS
    BY <2>5, <2>6, <2>7, BoundsAssumption
  <2> QED
    BY <2>8 DEF CapRespected
<1>3. CASE ~Accept
  <2>1. Listed' \subseteq Listed
    BY <1>3, EntriesAppearOnAccept
  <2>2. Cardinality(Listed') <= Cardinality(Listed) /\ IsFiniteSet(Listed')
    BY <1>1, <2>1, FS_Subset
  <2>3. Cardinality(Listed') \in Nat /\ Cardinality(Listed) \in Nat
    BY <1>1, <2>2, FS_CardinalityType
  <2>4. Cardinality(Listed) <= MAX_CONNECTIONS
    BY DEF CapRespected
  <2>5. Cardinality(Listed') <= MAX_CONNECTIONS
    BY <2>2, <2>3, <2>4, BoundsAssumption
  <2> QED
    BY <2>5 DEF CapRespected
<1> QED
  BY <1>2, <1>3

-----------------------------------------------------------------------------
(* No level above the ceiling enters the registry, a job or a reply. *)
LEMMA CeilingStep ==
  ASSUME TypeOK, WithinCeiling, [Next]_vars
  PROVE  WithinCeiling'
<1> DEFINE Bounded(levels) == \A l \in levels : l <= ceiling
<1>1. ceiling \in Nat /\ ceiling' = ceiling
  <2>1. ceiling \in AccessLevel
    BY DEF TypeOK
  <2>2. ceiling' = ceiling
    BY StepCases DEF Shutdown, Accept, Stop, Grant, Deny, Abort, ReadLength, Leave,
       AuthenticateNoToken, AuthenticateBad, AuthenticateGranted, RequestAuth, Ping,
       Execute, ExecutorReturns, ReplyWritten, Deregister, registry, server, session, vars
  <2> QED
    BY <2>1, <2>2 DEF AccessLevel, Market, View, Trading
<1>2. /\ Bounded({})
      /\ \A type : ReplyOf(type).access = {}
      /\ NoReply.access = {} /\ NoEntry.access = {}
      /\ \A state, access, method : EntryOf(state, access, method).access = access
      /\ \A level : Authenticated(level).access = {level}
      /\ \A e \in Entry : [[e EXCEPT !.state = "Denied"] EXCEPT !.access = None].access = {}
  BY DEF ReplyOf, NoReply, NoEntry, EntryOf, Authenticated, Some, None, Entry
<1>3. \A id \in ConnId : /\ Bounded(conns[id].access)
                         /\ Bounded(job[id])
                         /\ Bounded(reply[id].access)
  BY DEF WithinCeiling
<1> SUFFICES ASSUME NEW i \in ConnId
             PROVE  /\ Bounded(conns'[i].access)
                    /\ Bounded(job'[i])
                    /\ Bounded(reply'[i].access)
  BY <1>1 DEF WithinCeiling
<1> USE <1>2, <1>3 DEF TypeOK, registry, server, session, vars
<1> HIDE DEF Bounded
<1>4. CASE Accept
  BY <1>4, BoundsAssumption DEF Accept, FreshId, None, ConnId
<1>5. CASE Shutdown \/ Stop \/ UNCHANGED vars
  BY <1>5 DEF Shutdown, Stop
<1>6. ASSUME NEW id \in ConnId, NEW access \in Option(AccessLevel), Grant(id, access)
      PROVE  Bounded(conns'[i].access) /\ Bounded(job'[i]) /\ Bounded(reply'[i].access)
  BY <1>6 DEF Grant, Bounded
<1>7. ASSUME NEW id \in ConnId, Deny(id)
      PROVE  Bounded(conns'[i].access) /\ Bounded(job'[i]) /\ Bounded(reply'[i].access)
  BY <1>7 DEF Deny
<1>8. ASSUME NEW id \in ConnId,
             \/ Abort(id) \/ ReadLength(id) \/ Leave(id)
             \/ ReplyWritten(id) \/ Deregister(id)
      PROVE  Bounded(conns'[i].access) /\ Bounded(job'[i]) /\ Bounded(reply'[i].access)
  BY <1>8 DEF Abort, ReadLength, Leave, ReplyWritten, Deregister, RemoveEntry, None
<1>9. ASSUME NEW id \in ConnId, NEW matches \in BOOLEAN,
             AuthenticateNoToken(id) \/ AuthenticateBad(id, matches) \/ Ping(id)
      PROVE  Bounded(conns'[i].access) /\ Bounded(job'[i]) /\ Bounded(reply'[i].access)
  <2>1. \E type : reply' = [reply EXCEPT ![id] = ReplyOf(type)]
    BY <1>9 DEF AuthenticateNoToken, AuthenticateBad, Ping, Answer
  <2>2. PICK type : reply' = [reply EXCEPT ![id] = ReplyOf(type)]
    BY <2>1
  <2>3. Bounded(ReplyOf(type).access)
    BY <1>2
  <2>4. Bounded(reply'[i].access)
    BY <2>2, <2>3
  <2>5. conns' = conns /\ job' = job
    BY <1>9 DEF AuthenticateNoToken, AuthenticateBad, Ping
  <2> QED
    BY <2>4, <2>5
<1>10. ASSUME NEW id \in ConnId, NEW matches \in BOOLEAN, AuthenticateGranted(id, matches)
       PROVE  Bounded(conns'[i].access) /\ Bounded(job'[i]) /\ Bounded(reply'[i].access)
  <2>1. Bounded({ceiling})
    BY <1>1 DEF Bounded
  <2>2. EntryOf("Authorized", Some(ceiling), "Token").access = {ceiling}
    BY <1>2 DEF Some
  <2>3. Bounded(conns'[i].access)
    BY <1>10, <2>1, <2>2 DEF AuthenticateGranted
  <2>4. Bounded(reply'[i].access)
    BY <1>10, <2>1 DEF AuthenticateGranted, Answer
  <2> QED
    BY <1>10, <2>3, <2>4 DEF AuthenticateGranted
<1>11. ASSUME NEW id \in ConnId, NEW requested \in AccessLevel, RequestAuth(id, requested)
       PROVE  Bounded(conns'[i].access) /\ Bounded(job'[i]) /\ Bounded(reply'[i].access)
  <2>1. Bounded(PendingFor(requested).access)
    BY CappedType DEF Bounded, PendingFor, Some
  <2>2. conns' = conns \/ conns' = [conns EXCEPT ![id] = PendingFor(requested)]
    BY <1>11 DEF RequestAuth
  <2>3. \E r : reply' = [reply EXCEPT ![id] = r] /\ Bounded(r.access)
    <3>1. Bounded(ReplyOf("AuthPending").access) /\ Bounded(ReplyOf("AuthDenied").access)
          /\ Bounded(ReplyOf("Failed").access)
      BY <1>2
    <3>2. Bounded([type |-> "Authenticated", access |-> conns[id].access].access)
      BY <1>3
    <3> QED
      BY <1>11, <3>1, <3>2 DEF RequestAuth, Answer
  <2> QED
    BY <1>11, <2>1, <2>2, <2>3 DEF RequestAuth
<1>12. ASSUME NEW id \in ConnId, NEW method \in Methods, NEW path \in Paths,
              Execute(id, method, path)
       PROVE  Bounded(conns'[i].access) /\ Bounded(job'[i]) /\ Bounded(reply'[i].access)
  <2> DEFINE required == required_access_for(method, path)
  <2>1. CASE ValidMethod(method) /\ Permitted(id, required)
    <3>1. PICK level \in conns[id].access : level >= required
      BY <2>1 DEF Permitted, permits, authorized_access, None
    <3>2. level <= ceiling /\ level \in Nat /\ required \in Nat
      <4>1. conns[id].access \in Option(AccessLevel)
        BY RecordTypes
      <4>2. level \in AccessLevel /\ required \in AccessLevel
        BY <3>1, <4>1, ClassificationType DEF Option, Some, None
      <4> QED
        BY <3>1, <4>2 DEF Bounded, AccessLevel, Market, View, Trading
    <3>3. Bounded(Some(required))
      BY <1>1, <3>1, <3>2 DEF Bounded, Some
    <3> QED
      BY <1>12, <2>1, <3>3 DEF Execute
  <2>2. CASE ~(ValidMethod(method) /\ Permitted(id, required))
    <3>1. Bounded(ReplyOf("Failed").access)
      BY <1>2
    <3>2. reply' = [reply EXCEPT ![id] = ReplyOf("Failed")] /\ conns' = conns /\ job' = job
      BY <1>12, <2>2 DEF Execute, Answer
    <3> QED
      BY <3>1, <3>2
  <2> QED
    BY <2>1, <2>2
<1>13. ASSUME NEW id \in ConnId, NEW deliverable \in BOOLEAN, ExecutorReturns(id, deliverable)
       PROVE  Bounded(conns'[i].access) /\ Bounded(job'[i]) /\ Bounded(reply'[i].access)
  BY <1>13 DEF ExecutorReturns, Answer, None
<1> QED
  <2> HIDE <1>2, <1>3 DEF TypeOK, registry, server, session, vars
  <2> QED
    BY <1>4, <1>5, <1>6, <1>7, <1>8, <1>9, <1>10, <1>11, <1>12, <1>13,
       OptionNonEmpty, StepCases

(* At most one connection carries the token's mark, and only after it was  *)
(* spent: while the token is fresh nobody carries it.                      *)
LEMMA TokenStep ==
  ASSUME TypeOK, TokenAuthorizesOnce, [Next]_vars
  PROVE  TokenAuthorizesOnce'
<1> DEFINE Marked == {i \in ConnId : conns[i].method = "Token"}
<1>1. ASSUME Marked' \subseteq Marked, token' \in {token, "Consumed"}
      PROVE  TokenAuthorizesOnce'
  BY <1>1 DEF TokenAuthorizesOnce
<1>2. /\ NoEntry.method = "None"
      /\ \A state, access, method : EntryOf(state, access, method).method = method
      /\ \A e \in Entry : [[e EXCEPT !.state = "Denied"] EXCEPT !.access = None].method
                            = e.method
  BY DEF NoEntry, EntryOf, Entry
<1> USE DEF TypeOK, registry, server, session, vars
<1>3. CASE Accept
  <2>1. Marked' \subseteq Marked
    BY <1>2, <1>3 DEF Accept
  <2> QED
    BY <1>1, <1>3, <2>1 DEF Accept
<1>4. CASE Shutdown \/ Stop \/ UNCHANGED vars
  BY <1>1, <1>4 DEF Shutdown, Stop
<1>5. ASSUME NEW id \in ConnId, NEW access \in Option(AccessLevel), Grant(id, access)
      PROVE  TokenAuthorizesOnce'
  <2>1. Marked' \subseteq Marked
    BY <1>2, <1>5 DEF Grant
  <2> QED
    BY <1>1, <1>5, <2>1 DEF Grant
<1>6. ASSUME NEW id \in ConnId, Deny(id)
      PROVE  TokenAuthorizesOnce'
  <2>1. Marked' \subseteq Marked
    BY <1>2, <1>6 DEF Deny
  <2> QED
    BY <1>1, <1>6, <2>1 DEF Deny
<1>7. ASSUME NEW id \in ConnId,
             Abort(id) \/ ReadLength(id) \/ Leave(id) \/ ReplyWritten(id)
      PROVE  TokenAuthorizesOnce'
  BY <1>1, <1>7 DEF Abort, ReadLength, Leave, ReplyWritten
<1>8. ASSUME NEW id \in ConnId, Deregister(id)
      PROVE  TokenAuthorizesOnce'
  <2>1. Marked' \subseteq Marked
    BY <1>2, <1>8 DEF Deregister, RemoveEntry
  <2> QED
    BY <1>1, <1>8, <2>1 DEF Deregister
<1>9. ASSUME NEW id \in ConnId, NEW matches \in BOOLEAN,
             AuthenticateNoToken(id) \/ AuthenticateBad(id, matches) \/ Ping(id)
      PROVE  TokenAuthorizesOnce'
  BY <1>1, <1>9 DEF AuthenticateNoToken, AuthenticateBad, Ping
<1>10. ASSUME NEW id \in ConnId, NEW matches \in BOOLEAN, AuthenticateGranted(id, matches)
       PROVE  TokenAuthorizesOnce'
  <2>1. token = "Fresh" /\ token' = "Consumed"
    BY <1>10 DEF AuthenticateGranted, ConsumeToken
  <2>2. Marked = {}
    BY <2>1 DEF TokenAuthorizesOnce
  <2>3. \A i \in ConnId \ {id} : conns'[i] = conns[i]
    BY <1>10 DEF AuthenticateGranted
  <2>4. Marked' \subseteq {id}
    BY <2>2, <2>3
  <2> QED
    BY <2>1, <2>4 DEF TokenAuthorizesOnce
<1>11. ASSUME NEW id \in ConnId, NEW requested \in AccessLevel, RequestAuth(id, requested)
       PROVE  TokenAuthorizesOnce'
  <2>1. Marked' \subseteq Marked
    BY <1>2, <1>11 DEF RequestAuth, PendingFor
  <2> QED
    BY <1>1, <1>11, <2>1 DEF RequestAuth
<1>12. ASSUME NEW id \in ConnId, NEW method \in Methods, NEW path \in Paths,
              Execute(id, method, path)
       PROVE  TokenAuthorizesOnce'
  BY <1>1, <1>12 DEF Execute
<1>13. ASSUME NEW id \in ConnId, NEW deliverable \in BOOLEAN, ExecutorReturns(id, deliverable)
       PROVE  TokenAuthorizesOnce'
  BY <1>1, <1>13 DEF ExecutorReturns
<1> QED
  <2> HIDE DEF TypeOK, registry, server, session, vars
  <2> QED
    BY <1>3, <1>4, <1>5, <1>6, <1>7, <1>8, <1>9, <1>10, <1>11, <1>12, <1>13,
       OptionNonEmpty, StepCases

-----------------------------------------------------------------------------
(* The inductive invariant: the checked invariants and what they rest on. *)
IInv ==
  /\ TypeOK
  /\ FreshIds
  /\ JobsExecuting
  /\ GuessesBounded
  /\ RegistryMatchesSessions
  /\ CapRespected
  /\ WithinCeiling
  /\ TokenAuthorizesOnce

(* The agent starts with no connection, so nothing is there to violate it. *)
LEMMA IInvInit == Init => IInv
<1> SUFFICES ASSUME Init PROVE IInv
  OBVIOUS
<1> USE BoundsAssumption DEF Init
<1>1. TypeOK
  <2>1. 1 \in 1..(MaxConnId + 1) /\ 0 \in 0..MAX_AUTH_ATTEMPTS
    OBVIOUS
  <2> QED
    BY <2>1, RecordTypes, ControlTypes DEF TypeOK
<1>2. FreshIds /\ JobsExecuting /\ GuessesBounded
  BY DEF FreshIds, JobsExecuting, GuessesBounded, ConnId
<1>3. RegistryMatchesSessions
  BY DEF RegistryMatchesSessions, Live, Parked
<1>4. CapRespected
  <2>1. {id \in ConnId : conns[id] # NoEntry} = {}
    OBVIOUS
  <2>2. Cardinality({id \in ConnId : conns[id] # NoEntry}) = 0
    BY <2>1, FS_EmptySet
  <2> QED
    BY <2>2 DEF CapRespected
<1>5. WithinCeiling
  BY DEF WithinCeiling, NoEntry, EntryOf, NoReply, ReplyOf, None
<1>6. TokenAuthorizesOnce
  BY DEF TokenAuthorizesOnce, NoEntry, EntryOf
<1> QED
  BY <1>1, <1>2, <1>3, <1>4, <1>5, <1>6 DEF IInv

(* Every step of the agent, its operator and its sessions preserves it. *)
LEMMA IInvStep ==
  ASSUME IInv, [Next]_vars
  PROVE  IInv'
BY TypeStep, FreshIdsStep, JobsExecutingStep, GuessesStep, RegistryStep, CapStep,
   CeilingStep, TokenStep DEF IInv

(* So it holds throughout every run of the agent. *)
LEMMA Invariance == Spec => []IInv
BY IInvInit, IInvStep, PTL DEF Spec

(* Every variable stays within its type. *)
THEOREM TypeCorrect == Spec => []TypeOK
BY Invariance, PTL DEF IInv

(* No tier above the agent's ceiling is ever requested of the operator,    *)
(* granted, reported or executed, for any number of connections.           *)
THEOREM CeilingRespected == Spec => []WithinCeiling
BY Invariance, PTL DEF IInv

(* The one-time token authorizes at most one connection. *)
THEOREM OneTokenOneClient == Spec => []TokenAuthorizesOnce
BY Invariance, PTL DEF IInv

(* A session reads no request after its last tolerated wrong token. *)
THEOREM GuessingIsBounded == Spec => []GuessesBounded
BY Invariance, PTL DEF IInv

(* The registry lists exactly the connections that have not ended. *)
THEOREM RegistryFaithful == Spec => []RegistryMatchesSessions
BY Invariance, PTL DEF IInv

(* The registry never holds more entries than MAX_CONNECTIONS. *)
THEOREM RegistryBounded == Spec => []CapRespected
BY Invariance, PTL DEF IInv

-----------------------------------------------------------------------------
(* What a connection may use is nothing unless its entry says Authorized. *)
LEMMA AccessOfEntries ==
  /\ \A access, method, state :
       /\ EntryOf(state, access, method).state = state
       /\ EntryOf(state, access, method).access = access
  /\ NoEntry.state = "Absent"
  /\ \A e \in Entry : [[e EXCEPT !.state = "Denied"] EXCEPT !.access = None].state = "Denied"
BY DEF EntryOf, NoEntry, Entry

(* A session that finished stays finished and its id unlisted. *)
LEMMA FinishedStep ==
  ASSUME IInv, [Next]_vars, NEW i \in ConnId, pc[i] = "Finished"
  PROVE  pc'[i] = "Finished" /\ conns'[i] = NoEntry
<1>1. /\ TypeOK /\ FreshIds /\ RegistryMatchesSessions /\ RegistryMatchesSessions'
  BY RegistryStep DEF IInv
<1>2. pc'[i] = "Finished"
  <2> USE <1>1 DEF TypeOK, registry, server, session, vars
  <2>1. CASE Accept
    <3>1. next_id \in ConnId /\ pc[next_id] = "Unused"
      BY <2>1, BoundsAssumption DEF Accept, ConnId, FreshIds
    <3> QED
      BY <2>1, <3>1 DEF Accept, FreshId
  <2>2. CASE Shutdown \/ Stop \/ UNCHANGED vars
    BY <2>2 DEF Shutdown, Stop
  <2>3. ASSUME NEW id \in ConnId, NEW access \in Option(AccessLevel),
               Grant(id, access) \/ Deny(id)
        PROVE  pc'[i] = "Finished"
    BY <2>3 DEF Grant, Deny
  <2>4. ASSUME NEW id \in ConnId,
               \/ Abort(id) \/ ReadLength(id) \/ ReplyWritten(id) \/ Deregister(id)
               \/ pc[id] \in {"Reading", "Body", "Replying", "FinalReply"} /\ Leave(id)
        PROVE  pc'[i] = "Finished"
    BY <2>4 DEF Abort, CancelledAt, Parked, ReadLength, ReplyWritten, Deregister, Leave
  <2>5. ASSUME NEW id \in ConnId, NEW matches \in BOOLEAN, NEW requested \in AccessLevel,
               \/ AuthenticateNoToken(id) \/ AuthenticateBad(id, matches)
               \/ AuthenticateGranted(id, matches)
               \/ RequestAuth(id, requested) \/ Ping(id)
        PROVE  pc'[i] = "Finished"
    BY <2>5 DEF AuthenticateNoToken, AuthenticateBad, AuthenticateGranted,
                RequestAuth, Ping, Receive, Answer
  <2>6. ASSUME NEW id \in ConnId, NEW method \in Methods, NEW path \in Paths,
               Execute(id, method, path)
        PROVE  pc'[i] = "Finished"
    BY <2>6 DEF Execute, Receive, Answer
  <2>7. ASSUME NEW id \in ConnId, NEW deliverable \in BOOLEAN,
               ExecutorReturns(id, deliverable)
        PROVE  pc'[i] = "Finished"
    BY <2>7 DEF ExecutorReturns, Answer
  <2> QED
    <3> HIDE DEF TypeOK, registry, server, session, vars
    <3> QED
      BY <2>1, <2>2, <2>3, <2>4, <2>5, <2>6, <2>7, OptionNonEmpty, StepCases
<1> QED
  BY <1>1, <1>2 DEF RegistryMatchesSessions, Live, Parked

(* An id the operator has seen never comes to mean another connection. *)
THEOREM IdsAreForLife == Spec => IdsNeverReused
<1>1. ASSUME IInv, [Next]_vars
      PROVE  [\A id \in ConnId :
                pc[id] = "Finished" => pc'[id] = "Finished" /\ conns'[id] = NoEntry]_vars
  BY <1>1, FinishedStep
<1> QED
  BY <1>1, Invariance, PTL DEF Spec, IdsNeverReused

(* A session's own step raises no authority but by spending the token. *)
LEMMA AuthorityStep ==
  ASSUME IInv, [Next]_vars, NEW i \in ConnId,
         authorized_access(i)' \notin {None, authorized_access(i)}
  PROVE  UNCHANGED pc \/ (token = "Fresh" /\ token' = "Consumed")
<1> USE DEF IInv, TypeOK, registry, server, session, vars
<1>0. ASSUME conns'[i] = conns[i] \/ conns'[i].state # "Authorized"
      PROVE  FALSE
  BY <1>0 DEF authorized_access
<1>1. CASE Accept
  <2>1. next_id \in ConnId
    BY <1>1, BoundsAssumption DEF Accept, ConnId
  <2> QED
    BY <1>0, <1>1, <2>1, AccessOfEntries DEF Accept, FreshId
<1>2. CASE Shutdown \/ Stop \/ UNCHANGED vars
  BY <1>2 DEF Shutdown, Stop
<1>3. ASSUME NEW id \in ConnId, NEW access \in Option(AccessLevel),
             Grant(id, access) \/ Deny(id)
      PROVE  UNCHANGED pc
  BY <1>3 DEF Grant, Deny
<1>4. ASSUME NEW id \in ConnId,
             Abort(id) \/ ReadLength(id) \/ Leave(id) \/ ReplyWritten(id)
      PROVE  FALSE
  BY <1>0, <1>4 DEF Abort, ReadLength, ReplyWritten, Leave
<1>5. ASSUME NEW id \in ConnId, Deregister(id)
      PROVE  FALSE
  BY <1>0, <1>5, AccessOfEntries DEF Deregister, RemoveEntry
<1>6. ASSUME NEW id \in ConnId, NEW matches \in BOOLEAN,
             AuthenticateNoToken(id) \/ AuthenticateBad(id, matches) \/ Ping(id)
      PROVE  FALSE
  BY <1>0, <1>6 DEF AuthenticateNoToken, AuthenticateBad, Ping
<1>7. ASSUME NEW id \in ConnId, NEW matches \in BOOLEAN, AuthenticateGranted(id, matches)
      PROVE  token = "Fresh" /\ token' = "Consumed"
  BY <1>7 DEF AuthenticateGranted, ConsumeToken
<1>8. ASSUME NEW id \in ConnId, NEW requested \in AccessLevel, RequestAuth(id, requested)
      PROVE  FALSE
  BY <1>0, <1>8, AccessOfEntries DEF RequestAuth, PendingFor
<1>9. ASSUME NEW id \in ConnId, NEW method \in Methods, NEW path \in Paths,
             Execute(id, method, path)
      PROVE  FALSE
  BY <1>0, <1>9 DEF Execute
<1>10. ASSUME NEW id \in ConnId, NEW deliverable \in BOOLEAN, ExecutorReturns(id, deliverable)
       PROVE  FALSE
  BY <1>0, <1>10 DEF ExecutorReturns
<1> QED
  <2> HIDE DEF IInv, TypeOK, registry, server, session, vars
  <2> QED
    BY <1>1, <1>2, <1>3, <1>4, <1>5, <1>6, <1>7, <1>8, <1>9, <1>10,
       OptionNonEmpty, StepCases

(* Authority appears or changes only by the operator's hand or the token. *)
THEOREM AuthoritySourced == Spec => AuthorityHasASource
<1>1. ASSUME IInv, [Next]_vars
      PROVE  [\A id \in ConnId :
                authorized_access(id)' \notin {None, authorized_access(id)} =>
                  \/ UNCHANGED pc
                  \/ token = "Fresh" /\ token' = "Consumed"]_vars
  BY <1>1, AuthorityStep
<1> QED
  BY <1>1, Invariance, PTL DEF Spec, AuthorityHasASource

(* What lifts a denial is a new decision of the operator's, or the token.  *)
LEMMA DenialStep ==
  ASSUME IInv, [Next]_vars, NEW i \in ConnId, conns[i].state = "Denied",
         conns'[i].state \notin {"Denied", "Absent"}
  PROVE  UNCHANGED pc \/ (token = "Fresh" /\ token' = "Consumed")
<1> USE DEF IInv, TypeOK, registry, server, session, vars
<1>0. ASSUME conns'[i] = conns[i]
      PROVE  FALSE
  BY <1>0
<1>1. ASSUME Accept
      PROVE  FALSE
  <2>1. next_id \in ConnId
    BY <1>1, BoundsAssumption DEF Accept, ConnId
  <2>2. conns[next_id] = NoEntry
    BY <2>1 DEF FreshIds, RegistryMatchesSessions, Live, Parked
  <2>3. next_id # i
    BY <2>2 DEF NoEntry, EntryOf
  <2> QED
    BY <1>0, <1>1, <2>3 DEF Accept, FreshId
<1>2. CASE Shutdown \/ Stop \/ UNCHANGED vars
  BY <1>2 DEF Shutdown, Stop
<1>3. ASSUME NEW id \in ConnId, NEW access \in Option(AccessLevel),
             Grant(id, access) \/ Deny(id)
      PROVE  UNCHANGED pc
  BY <1>3 DEF Grant, Deny
<1>4. ASSUME NEW id \in ConnId,
             Abort(id) \/ ReadLength(id) \/ Leave(id) \/ ReplyWritten(id)
      PROVE  FALSE
  BY <1>0, <1>4 DEF Abort, ReadLength, ReplyWritten, Leave
<1>5. ASSUME NEW id \in ConnId, Deregister(id)
      PROVE  FALSE
  BY <1>0, <1>5 DEF Deregister, RemoveEntry, NoEntry, EntryOf
<1>6. ASSUME NEW id \in ConnId, NEW matches \in BOOLEAN,
             AuthenticateNoToken(id) \/ AuthenticateBad(id, matches) \/ Ping(id)
      PROVE  FALSE
  BY <1>0, <1>6 DEF AuthenticateNoToken, AuthenticateBad, Ping
<1>7. ASSUME NEW id \in ConnId, NEW matches \in BOOLEAN, AuthenticateGranted(id, matches)
      PROVE  token = "Fresh" /\ token' = "Consumed"
  BY <1>7 DEF AuthenticateGranted, ConsumeToken
<1>8. ASSUME NEW id \in ConnId, NEW requested \in AccessLevel, RequestAuth(id, requested)
      PROVE  FALSE
  BY <1>0, <1>8 DEF RequestAuth
<1>9. ASSUME NEW id \in ConnId, NEW method \in Methods, NEW path \in Paths,
             Execute(id, method, path)
      PROVE  FALSE
  BY <1>0, <1>9 DEF Execute
<1>10. ASSUME NEW id \in ConnId, NEW deliverable \in BOOLEAN, ExecutorReturns(id, deliverable)
       PROVE  FALSE
  BY <1>0, <1>10 DEF ExecutorReturns
<1> QED
  <2> HIDE DEF IInv, TypeOK, registry, server, session, vars
  <2> QED
    BY <1>1, <1>2, <1>3, <1>4, <1>5, <1>6, <1>7, <1>8, <1>9, <1>10,
       OptionNonEmpty, StepCases

LEMMA TokenStaysNone ==
  ASSUME token = "None", [Next]_vars
  PROVE  token' = "None"
<1>1. \A id \in ConnId, matches \in BOOLEAN : ~AuthenticateGranted(id, matches)
  BY DEF AuthenticateGranted
<1> QED
  BY <1>1, StepCases
  DEF vars, registry, server, session, Shutdown, Accept, Stop, Grant, Deny, Abort, ReadLength, Leave,
      AuthenticateNoToken, AuthenticateBad, RequestAuth, Ping, Execute, Answer, ExecutorReturns,
      ReplyWritten, Deregister

(* An agent started without a token keeps what AgentControl::deny says: it *)
(* is the token alone that lifts a denial, as in finding 1.                *)
THEOREM DenialSticksWithoutToken == Spec /\ token = "None" => DenialSticks
<1> DEFINE Tokenless == token = "None"
<1>1. Tokenless /\ [Next]_vars => Tokenless'
  BY TokenStaysNone
<1>2. ASSUME IInv, Tokenless, [Next]_vars
      PROVE  [\A id \in ConnId :
                conns[id].state = "Denied" =>
                  \/ conns'[id].state \in {"Denied", "Absent"}
                  \/ UNCHANGED pc]_vars
  BY <1>2, DenialStep
<1> SUFFICES Spec /\ Tokenless => DenialSticks
  OBVIOUS
<1> HIDE DEF Tokenless
<1> QED
  BY <1>1, <1>2, Invariance, PTL DEF Spec, DenialSticks

-----------------------------------------------------------------------------
(* The agent implements SigningGate.  Under the refinement mapping a step  *)
(* is a decision about one connection, the spending of the token, the      *)
(* admission or the release of a request, or invisible.                    *)
Authority == [id \in ConnId |-> authorized_access(id)]

(* What of the agent's state the gate sees. *)
LEMMA GateVars ==
  Gate!gateVars = <<ceiling, token, Authority, job>>
BY DEF Gate!gateVars, Authority

(* A step that changes at most one entry, keeps within the ceiling and     *)
(* touches neither token nor requests is a decision about that connection. *)
LEMMA EntryChangeIsDecision ==
  ASSUME IInv, IInv', NEW id \in ConnId,
         \A i \in ConnId \ {id} : conns'[i] = conns[i],
         UNCHANGED <<ceiling, token, job>>
  PROVE  Gate!Next
<1> DEFINE new == authorized_access(id)'
<1>1. new \in Option(AccessLevel)
  BY RecordTypes DEF IInv, TypeOK, authorized_access
<1>2. ceiling \in AccessLevel /\ AccessLevel \subseteq Nat
  BY DEF IInv, TypeOK, AccessLevel, Market, View, Trading
<1>3. \A l \in new : l <= ceiling
  BY DEF IInv, WithinCeiling, authorized_access, None
<1>4. \A l \in new : l \in AccessLevel
  BY <1>1 DEF Option, Some, None
<1>5. \A l \in new : Gate!permits(ceiling, l)
  BY <1>2, <1>3, <1>4 DEF Gate!permits
<1>6. Authority' = [Authority EXCEPT ![id] = new]
  BY DEF Authority, authorized_access
<1>7. Gate!Decide(id, new)
  BY <1>5, <1>6 DEF Gate!Decide, Authority
<1>8. new \in Gate!Option(Gate!AccessLevel)
  BY <1>1 DEF Option, AccessLevel, None, Some, Market, View, Trading, Gate!Option,
       Gate!AccessLevel, Gate!None, Gate!Some, Gate!Market, Gate!View, Gate!Trading
<1> QED
  BY <1>7, <1>8 DEF Gate!Next

(* Every step of the agent is one of the gate's, or invisible to it. *)
LEMMA GateStep ==
  ASSUME IInv, IInv', [Next]_vars
  PROVE  [Gate!Next]_(Gate!gateVars)
<1> USE DEF IInv, TypeOK, registry, server, session, vars
<1>1. ASSUME UNCHANGED <<ceiling, token, conns, job>>
      PROVE  UNCHANGED Gate!gateVars
  BY <1>1, GateVars DEF Authority, authorized_access, Gate!gateVars
<1>2. CASE Accept
  <2>1. next_id \in ConnId
    BY <1>2, BoundsAssumption DEF Accept, ConnId
  <2> QED
    BY <1>2, <2>1, EntryChangeIsDecision DEF Accept, FreshId
<1>3. CASE Shutdown \/ Stop \/ UNCHANGED vars
  BY <1>1, <1>3 DEF Shutdown, Stop
<1>4. ASSUME NEW id \in ConnId, NEW access \in Option(AccessLevel),
             Grant(id, access) \/ Deny(id)
      PROVE  Gate!Next
  BY <1>4, EntryChangeIsDecision DEF Grant, Deny
<1>5. ASSUME NEW id \in ConnId, ReadLength(id) \/ Leave(id) \/ ReplyWritten(id)
      PROVE  UNCHANGED Gate!gateVars
  BY <1>1, <1>5 DEF ReadLength, Leave, ReplyWritten
<1>6. ASSUME NEW id \in ConnId, Deregister(id)
      PROVE  Gate!Next
  BY <1>6, EntryChangeIsDecision DEF Deregister, RemoveEntry
<1>7. ASSUME NEW id \in ConnId, NEW matches \in BOOLEAN,
             AuthenticateNoToken(id) \/ AuthenticateBad(id, matches) \/ Ping(id)
      PROVE  UNCHANGED Gate!gateVars
  BY <1>1, <1>7 DEF AuthenticateNoToken, AuthenticateBad, Ping
<1>8. ASSUME NEW id \in ConnId, NEW matches \in BOOLEAN, AuthenticateGranted(id, matches)
      PROVE  Gate!Next
  <2>1. conns[id] # NoEntry
    BY <1>8 DEF AuthenticateGranted, Receive, RegistryMatchesSessions, Live, Parked
  <2>2. conns' = [conns EXCEPT ![id] = EntryOf("Authorized", Some(ceiling), "Token")]
    BY <1>8, <2>1 DEF AuthenticateGranted
  <2>3. Authority' = [Authority EXCEPT ![id] = Some(ceiling)]
    <3>1. conns'[id].state = "Authorized" /\ conns'[id].access = Some(ceiling)
      BY <2>2, AccessOfEntries
    <3>2. \A i \in ConnId \ {id} : conns'[i] = conns[i]
      BY <2>2
    <3>3. authorized_access(id)' = Some(ceiling)
      BY <3>1 DEF authorized_access
    <3>4. \A i \in ConnId \ {id} : authorized_access(i)' = authorized_access(i)
      BY <3>2 DEF authorized_access
    <3> QED
      BY <3>3, <3>4 DEF Authority
  <2>4. Gate!SpendToken(id)
    BY <1>8, <2>3 DEF AuthenticateGranted, ConsumeToken, Gate!SpendToken, Authority,
                      Gate!Some, Some
  <2> QED
    BY <2>4 DEF Gate!Next
<1>9. ASSUME NEW id \in ConnId, NEW requested \in AccessLevel, RequestAuth(id, requested)
      PROVE  Gate!Next
  BY <1>9, EntryChangeIsDecision DEF RequestAuth
<1>10. ASSUME NEW id \in ConnId, NEW method \in Methods, NEW path \in Paths,
              Execute(id, method, path)
       PROVE  [Gate!Next]_(Gate!gateVars)
  <2> DEFINE required == required_access_for(method, path)
  <2>1. CASE ValidMethod(method) /\ Permitted(id, required)
    <3>1. job[id] = {}
      BY <1>10 DEF Execute, Receive, JobsExecuting, None
    <3>2. \E l \in Authority[id] : Gate!permits(l, required)
      BY <2>1 DEF Permitted, permits, Gate!permits, Authority
    <3>3. job' = [job EXCEPT ![id] = {required}] /\ UNCHANGED <<ceiling, token, Authority>>
      BY <1>10, <2>1 DEF Execute, Some, Authority, authorized_access
    <3>4. Gate!Admit(id, required)
      BY <3>1, <3>2, <3>3 DEF Gate!Admit, Gate!None, Gate!Some, Authority
    <3>5. required \in Gate!AccessLevel
      BY ClassificationType DEF AccessLevel, Market, View, Trading, Gate!AccessLevel,
                                Gate!Market, Gate!View, Gate!Trading
    <3> QED
      BY <3>4, <3>5 DEF Gate!Next
  <2>2. CASE ~(ValidMethod(method) /\ Permitted(id, required))
    BY <1>1, <1>10, <2>2 DEF Execute
  <2> QED
    BY <2>1, <2>2
<1>11. ASSUME NEW id \in ConnId,
              job[id] # {}, job' = [job EXCEPT ![id] = {}],
              UNCHANGED <<ceiling, token, conns>>
       PROVE  Gate!Next
  <2>1. UNCHANGED Authority
    BY <1>11 DEF Authority, authorized_access
  <2>2. Gate!Release(id)
    BY <1>11, <2>1 DEF Gate!Release, Gate!None, Authority
  <2> QED
    BY <2>2 DEF Gate!Next
<1>12. ASSUME NEW id \in ConnId, NEW deliverable \in BOOLEAN, ExecutorReturns(id, deliverable)
       PROVE  Gate!Next
  BY <1>11, <1>12 DEF ExecutorReturns, JobsExecuting, None
<1>13. ASSUME NEW id \in ConnId, Abort(id)
       PROVE  [Gate!Next]_(Gate!gateVars)
  <2>1. CASE job[id] = {}
    <3>1. job' = job
      BY <1>13, <2>1 DEF Abort, None
    <3> QED
      BY <1>1, <1>13, <3>1 DEF Abort
  <2>2. CASE job[id] # {}
    BY <1>11, <1>13, <2>2 DEF Abort, None
  <2> QED
    BY <2>1, <2>2
<1> QED
  <2> HIDE DEF IInv, TypeOK, registry, server, session, vars
  <2> QED
    BY <1>2, <1>3, <1>4, <1>5, <1>6, <1>7, <1>8, <1>9, <1>10, <1>12, <1>13,
       OptionNonEmpty, StepCases

(* An agent starts where a gate may start: nobody has any authority. *)
LEMMA GateInit == Init => Gate!Init
<1> SUFFICES ASSUME Init PROVE Gate!Init
  OBVIOUS
<1>1. ceiling \in Gate!AccessLevel
  BY BoundsAssumption DEF Init, AccessLevel, Market, View, Trading, Gate!AccessLevel,
                          Gate!Market, Gate!View, Gate!Trading
<1>2. Authority = [id \in ConnId |-> {}]
  BY AccessOfEntries DEF Init, Authority, authorized_access, None
<1> QED
  BY <1>1, <1>2 DEF Init, Gate!Init, Gate!None, Authority, None

(* The agent implements the gate it promises to be, for every value of the *)
(* constants: whatever the interleaving of clients, operator and shutdown, *)
(* a request goes upstream only under its connection's authority.          *)
THEOREM AgentImplementsGate == Spec => ImplementsGate
<1>1. IInv /\ IInv' /\ [Next]_vars => [Gate!Next]_(Gate!gateVars)
  BY GateStep
<1> QED
  BY <1>1, GateInit, Invariance, PTL DEF Spec, ImplementsGate, Gate!Spec
=============================================================================
