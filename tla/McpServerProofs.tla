-------------------------- MODULE McpServerProofs --------------------------
(* Theorems about McpServer, for every value of its constants. *)
EXTENDS McpServer, FiniteSetTheorems, SequenceTheorems, TLAPS

-----------------------------------------------------------------------------
(* The shape of a step.                                                    *)

(* The line at the head is done with, answered or not.                     *)
Done(newSession, newPending) == pc' = "Ready" /\ Finish(newSession, newPending)

(* The reply to the line at the head goes out.                             *)
Sent ==
  owed' = [i \in Ids |-> IF i \in Head(stdin).id THEN owed[i] - 1 ELSE owed[i]]

(* What one step can be, and nothing else: a line is dropped or answered,  *)
(* with one of four outcomes for the connections; the server exits; a call *)
(* on the agent begins; or somebody else acts.                             *)
LEMMA StepCases ==
  ASSUME [Next]_vars
  PROVE  \/ ClientWrites \/ ClientLeaves
         \/ Skip
         \/ stdin # <<>> /\ pc = "Ready" /\ Sent /\ Done(session, pending)
         \/ pc \in Awaits /\ Sent /\ Done(session, pending) /\ answer # "None"
         \/ pc = "Authenticate" /\ Sent /\ Done(session, pending)
         \/ /\ pc \in {"Authenticate", "RequestAuth"} /\ answer = "Authenticated"
            /\ Sent /\ Done(executor, None)
         \/ /\ pc = "RequestAuth" /\ (answer = "AuthDenied" \/ Lost)
            /\ Sent /\ Done(session, None)
         \/ pc = "Execute" /\ Lost /\ Sent /\ Done(None, pending)
         \/ pc # "Exited" /\ Exit
         \/ RunCommand \/ AuthenticateWithToken \/ PollPending \/ AskOperator
         \/ AgentAnswers \/ AgentStops \/ AgentStarts
         \/ \E c \in Conns : OperatorGrants(c) \/ OperatorDenies(c)
         \/ UNCHANGED vars
<1> USE DEF Done, Sent, Reply, Reads, Request
<1>1. CASE HandleLine
  BY <1>1 DEF HandleLine, Authenticate, StopReading, NotARequest, AnswerStateless,
       NotAuthenticated, CannotConnect
<1>2. CASE Receive
  BY <1>2 DEF Receive, Authenticated, GrantedAnswer, NoLongerPending, TokenRefused,
       AwaitingApproval, ApprovalFails, StopAsking, CommandAnswered, SessionLost,
       DropSession, Awaits
<1> QED
  BY <1>1, <1>2 DEF Next

-----------------------------------------------------------------------------
(* The lines on stdin.                                                     *)

(* The type invariant's set of line sequences, by length.                  *)
LEMMA StdinType ==
  ASSUME NEW s
  PROVE  s \in UNION {[1..n -> Lines] : n \in 0..MaxUnread}
           <=> s \in Seq(Lines) /\ Len(s) <= MaxUnread
<1>1. ASSUME s \in UNION {[1..n -> Lines] : n \in 0..MaxUnread}
      PROVE  s \in Seq(Lines) /\ Len(s) <= MaxUnread
  <2>1. PICK n \in 0..MaxUnread : s \in [1..n -> Lines]
    BY <1>1
  <2>2. n \in Nat /\ s \in Seq(Lines)
    BY <2>1, McpAssumption, SeqDef
  <2>3. Len(s) = n
    BY <2>1, <2>2, LenProperties
  <2> QED
    BY <2>1, <2>2, <2>3
<1>2. ASSUME s \in Seq(Lines), Len(s) <= MaxUnread
      PROVE  s \in UNION {[1..n -> Lines] : n \in 0..MaxUnread}
  <2>1. Len(s) \in 0..MaxUnread /\ s \in [1..Len(s) -> Lines]
    BY <1>2, LenProperties, McpAssumption
  <2> QED
    BY <2>1
<1> QED
  BY <1>1, <1>2

(* The positions of the requests that client id i is waiting for.          *)
Asking(s, i) == {n \in DOMAIN s : i \in s[n].id}

(* They are finitely many.                                                 *)
LEMMA AskingFinite ==
  ASSUME NEW s \in Seq(Lines), NEW i
  PROVE  IsFiniteSet(Asking(s, i)) /\ Cardinality(Asking(s, i)) \in Nat
<1>1. Len(s) \in Int /\ DOMAIN s = 1..Len(s)
  BY LenProperties
<1>2. IsFiniteSet(1..Len(s))
  BY <1>1, FS_Interval
<1>3. Asking(s, i) \in SUBSET (1..Len(s))
  BY <1>1 DEF Asking
<1> QED
  BY <1>2, <1>3, FS_Subset, FS_CardinalityType

(* A line written is one position more if it has that id.                  *)
LEMMA AskingAppend ==
  ASSUME NEW s \in Seq(Lines), NEW line \in Lines, NEW i
  PROVE  Cardinality(Asking(Append(s, line), i)) =
           Cardinality(Asking(s, i)) + (IF i \in line.id THEN 1 ELSE 0)
<1> DEFINE t == Append(s, line)
           n == Len(s) + 1
<1>1. /\ DOMAIN s = 1..Len(s) /\ DOMAIN t = 1..n /\ Len(s) \in Nat
      /\ \A k \in 1..Len(s) : t[k] = s[k]
      /\ t[n] = line
  BY AppendProperties, LenProperties
<1> HIDE DEF t
<1>2. Asking(t, i) = Asking(s, i) \union (IF i \in line.id THEN {n} ELSE {})
  BY <1>1 DEF Asking
<1>3. n \notin Asking(s, i)
  BY <1>1 DEF Asking
<1>4. IsFiniteSet(Asking(s, i)) /\ Cardinality(Asking(s, i)) \in Nat
  BY AskingFinite
<1>5. CASE i \in line.id
  <2>1. Asking(t, i) = Asking(s, i) \union {n}
    BY <1>2, <1>5
  <2> QED
    BY <1>3, <1>4, <1>5, <2>1, FS_AddElement DEF t
<1>6. CASE i \notin line.id
  BY <1>2, <1>4, <1>6 DEF t
<1> QED
  BY <1>5, <1>6

(* A line taken off is one position less if it had that id.                *)
LEMMA AskingTail ==
  ASSUME NEW s \in Seq(Lines), s # <<>>, NEW i
  PROVE  Cardinality(Asking(Tail(s), i)) =
           Cardinality(Asking(s, i)) - (IF i \in Head(s).id THEN 1 ELSE 0)
<1> DEFINE t == Tail(s)
           Rest == Asking(s, i) \ {1}
           f == [n \in Rest |-> n - 1]
<1>1. /\ DOMAIN s = 1..Len(s) /\ Len(s) \in Nat \ {0} /\ DOMAIN t = 1..(Len(s) - 1)
      /\ \A k \in 1..(Len(s) - 1) : t[k] = s[k + 1]
      /\ Head(s) = s[1]
  BY HeadTailProperties, LenProperties, EmptySeq
<1> HIDE DEF t
<1>2. \A n : n \in Rest <=> n \in 2..Len(s) /\ i \in s[n].id
  BY <1>1 DEF Asking
<1>3. \A n : n \in Asking(t, i) <=> n \in 1..(Len(s) - 1) /\ i \in s[n + 1].id
  BY <1>1 DEF Asking
<1>4. f \in Bijection(Rest, Asking(t, i))
  <2>1. f \in [Rest -> Asking(t, i)]
    <3> SUFFICES ASSUME NEW n \in Rest PROVE n - 1 \in Asking(t, i)
      OBVIOUS
    <3>1. n \in 2..Len(s) /\ i \in s[n].id /\ n - 1 + 1 = n /\ n - 1 \in 1..(Len(s) - 1)
      BY <1>1, <1>2
    <3> QED
      BY <1>3, <3>1
  <2>2. \A a, b \in Rest : f[a] = f[b] => a = b
    <3> SUFFICES ASSUME NEW a \in Rest, NEW b \in Rest, a - 1 = b - 1 PROVE a = b
      OBVIOUS
    <3>1. a \in Int /\ b \in Int
      BY <1>1, <1>2
    <3> QED
      BY <3>1
  <2>f. \A n \in Rest : f[n] = n - 1
    OBVIOUS
  <2> HIDE DEF f, Rest
  <2>3. \A m \in Asking(t, i) : \E n \in Rest : f[n] = m
    <3> SUFFICES ASSUME NEW m \in Asking(t, i) PROVE \E n \in Rest : f[n] = m
      OBVIOUS
    <3>1. m \in 1..(Len(s) - 1) /\ i \in s[m + 1].id
      BY <1>3
    <3>2. PICK n : n = m + 1
      OBVIOUS
    <3>3. n \in Rest /\ n - 1 = m
      BY <1>1, <1>2, <3>1, <3>2
    <3> QED
      BY <2>f, <3>3
  <2> QED
    BY <2>1, <2>2, <2>3 DEF Bijection, Injection, Surjection, IsInjective
<1>5. IsFiniteSet(Asking(s, i)) /\ Cardinality(Asking(s, i)) \in Nat
  BY AskingFinite
<1>6. /\ IsFiniteSet(Rest)
      /\ Cardinality(Rest) = Cardinality(Asking(s, i)) - (IF i \in Head(s).id THEN 1 ELSE 0)
  <2>1. 1 \in Asking(s, i) <=> i \in Head(s).id
    BY <1>1 DEF Asking
  <2> QED
    BY <1>5, <2>1, FS_RemoveElement
<1>7. Cardinality(Asking(t, i)) = Cardinality(Rest)
  BY <1>4, <1>6, FS_Bijection DEF ExistsBijection
<1> QED
  BY <1>6, <1>7 DEF t

-----------------------------------------------------------------------------
(* What the invariants rest on besides: who is asked about what, and that  *)
(* a connection the agent has is one the server holds.                     *)
Held ==
  /\ executor # None => stdin # <<>>
  /\ session \intersect pending = {}
  /\ pc = "Authenticate" => executor \intersect (session \union pending) = {}
  /\ answer = "Authenticated" => \A c \in executor : far[c] \in {"Authorized", "Denied", "Closed"}
  /\ answer = "AuthDenied" => \A c \in executor : far[c] \in {"Authorized", "Denied", "Closed"}
  /\ \A c \in Conns : far[c] = "Pending" => c \in pending

IInv == TypeOK /\ Held /\ SessionWasAuthorized /\ EachRequestAnsweredOnce

(* There is a name for a new connection.                                   *)
LEMMA FreeNameType ==
  ASSUME TypeOK
  PROVE  FreeName \in Conns /\ FreeName \notin session \union pending
<1>1. \E c, d \in Conns : session \union pending \subseteq {c, d}
  BY McpAssumption DEF TypeOK, None, Some
<1>2. \E e \in Conns : e \notin session \union pending
  BY <1>1, McpAssumption
<1> QED
  BY <1>2 DEF FreeName

(* Done is typed, and forgets the call.                                    *)
LEMMA DoneType ==
  ASSUME TypeOK, stdin # <<>>, owed' \in [Ids -> Int],
         NEW newSession \in {None} \union {Some(c) : c \in Conns},
         NEW newPending \in {None} \union {Some(c) : c \in Conns},
         Done(newSession, newPending)
  PROVE  TypeOK'
<1>1. stdin \in Seq(Lines) /\ Len(stdin) <= MaxUnread
  BY StdinType DEF TypeOK
<1>2. Tail(stdin) \in Seq(Lines) /\ Len(Tail(stdin)) <= MaxUnread
  BY <1>1, HeadTailProperties, LenProperties, McpAssumption
<1>3. stdin' \in UNION {[1..n -> Lines] : n \in 0..MaxUnread}
  BY <1>2, StdinType DEF Done, Finish
<1>4. far' \in [Conns -> Listed \union {"Closed"}]
  BY DEF TypeOK, Done, Finish, Closing
<1> QED
  BY <1>3, <1>4 DEF TypeOK, Done, Finish, Awaits

(* A reply is counted in whole numbers.                                    *)
LEMMA SentType ==
  ASSUME TypeOK, Sent
  PROVE  owed' \in [Ids -> Int]
BY DEF TypeOK, Sent

(***************************************************************************)
(* Every variable keeps its type, and what is awaited is on the connection *)
(* it is awaited on.                                                       *)
(***************************************************************************)
LEMMA TypeStep ==
  ASSUME TypeOK, Held, [Next]_vars
  PROVE  TypeOK'
<1> USE DEF server, client, vars
<1>s. stdin \in Seq(Lines) /\ Len(stdin) <= MaxUnread
  BY StdinType DEF TypeOK
<1>e. \A c \in Conns : Some(c) # None
  BY DEF Some, None
<1>o. None \in {None} \union {Some(c) : c \in Conns}
  OBVIOUS
<1>1. CASE ClientWrites
  <2>1. PICK line \in Lines : /\ stdin' = Append(stdin, line)
                              /\ owed' = [i \in Ids |-> IF i \in line.id THEN owed[i] + 1 ELSE owed[i]]
    BY <1>1 DEF ClientWrites
  <2>2. Len(stdin) < MaxUnread
    BY <1>1 DEF ClientWrites
  <2>3. stdin' \in Seq(Lines) /\ Len(stdin') <= MaxUnread
    BY <1>s, <2>1, <2>2, AppendProperties, LenProperties, McpAssumption
  <2>4. stdin' \in UNION {[1..n -> Lines] : n \in 0..MaxUnread}
    BY <2>3, StdinType
  <2>5. executor # None => Head(stdin') = Head(stdin)
    BY <1>s, <2>1, HeadTailAppend DEF Held
  <2>6. owed' \in [Ids -> Int]
    BY <2>1 DEF TypeOK
  <2>7. UNCHANGED <<stays, session, pending, executor, guard, pc, up, token, far, answer>>
    BY <1>1 DEF ClientWrites
  <2>8. executor' # None => Head(stdin').id # None
    BY <2>5, <2>7 DEF TypeOK
  <2> QED
    BY <2>4, <2>6, <2>7, <2>8 DEF TypeOK
<1>2. CASE ClientLeaves
  BY <1>2, ZenonT(60) DEF ClientLeaves, TypeOK
<1>3. CASE Skip
  <2>1. stdin # <<>> /\ owed' \in [Ids -> Int] /\ Done(session, pending)
    BY <1>3 DEF Skip, Reads, Done, TypeOK
  <2> QED
    BY <2>1, DoneType DEF TypeOK
<1>4. ASSUME stdin # <<>>, Sent, Done(session, pending)
      PROVE  TypeOK'
  BY <1>4, SentType, DoneType DEF TypeOK
<1>5. ASSUME pc \in Awaits, Sent,
             NEW newSession \in {session, executor, None}, NEW newPending \in {pending, None},
             Done(newSession, newPending)
      PROVE  TypeOK'
  <2>1. stdin # <<>>
    BY <1>5 DEF TypeOK, Held, Awaits
  <2>2. /\ newSession \in {None} \union {Some(c) : c \in Conns}
        /\ newPending \in {None} \union {Some(c) : c \in Conns}
    BY <1>5 DEF TypeOK
  <2> QED
    BY <1>5, <2>1, <2>2, SentType, DoneType
<1>6. CASE Exit
  BY <1>6 DEF Exit, TypeOK, Closing
<1>7. CASE RunCommand
  <2>1. PICK c \in session : Await("Execute", c, far)
    BY <1>7 DEF RunCommand
  <2>2. c \in Conns /\ Some(c) = session
    BY DEF TypeOK, Some, None
  <2> QED
    BY <1>7, <1>e, <2>1, <2>2 DEF RunCommand, Await, TypeOK, Awaits, Request, Notification
<1>8. CASE AuthenticateWithToken
  <2>1. PICK accepted \in BOOLEAN : Await("Authenticate", FreeName, Connected(accepted))
    BY <1>8 DEF AuthenticateWithToken
  <2>2. FreeName \in Conns
    BY FreeNameType
  <2>3. Connected(accepted) \in [Conns -> Listed \union {"Closed"}]
    BY <2>2 DEF Connected, TypeOK, Listed
  <2> QED
    BY <1>8, <1>e, <2>1, <2>2, <2>3
       DEF AuthenticateWithToken, Await, TypeOK, Awaits, Request, Notification
<1>9. CASE PollPending
  <2>1. PICK c \in pending : Await("RequestAuth", c, far)
    BY <1>9 DEF PollPending
  <2>2. c \in Conns /\ Some(c) = pending
    BY DEF TypeOK, Some, None
  <2> QED
    BY <1>9, <1>e, <2>1, <2>2
       DEF PollPending, Await, TypeOK, Awaits, GuardDropped, Request, Notification
<1>10. CASE AskOperator
  <2>1. PICK accepted \in BOOLEAN : Await("RequestAuth", FreeName, Connected(accepted))
    BY <1>10 DEF AskOperator
  <2>2. FreeName \in Conns
    BY FreeNameType
  <2>3. Connected(accepted) \in [Conns -> Listed \union {"Closed"}]
    BY <2>2 DEF Connected, TypeOK, Listed
  <2> QED
    BY <1>10, <1>e, <2>1, <2>2, <2>3
       DEF AskOperator, KeptForPolls, Await, TypeOK, Awaits, GuardDropped, Request, Notification
<1>11. CASE AgentAnswers
  <2>1. PICK c \in executor : far' \in {far, [far EXCEPT ![c] = "Authorized"],
                                       [far EXCEPT ![c] = IF @ = "Connected" THEN "Pending" ELSE @]}
    BY <1>11 DEF AgentAnswers
  <2>2. c \in Conns
    BY DEF TypeOK, Some, None
  <2>3. far' \in [Conns -> Listed \union {"Closed"}]
    BY <2>1, <2>2 DEF TypeOK, Listed
  <2>4. token' \in {token, "Consumed"} /\ answer' \in Answers /\ executor # None
    BY <1>11 DEF AgentAnswers, Answers, None
  <2>5. UNCHANGED <<stdin, stays, owed, session, pending, executor, guard, pc, up>>
    BY <1>11 DEF AgentAnswers
  <2>6. token' \in {"None", "Fresh", "Consumed"} /\ answer' \in {"None"} \union Answers
    BY <2>4 DEF TypeOK
  <2> QED
    BY <2>3, <2>4, <2>5, <2>6 DEF TypeOK
<1>12. CASE AgentStops
  BY <1>12, ZenonT(60) DEF AgentStops, TypeOK
<1>13. CASE AgentStarts
  BY <1>13 DEF AgentStarts, TypeOK
<1>14. ASSUME NEW c \in Conns, OperatorGrants(c) \/ OperatorDenies(c)
       PROVE  TypeOK'
  BY <1>14 DEF OperatorGrants, OperatorDenies, TypeOK, Listed
<1>15. CASE UNCHANGED vars
  BY <1>15 DEF TypeOK
<1>16. None \in {pending, None} /\ executor \in {session, executor, None} /\ pending \in {pending, None}
       /\ session \in {session, executor, None} /\ None \in {session, executor, None}
  OBVIOUS
<1>17. {"Authenticate", "RequestAuth", "Execute"} = Awaits
  BY DEF Awaits
<1> HIDE DEF server, client, vars
<1> QED
  BY <1>1, <1>2, <1>3, <1>4, <1>5, <1>6, <1>7, <1>8, <1>9, <1>10, <1>11, <1>12,
     <1>13, <1>14, <1>15, <1>16, <1>17, StepCases

(***************************************************************************)
(* The facts the invariants rest on.                                       *)
(***************************************************************************)
LEMMA HeldStep ==
  ASSUME TypeOK, Held, SessionWasAuthorized, [Next]_vars
  PROVE  Held'
<1> USE DEF server, client, vars
<1>s. stdin \in Seq(Lines)
  BY StdinType DEF TypeOK
<1>1. CASE ClientWrites
  <2>1. PICK line \in Lines : stdin' = Append(stdin, line)
    BY <1>1 DEF ClientWrites
  <2>2. stdin' # <<>>
    BY <1>s, <2>1, AppendProperties
  <2> QED
    BY <1>1, <2>2 DEF ClientWrites, Held
<1>2. CASE ClientLeaves
  BY <1>2 DEF ClientLeaves, Held
<1>3. ASSUME NEW newSession, NEW newPending, Done(newSession, newPending),
             newSession \intersect newPending = {},
             \A c \in newPending : c \in pending,
             \A c \in Conns : far[c] = "Pending" /\ c \in newSession \union newPending => c \in newPending
      PROVE  Held'
  <2>1. \A c \in Conns : far'[c] = "Pending" => c \in newPending
    BY <1>3 DEF Done, Finish, Closing, TypeOK
  <2> QED
    BY <1>3, <2>1 DEF Held, Done, Finish, None
<1>4. CASE Skip
  BY <1>4, <1>3 DEF Skip, Reads, Done, Held
<1>5. ASSUME Done(session, pending) PROVE Held'
  BY <1>5, <1>3 DEF Held
<1>6. ASSUME pc \in {"Authenticate", "RequestAuth"}, answer = "Authenticated", Done(executor, None)
      PROVE  Held'
  <2>1. \A c \in executor : far[c] # "Pending"
    BY <1>6 DEF Held
  <2> QED
    BY <1>6, <1>3, <2>1 DEF None
<1>7. ASSUME Done(session, None) PROVE Held'
  BY <1>7, <1>3 DEF None, SessionWasAuthorized
<1>8. ASSUME Done(None, pending) PROVE Held'
  BY <1>8, <1>3 DEF None
<1>9. CASE Exit
  BY <1>9 DEF Exit, Held, None, Closing, TypeOK
<1>10. CASE RunCommand
  BY <1>10 DEF RunCommand, Request, Reads, Await, Held, TypeOK
<1>11. CASE AuthenticateWithToken
  <2>1. FreeName \in Conns /\ FreeName \notin session \union pending
    BY FreeNameType
  <2>2. PICK accepted \in BOOLEAN : Await("Authenticate", FreeName, Connected(accepted))
    BY <1>11 DEF AuthenticateWithToken
  <2>3. \A c \in Conns : far'[c] = "Pending" => far[c] = "Pending"
    BY <2>1, <2>2 DEF Await, Connected, TypeOK
  <2>4. answer' = "None" /\ executor' \intersect (session' \union pending') = {} /\ stdin' # <<>>
    BY <1>11, <2>1, <2>2
       DEF AuthenticateWithToken, Request, Reads, Await, TypeOK, Some
  <2> QED
    BY <1>11, <2>2, <2>3, <2>4 DEF AuthenticateWithToken, Await, Held
<1>12. CASE PollPending
  BY <1>12 DEF PollPending, Request, Reads, Await, Held, TypeOK
<1>13. CASE AskOperator
  <2>1. FreeName \in Conns /\ FreeName \notin session \union pending
    BY FreeNameType
  <2>2. PICK accepted \in BOOLEAN : Await("RequestAuth", FreeName, Connected(accepted))
    BY <1>13 DEF AskOperator
  <2>3. \A c \in Conns : far'[c] # "Pending"
    BY <1>13, <2>1, <2>2 DEF AskOperator, Await, Connected, TypeOK, Held, None
  <2>4. answer' = "None" /\ session' \intersect pending' = {} /\ stdin' # <<>>
    BY <1>13, <2>1, <2>2
       DEF AskOperator, KeptForPolls, Request, Reads, Await, TypeOK, Some
  <2> QED
    BY <1>13, <2>2, <2>3, <2>4 DEF AskOperator, Await, Held
<1>14. CASE AgentAnswers
  <2>1. PICK c \in executor :
          \/ pc = "Authenticate" /\ answer' = "Authenticated" /\ far' = [far EXCEPT ![c] = "Authorized"]
          \/ pc = "Authenticate" /\ answer' = "Failed" /\ far' = far
          \/ /\ pc = "RequestAuth"
             /\ answer' = CASE far[c] = "Authorized" -> "Authenticated"
                            [] far[c] = "Denied" -> "AuthDenied"
                            [] OTHER -> "AuthPending"
             /\ far' = [far EXCEPT ![c] = IF @ = "Connected" THEN "Pending" ELSE @]
          \/ pc = "Execute" /\ answer' \in {"Failed", "Executed"} /\ far' = far
    BY <1>14 DEF AgentAnswers
  <2>2. c \in Conns /\ executor = {c}
    BY DEF TypeOK, Some, None
  <2>3. pc = "RequestAuth" => c \in pending
    BY <2>2 DEF TypeOK
  <2>4. UNCHANGED <<server, client, up>>
    BY <1>14 DEF AgentAnswers
  <2>5. \A d \in Conns : far'[d] = "Pending" => d \in pending
    BY <2>1, <2>2, <2>3 DEF TypeOK, Held
  <2>6. answer' \in {"Authenticated", "AuthDenied"} => far'[c] \in {"Authorized", "Denied"}
    BY <2>1, <2>2 DEF TypeOK
  <2> QED
    BY <2>2, <2>4, <2>5, <2>6 DEF Held
<1>15. CASE AgentStops
  BY <1>15 DEF AgentStops, Held, TypeOK, Some
<1>16. CASE AgentStarts
  BY <1>16 DEF AgentStarts, Held
<1>17. ASSUME NEW c \in Conns, OperatorGrants(c) \/ OperatorDenies(c)
       PROVE  Held'
  BY <1>17 DEF OperatorGrants, OperatorDenies, Held, TypeOK, Some
<1>18. CASE UNCHANGED vars
  BY <1>18 DEF Held
<1> HIDE DEF server, client, vars
<1> QED
  BY <1>1, <1>2, <1>4, <1>5, <1>6, <1>7, <1>8, <1>9, <1>10, <1>11, <1>12, <1>13,
     <1>14, <1>15, <1>16, <1>17, <1>18, StepCases

(***************************************************************************)
(* The session stays one the agent authorized: it is only ever made of a   *)
(* connection whose answer said so, and nothing but the operator and the   *)
(* end of the agent changes its state from there.                          *)
(***************************************************************************)
LEMMA SessionStep ==
  ASSUME TypeOK, Held, SessionWasAuthorized, [Next]_vars
  PROVE  SessionWasAuthorized'
<1> USE DEF server, client, vars
<1>t. \A c \in session \union executor : c \in Conns
  BY DEF TypeOK, Some, None
<1>1. CASE ClientWrites \/ ClientLeaves \/ AgentStarts \/ UNCHANGED vars
  BY <1>1 DEF ClientWrites, ClientLeaves, AgentStarts, SessionWasAuthorized
<1>2. ASSUME NEW newSession, NEW newPending, Done(newSession, newPending),
             \A c \in newSession : c \in Conns /\ far[c] \in {"Authorized", "Denied", "Closed"}
      PROVE  SessionWasAuthorized'
  BY <1>2 DEF Done, Finish, Closing, SessionWasAuthorized
<1>3. CASE Skip
  BY <1>3, <1>2, <1>t DEF Skip, Reads, Done, SessionWasAuthorized
<1>4. ASSUME NEW newPending, Done(session, newPending) \/ Done(None, newPending)
      PROVE  SessionWasAuthorized'
  BY <1>4, <1>2, <1>t DEF SessionWasAuthorized, None
<1>5. ASSUME answer = "Authenticated", Done(executor, None)
      PROVE  SessionWasAuthorized'
  BY <1>5, <1>2, <1>t DEF Held
<1>6. CASE Exit
  BY <1>6 DEF Exit, SessionWasAuthorized, None
<1>7. CASE RunCommand \/ PollPending
  BY <1>7 DEF RunCommand, PollPending, Await, SessionWasAuthorized
<1>8. CASE AuthenticateWithToken \/ AskOperator
  <2>1. FreeName \in Conns /\ FreeName \notin session
    BY FreeNameType
  <2>2. \E accepted \in BOOLEAN : far' = Connected(accepted) /\ session' = session
    BY <1>8 DEF AuthenticateWithToken, AskOperator, Await
  <2> QED
    BY <1>t, <2>1, <2>2 DEF Connected, SessionWasAuthorized, TypeOK
<1>9. CASE AgentAnswers
  <2>1. PICK c \in executor : far' \in {far, [far EXCEPT ![c] = "Authorized"],
                                       [far EXCEPT ![c] = IF @ = "Connected" THEN "Pending" ELSE @]}
    BY <1>9 DEF AgentAnswers
  <2>2. session' = session
    BY <1>9 DEF AgentAnswers
  <2> QED
    BY <1>t, <2>1, <2>2 DEF SessionWasAuthorized, TypeOK
<1>10. CASE AgentStops
  BY <1>10, <1>t DEF AgentStops, SessionWasAuthorized
<1>11. ASSUME NEW c \in Conns, OperatorGrants(c) \/ OperatorDenies(c)
       PROVE  SessionWasAuthorized'
  BY <1>11, <1>t DEF OperatorGrants, OperatorDenies, SessionWasAuthorized, TypeOK
<1> HIDE DEF server, client, vars
<1> QED
  BY <1>1, <1>3, <1>4, <1>5, <1>6, <1>7, <1>8, <1>9, <1>10, <1>11, StepCases

(***************************************************************************)
(* What the client is owed stays what is on stdin.                         *)
(***************************************************************************)
LEMMA OwedStep ==
  ASSUME TypeOK, Held, EachRequestAnsweredOnce, [Next]_vars
  PROVE  EachRequestAnsweredOnce'
<1> USE DEF server, client, vars
<1> SUFFICES ASSUME pc' # "Exited", NEW i \in Ids
             PROVE  owed'[i] = Cardinality(Asking(stdin', i))
  BY DEF EachRequestAnsweredOnce, Asking
<1>s. stdin \in Seq(Lines) /\ owed \in [Ids -> Int]
  BY StdinType DEF TypeOK
<1>o. pc # "Exited" => owed[i] = Cardinality(Asking(stdin, i))
  BY DEF EachRequestAnsweredOnce, Asking
<1>n. Cardinality(Asking(stdin, i)) \in Nat
  BY <1>s, AskingFinite
<1>1. CASE ClientWrites
  <2>1. PICK line \in Lines : /\ stdin' = Append(stdin, line)
                              /\ owed' = [j \in Ids |-> IF j \in line.id THEN owed[j] + 1 ELSE owed[j]]
    BY <1>1 DEF ClientWrites
  <2>2. Cardinality(Asking(stdin', i)) =
          Cardinality(Asking(stdin, i)) + (IF i \in line.id THEN 1 ELSE 0)
    BY <1>s, <2>1, AskingAppend
  <2>3. pc # "Exited"
    BY <1>1 DEF ClientWrites
  <2> QED
    BY <1>s, <1>o, <1>n, <2>1, <2>2, <2>3
<1>2. ASSUME pc # "Exited", stdin # <<>>, stdin' = Tail(stdin), Sent
      PROVE  owed'[i] = Cardinality(Asking(stdin', i))
  <2>1. Cardinality(Asking(stdin', i)) =
          Cardinality(Asking(stdin, i)) - (IF i \in Head(stdin).id THEN 1 ELSE 0)
    BY <1>s, <1>2, AskingTail
  <2> QED
    BY <1>s, <1>o, <1>n, <1>2, <2>1 DEF Sent
<1>3. CASE Skip
  <2>1. pc # "Exited" /\ stdin # <<>> /\ stdin' = Tail(stdin) /\ owed' = owed /\ Head(stdin).id = {}
    BY <1>3 DEF Skip, Reads, Notification, Finish, None
  <2>2. Cardinality(Asking(stdin', i)) = Cardinality(Asking(stdin, i)) - 0
    BY <1>s, <2>1, AskingTail
  <2> QED
    BY <1>o, <1>n, <2>1, <2>2
<1>4. ASSUME pc \in Awaits \/ (pc = "Ready" /\ stdin # <<>>), Sent,
             NEW newSession, NEW newPending, Done(newSession, newPending)
      PROVE  owed'[i] = Cardinality(Asking(stdin', i))
  <2>1. pc # "Exited" /\ stdin # <<>> /\ stdin' = Tail(stdin)
    BY <1>4 DEF Held, TypeOK, Awaits, Done, Finish
  <2> QED
    BY <1>2, <1>4, <2>1
<1>5. CASE Exit
  BY <1>5 DEF Exit
<1>6. ASSUME UNCHANGED <<stdin, owed>>, pc # "Exited"
      PROVE  owed'[i] = Cardinality(Asking(stdin', i))
  BY <1>o, <1>6
<1>7. CASE RunCommand \/ AuthenticateWithToken \/ PollPending \/ AskOperator
  BY <1>6, <1>7 DEF RunCommand, AuthenticateWithToken, PollPending, AskOperator, Await,
     Request, Reads
<1>8. CASE ClientLeaves \/ AgentAnswers \/ AgentStops \/ AgentStarts \/ UNCHANGED vars
  BY <1>6, <1>8 DEF ClientLeaves, AgentAnswers, AgentStops, AgentStarts
<1>9. ASSUME NEW c \in Conns, OperatorGrants(c) \/ OperatorDenies(c)
      PROVE  owed'[i] = Cardinality(Asking(stdin', i))
  BY <1>6, <1>9 DEF OperatorGrants, OperatorDenies
<1>10. {"Authenticate", "RequestAuth", "Execute"} = Awaits
  BY DEF Awaits
<1> HIDE DEF server, client, vars
<1> QED
  BY <1>1, <1>3, <1>4, <1>5, <1>7, <1>8, <1>9, <1>10, StepCases

-----------------------------------------------------------------------------
(* The invariant holds at the start and is kept.                           *)
LEMMA Invariance == Spec => []IInv
<1>1. Init => IInv
  <2> SUFFICES ASSUME Init PROVE IInv
    OBVIOUS
  <2> USE DEF Init, None
  <2>1. <<>> \in Seq(Lines) /\ Len(<<>>) <= MaxUnread
    BY McpAssumption, EmptySeq
  <2>2. stdin \in UNION {[1..n -> Lines] : n \in 0..MaxUnread}
    BY <2>1, StdinType
  <2>3. TypeOK
    BY <2>2 DEF TypeOK, Awaits
  <2>4. Held
    BY DEF Held
  <2>5. SessionWasAuthorized
    BY DEF SessionWasAuthorized
  <2>6. EachRequestAnsweredOnce
    <3>1. \A i \in Ids : {n \in DOMAIN stdin : i \in stdin[n].id} = {}
      OBVIOUS
    <3> QED
      BY <3>1, FS_EmptySet DEF EachRequestAnsweredOnce
  <2> QED
    BY <2>3, <2>4, <2>5, <2>6 DEF IInv
<1>2. IInv /\ [Next]_vars => IInv'
  BY TypeStep, HeldStep, SessionStep, OwedStep DEF IInv
<1> QED
  BY <1>1, <1>2, PTL DEF Spec

(* Every variable of the MCP server stays within its type, and a call that *)
(* is under way is on the connection it is about.                          *)
THEOREM TypeCorrect == Spec => []TypeOK
<1>1. IInv => TypeOK
  BY DEF IInv
<1> QED
  BY <1>1, Invariance, PTL

(* Commands only ever run on a connection that the agent authorized.       *)
THEOREM SessionAuthorized == Spec => []SessionWasAuthorized
<1>1. IInv => SessionWasAuthorized
  BY DEF IInv
<1> QED
  BY <1>1, Invariance, PTL

(* One reply to each request, however many lines were written ahead and    *)
(* whatever lines are between them.                                        *)
THEOREM OneReplyEach == Spec => []EachRequestAnsweredOnce
<1>1. IInv => EachRequestAnsweredOnce
  BY DEF IInv
<1> QED
  BY <1>1, Invariance, PTL

(* An entry waiting for the operator stays on the agent's console while    *)
(* its client asks about it again and does other things besides.           *)
THEOREM PendingEntryKept == Spec => AwaitedEntryKept
<1> DEFINE Kept == \A c \in Conns :
                     far[c] = "Pending" /\ far'[c] = "Closed"
                       => ~up' \/ pc' = "Exited" \/ session' \notin {None, session}
<1>1. ASSUME IInv, [Next]_vars PROVE Kept
  <2> SUFFICES ASSUME NEW c \in Conns, far[c] = "Pending", far'[c] = "Closed",
                      up', pc' # "Exited", session' \in {None, session}
               PROVE  FALSE
    OBVIOUS
  <2> USE DEF server, client, vars
  <2>c. c \in pending /\ c \notin session /\ TypeOK
    BY <1>1 DEF IInv, Held, SessionWasAuthorized
  <2>1. ASSUME NEW newSession, Done(newSession, pending) PROVE FALSE
    BY <2>1, <2>c DEF Done, Finish, Closing
  <2>2. CASE Skip
    BY <2>2, <2>1 DEF Skip, Reads, Done
  <2>3. ASSUME pc \in {"Authenticate", "RequestAuth"}, answer = "Authenticated", Done(executor, None)
        PROVE  FALSE
    <3>1. session' = executor /\ executor # None
      BY <2>3, <2>c DEF Done, Finish, TypeOK
    <3>2. executor \intersect session = {}
      BY <1>1, <2>3 DEF IInv, Held, TypeOK
    <3> QED
      BY <3>1, <3>2 DEF None
  <2>4. ASSUME pc = "RequestAuth", answer = "AuthDenied" \/ Lost PROVE FALSE
    <3>1. executor = pending /\ pending = {c}
      BY <2>4, <2>c DEF TypeOK, Some, None
    <3> QED
      BY <1>1, <2>4, <3>1 DEF IInv, Held, Lost
  <2>5. CASE ClientWrites \/ ClientLeaves \/ RunCommand \/ PollPending \/ AgentStarts \/ UNCHANGED vars
    BY <2>5, <2>c DEF ClientWrites, ClientLeaves, RunCommand, PollPending, AgentStarts, Await
  <2>6. CASE AuthenticateWithToken \/ AskOperator
    <3>1. FreeName \in Conns /\ FreeName # c
      BY <2>c, FreeNameType
    <3>2. \E accepted \in BOOLEAN : far' = Connected(accepted)
      BY <2>6 DEF AuthenticateWithToken, AskOperator, Await
    <3> QED
      BY <2>c, <3>1, <3>2 DEF Connected, TypeOK
  <2>7. CASE AgentAnswers
    <3>1. PICK d \in executor : far' \in {far, [far EXCEPT ![d] = "Authorized"],
                                         [far EXCEPT ![d] = IF @ = "Connected" THEN "Pending" ELSE @]}
      BY <2>7 DEF AgentAnswers
    <3>2. d \in Conns
      BY <2>c DEF TypeOK, Some, None
    <3> QED
      BY <2>c, <3>1, <3>2 DEF TypeOK
  <2>8. CASE AgentStops
    BY <2>8 DEF AgentStops
  <2>9. CASE Exit
    BY <2>9 DEF Exit
  <2>10. ASSUME NEW d \in Conns, OperatorGrants(d) \/ OperatorDenies(d) PROVE FALSE
    BY <2>10, <2>c DEF OperatorGrants, OperatorDenies, TypeOK
  <2> HIDE DEF server, client, vars
  <2> QED
    BY <2>1, <2>2, <2>3, <2>4, <2>5, <2>6, <2>7, <2>8, <2>9, <2>10, <1>1, StepCases
<1> QED
  BY <1>1, Invariance, PTL DEF Spec, AwaitedEntryKept

(* A connection to an agent that is gone is let go of by the call that     *)
(* meets it.                                                               *)
THEOREM DeadConnectionLetGo == Spec => DeadConnectionDropped
<1> DEFINE Dropped == pc \in {"Execute", "RequestAuth"} /\ Lost /\ pc' = "Ready" =>
                        \A c \in executor : c \notin session' \union pending'
<1>1. ASSUME IInv, [Next]_vars PROVE Dropped
  <2> SUFFICES ASSUME pc \in {"Execute", "RequestAuth"}, Lost, pc' = "Ready"
               PROVE  \A c \in executor : c \notin session' \union pending'
    OBVIOUS
  <2>1. answer = "None" /\ session \intersect pending = {}
    BY <1>1 DEF Lost, IInv, Held
  <2>2. /\ pc = "Execute" => executor = session
        /\ pc = "RequestAuth" => executor = pending
    BY <1>1 DEF IInv, TypeOK
  <2>3. CASE \/ pc = "RequestAuth" /\ Done(session, None)
             \/ pc = "Execute" /\ Done(None, pending)
    BY <2>1, <2>2, <2>3 DEF Done, Finish, None
  <2>4. CASE \/ ClientWrites \/ ClientLeaves \/ Skip \/ Exit
             \/ RunCommand \/ AuthenticateWithToken \/ PollPending \/ AskOperator
             \/ AgentAnswers \/ AgentStops \/ AgentStarts
             \/ (\E c \in Conns : OperatorGrants(c) \/ OperatorDenies(c))
             \/ UNCHANGED vars
    BY <2>4 DEF ClientWrites, ClientLeaves, Skip, Exit, RunCommand, AuthenticateWithToken,
       PollPending, AskOperator, AgentAnswers, AgentStops, AgentStarts, OperatorGrants,
       OperatorDenies, Reads, Request, server, vars
  <2> QED
    BY <1>1, <2>1, <2>3, <2>4, StepCases
<1> QED
  BY <1>1, Invariance, PTL DEF Spec, DeadConnectionDropped
=============================================================================
