------------------------- MODULE CommandPathProofs -------------------------
(***************************************************************************)
(* Proofs about CommandPath, for every installation and input, however     *)
(* often the user asks.                                                    *)
(***************************************************************************)
EXTENDS CommandPath, RequestProofs

USE DEF None, Some

-----------------------------------------------------------------------------
(* The invariant.                                                          *)

WordCommands == UNION {{a.command : a \in adapt(entry[1], entry[2])} : entry \in Inputs.words}

CallCommands == UNION {to_command(entry[1], entry[2]) : entry \in Inputs.calls}

ProgramCommands == {entry[2] : entry \in Inputs.commands}

Enterable == WordCommands \union CallCommands \union ProgramCommands \union {[op |-> "Pairs"]}

Asks == [entered : BOOLEAN, command : SUBSET Enterable, approved : BOOLEAN]

AsksMean == \A n \in DOMAIN asks : Meaning(asks[n].command)

Busy == pc \in {"Confirming", "Ready", "Sent", "Paused"}

(* What the shell passed on, it had judged.                                *)
BusyWithPermitted ==
  Busy => /\ asks # <<>> /\ asks[Current].command # {}
          /\ setup.surface = "shell" =>
               \A command \in asks[Current].command : permits(setup.access, min_access(command))

SentForAsks == \A m \in network : m.ask \in DOMAIN asks

NothingSentYet == pc = "Closed" => network = {}

IInv ==
  /\ setup \in Setups
  /\ asks \in Seq(Asks)
  /\ AsksMean
  /\ BusyWithPermitted
  /\ SentForAsks
  /\ NothingSentYet
  /\ SentWithinAuthority

(* Entries mean what can be entered, and mean one thing.                   *)
LEMMA EntriesMean ==
  /\ \A entry \in Inputs.words :
       LET commands == {a.command : a \in adapt(entry[1], entry[2])}
       IN Meaning(commands) /\ commands \subseteq Enterable
  /\ \A entry \in Inputs.calls :
       LET commands == to_command(entry[1], entry[2])
       IN Meaning(commands) /\ commands \subseteq Enterable
  /\ \A entry \in Inputs.commands :
       Meaning({entry[2]}) /\ {entry[2]} \subseteq Enterable
  /\ Meaning({[op |-> "Pairs"]}) /\ {[op |-> "Pairs"]} \subseteq Enterable
<1>1. ASSUME NEW entry \in Inputs.words
      PROVE  LET commands == {a.command : a \in adapt(entry[1], entry[2])}
             IN Meaning(commands) /\ commands \subseteq Enterable
  <2>1. Meaning({a.command : a \in adapt(entry[1], entry[2])})
    BY CommandPathAssumption, WordsMean
  <2>2. {a.command : a \in adapt(entry[1], entry[2])} \subseteq WordCommands
    BY DEF WordCommands
  <2> QED BY <2>1, <2>2 DEF Enterable
<1>2. ASSUME NEW entry \in Inputs.calls
      PROVE  LET commands == to_command(entry[1], entry[2])
             IN Meaning(commands) /\ commands \subseteq Enterable
  <2>1. Meaning(to_command(entry[1], entry[2]))
    BY CommandPathAssumption, CallsMean
  <2>2. to_command(entry[1], entry[2]) \subseteq CallCommands
    BY DEF CallCommands
  <2> QED BY <2>1, <2>2 DEF Enterable
<1>3. ASSUME NEW entry \in Inputs.commands
      PROVE  Meaning({entry[2]}) /\ {entry[2]} \subseteq Enterable
  <2>1. WellTyped(entry[2])
    BY CommandPathAssumption
  <2>2. entry[2] \in ProgramCommands
    BY DEF ProgramCommands
  <2> QED BY <2>1, <2>2, OneMeaning DEF Enterable
<1>4. Meaning({[op |-> "Pairs"]}) /\ {[op |-> "Pairs"]} \subseteq Enterable
  <2>1. WellTyped([op |-> "Pairs"])
    BY DEF WellTyped, MarketOps, SymbolOps, IdOps
  <2> QED BY <2>1, OneMeaning DEF Enterable
<1> QED BY <1>1, <1>2, <1>3, <1>4

(* A step that leaves the asks alone, sends nothing, and does not resume   *)
(* what had ended.                                                         *)
LEMMA NothingNew ==
  ASSUME IInv, UNCHANGED <<setup, asks>>, network' \subseteq network, Busy' => Busy, pc' # "Closed"
  PROVE  IInv'
<1>1. BusyWithPermitted'
  BY DEF IInv, BusyWithPermitted, Current
<1>2. AsksMean' /\ SentForAsks' /\ SentWithinAuthority'
  BY DEF IInv, AsksMean, SentForAsks, SentWithinAuthority
<1> QED BY <1>1, <1>2 DEF IInv, NothingSentYet

(* An ask made of an entry.                                                *)
LEMMA Asking ==
  ASSUME IInv, NEW entry, NEW action, NEW approved \in BOOLEAN, Ask(entry, action, approved),
         Meaning({a.command : a \in action}), {a.command : a \in action} \subseteq Enterable,
         pc' # "Closed",
         Busy' => action # {} /\ (setup.surface = "shell" => TierPermits(action))
  PROVE  IInv'
<1> DEFINE commands == {a.command : a \in action}
           ask == [entered |-> TRUE, command |-> commands, approved |-> approved]
<1>1. asks' = Append(asks, ask) /\ UNCHANGED <<setup, network>>
  BY DEF Ask
<1>2. ask \in Asks /\ ask.command = commands
  BY DEF Asks
<1>3. action # {} => commands # {}
  OBVIOUS
<1>4. TierPermits(action) => \A command \in commands : permits(setup.access, min_access(command))
  BY DEF TierPermits
<1> HIDE DEF ask, commands
<1>5. /\ asks \in Seq(Asks) /\ asks' \in Seq(Asks)
      /\ Len(asks') = Len(asks) + 1 /\ asks'[Len(asks')] = ask
      /\ \A n \in DOMAIN asks : n \in DOMAIN asks' /\ asks'[n] = asks[n]
      /\ \A n \in DOMAIN asks' : n \in DOMAIN asks \/ n = Len(asks')
      /\ asks' # <<>>
  BY <1>1, <1>2 DEF IInv
<1>6. AsksMean'
  BY <1>2, <1>5 DEF IInv, AsksMean, commands
<1>7. BusyWithPermitted'
  BY <1>1, <1>2, <1>3, <1>4, <1>5 DEF BusyWithPermitted, Current
<1>8. SentForAsks' /\ SentWithinAuthority'
  BY <1>1, <1>5 DEF IInv, SentForAsks, SentWithinAuthority
<1> QED BY <1>1, <1>5, <1>6, <1>7, <1>8 DEF IInv, NothingSentYet

LEMMA Starts ==
  Init => IInv
<1> SUFFICES ASSUME Init PROVE IInv
  OBVIOUS
<1>1. asks = <<>> /\ network = {} /\ ~Busy /\ setup \in Setups
  BY DEF Init, Busy
<1>2. asks \in Seq(Asks) /\ DOMAIN asks = {}
  BY <1>1
<1> QED BY <1>1, <1>2 DEF IInv, AsksMean, BusyWithPermitted, SentForAsks, NothingSentYet, SentWithinAuthority

(* The surfaces.                                                           *)
LEMMA OneShotStep ==
  ASSUME IInv, OneShot
  PROVE  IInv'
<1>1. PICK entry \in Inputs.words :
        LET made   == client_for(setup, needs_secrets(entry[1]))
            action == adapt(entry[1], entry[2])
        IN /\ Ask(entry, action, Confirmed(action))
           /\ \/ \E e \in made.error : Refused(e.variant)
              \/ made.error = None /\ action = None /\ Refused("Usage")
              \/ made.error = None /\ NeedsConfirming(action) /\ Refused("Unconfirmed")
              \/ made.error = None /\ action # None /\ ~NeedsConfirming(action) /\ Accepted("Ready")
  BY DEF OneShot
<1> DEFINE action == adapt(entry[1], entry[2])
<1>2. Meaning({a.command : a \in action}) /\ {a.command : a \in action} \subseteq Enterable
  BY EntriesMean
<1>3. Ask(entry, action, Confirmed(action)) /\ Confirmed(action) \in BOOLEAN
  BY <1>1 DEF Confirmed
<1>4. (pc' = "Idle") \/ (pc' = "Ready" /\ action # {})
  BY <1>1 DEF Refused, Accepted
<1>5. setup.surface # "shell"
  BY DEF OneShot
<1> HIDE DEF action
<1> QED BY <1>2, <1>3, <1>4, <1>5, Asking DEF Busy

LEMMA ShellLineStep ==
  ASSUME IInv, ShellLine
  PROVE  IInv'
<1>1. PICK entry \in Inputs.words :
        LET action == adapt(entry[1], entry[2])
        IN /\ Ask(entry, action, Confirmed(action))
           /\ \/ action = None /\ Refused("Usage")
              \/ ~TierPermits(action) /\ Refused("AccessDenied")
              \/ TierPermits(action) /\ NeedsConfirming(action) /\ Accepted("Confirming")
              \/ action # None /\ TierPermits(action) /\ ~NeedsConfirming(action) /\ Accepted("Ready")
  BY DEF ShellLine
<1> DEFINE action == adapt(entry[1], entry[2])
<1>2. Meaning({a.command : a \in action}) /\ {a.command : a \in action} \subseteq Enterable
  BY EntriesMean
<1>3. Ask(entry, action, Confirmed(action)) /\ Confirmed(action) \in BOOLEAN
  BY <1>1 DEF Confirmed
<1>4. NeedsConfirming(action) => action # {}
  BY DEF NeedsConfirming
<1>5. (pc' = "Idle") \/ (pc' \in {"Confirming", "Ready"} /\ action # {} /\ TierPermits(action))
  BY <1>1, <1>4 DEF Refused, Accepted
<1> HIDE DEF action
<1> QED BY <1>2, <1>3, <1>5, Asking DEF Busy

LEMMA ToolCallStep ==
  ASSUME IInv, ToolCall
  PROVE  IInv'
<1>1. PICK entry \in Inputs.calls :
        LET action == {run(command) : command \in to_command(entry[1], entry[2])}
        IN /\ Ask(entry, action, permits(setup.access, Trading))
           /\ \/ action = None /\ Refused("Usage")
              \/ action # None /\ Accepted("Ready")
  BY DEF ToolCall
<1> DEFINE commands == to_command(entry[1], entry[2])
           action == {run(command) : command \in commands}
<1>2. {a.command : a \in action} = commands
  <2> HIDE DEF commands
  <2>1. \A command : run(command).command = command
    BY DEF run, Action
  <2> QED BY <2>1
<1>3. Meaning(commands) /\ commands \subseteq Enterable
  BY EntriesMean
<1>4. Ask(entry, action, permits(setup.access, Trading)) /\ permits(setup.access, Trading) \in BOOLEAN
  BY <1>1 DEF permits
<1>5. (pc' = "Idle") \/ (pc' = "Ready" /\ action # {})
  BY <1>1 DEF Refused, Accepted
<1>6. setup.surface # "shell"
  BY DEF ToolCall
<1> HIDE DEF commands, action
<1> QED BY <1>2, <1>3, <1>4, <1>5, <1>6, Asking DEF Busy

LEMMA LibraryCallStep ==
  ASSUME IInv, LibraryCall
  PROVE  IInv'
<1>1. PICK entry \in Inputs.commands : Ask(entry, {run(entry[2])}, TRUE) /\ Accepted("Ready")
  BY DEF LibraryCall
<1> DEFINE action == {run(entry[2])}
<1>2. {a.command : a \in action} = {entry[2]}
  BY DEF run, Action
<1>3. Meaning({entry[2]}) /\ {entry[2]} \subseteq Enterable
  BY EntriesMean
<1>4. pc' = "Ready" /\ action # {}
  BY <1>1 DEF Accepted
<1>5. setup.surface # "shell"
  BY DEF LibraryCall
<1>6. Ask(entry, action, TRUE)
  BY <1>1
<1> HIDE DEF action
<1> QED BY <1>2, <1>3, <1>4, <1>5, <1>6, Asking DEF Busy

LEMMA ConfirmStep ==
  ASSUME IInv, NEW yes \in BOOLEAN, Confirm(yes)
  PROVE  IInv'
<1>1. /\ asks \in Seq(Asks) /\ asks # <<>> /\ Current \in DOMAIN asks
  BY DEF IInv, BusyWithPermitted, Busy, Confirm, Current
<1>2. /\ asks' \in Seq(Asks) /\ DOMAIN asks' = DOMAIN asks /\ Len(asks') = Len(asks)
      /\ \A n \in DOMAIN asks : asks'[n].command = asks[n].command
  <2> DEFINE old == asks[Current]
             new == [old EXCEPT !.approved = yes]
  <2>1. asks' = [asks EXCEPT ![Current] = new]
    BY DEF Confirm
  <2>2. old \in Asks
    BY <1>1
  <2>3. new \in Asks /\ new.command = old.command
    <3> HIDE DEF old
    <3> QED BY <2>2 DEF Asks
  <2> HIDE DEF new
  <2> QED BY <1>1, <2>1, <2>3
<1>3. UNCHANGED <<setup, network>> /\ Busy /\ pc' # "Closed"
  BY DEF Confirm, Busy
<1>4. asks' # <<>>
  BY <1>1, <1>2
<1>5. BusyWithPermitted'
  BY <1>1, <1>2, <1>3, <1>4 DEF IInv, BusyWithPermitted, Current
<1>6. AsksMean' /\ SentForAsks' /\ SentWithinAuthority'
  BY <1>2, <1>3 DEF IInv, AsksMean, SentForAsks, SentWithinAuthority
<1> QED BY <1>2, <1>3, <1>5, <1>6 DEF IInv, NothingSentYet

LEMMA OpenShellStep ==
  ASSUME IInv, OpenShell
  PROVE  IInv'
<1> DEFINE ask == [entered |-> FALSE, command |-> {[op |-> "Pairs"]}, approved |-> FALSE]
<1>1. asks' = <<ask>> /\ network = {} /\ network' = network /\ setup' = setup /\ pc' = "Ready"
  BY DEF OpenShell, IInv, NothingSentYet
<1>2. ask \in Asks /\ ask.command = {[op |-> "Pairs"]}
  BY EntriesMean DEF Asks
<1>3. min_access([op |-> "Pairs"]) = Market
  <2> DEFINE command == [op |-> "Pairs"]
  <2>1. command.op \in MarketOps
    BY DEF MarketOps
  <2> HIDE DEF command
  <2>2. min_access(command) = Market
    BY <2>1 DEF min_access, MarketOps, ViewOps, TradingOps, LibraryOps
  <2> QED BY <2>2 DEF command
<1>4. permits(setup.access, Market)
  BY CommandPathAssumption DEF IInv, permits, AccessLevel, Market, View, Trading
<1> HIDE DEF ask
<1>5. asks' \in Seq(Asks) /\ Len(asks') = 1 /\ asks'[1] = ask /\ DOMAIN asks' = {1} /\ asks' # <<>>
  BY <1>1, <1>2
<1>6. AsksMean'
  BY <1>2, <1>5, EntriesMean DEF AsksMean
<1>7. BusyWithPermitted'
  BY <1>1, <1>2, <1>3, <1>4, <1>5 DEF BusyWithPermitted, Current
<1> QED BY <1>1, <1>5, <1>6, <1>7 DEF IInv, SentForAsks, NothingSentYet, SentWithinAuthority

(* What is sent is of the tier its command needs, since a path that a URL  *)
(* would change is not sent; the shell has judged the command, the agent   *)
(* judges the request.                                                     *)
LEMMA SendStep ==
  ASSUME IInv, Send
  PROVE  IInv'
<1>1. /\ network' = network \union {[ask |-> Current, environment |-> c.environment,
                                     wire |-> Wire(Requested, c.signer)] : c \in client}
      /\ UNCHANGED <<setup, asks>> /\ pc = "Ready" /\ pc' = "Sent"
      /\ AgentPermits /\ Unsendable = None
  BY DEF Send
<1>2. /\ Busy /\ asks \in Seq(Asks) /\ Current \in DOMAIN asks /\ asks[Current].command # {}
      /\ Meaning(asks[Current].command)
  BY <1>1 DEF IInv, BusyWithPermitted, Busy, Current, AsksMean
<1>3. Command \in asks[Current].command
  BY <1>2 DEF Command
<1>4. /\ WellTyped(Command)
      /\ \A command \in asks[Current].command : min_access(command) = min_access(Command)
  BY <1>2, <1>3 DEF Meaning, min_access
<1>5. TierOf(Requested) = min_access(Command)
  BY <1>4, RequestTier DEF Requested
<1>6. UrlSafe(Requested.path)
  <2>1. SendError(Requested, Signers) = None
    BY <1>1 DEF Unsendable
  <2> QED BY <2>1 DEF SendError
<1>7. \A signer : TierOf(Wire(Requested, signer)) = min_access(Command)
  BY <1>5, <1>6 DEF Wire, TierOf, UrlSafe
<1>8. setup.surface \in {"shell", "mcp"} => permits(setup.access, min_access(Command))
  BY <1>1, <1>2, <1>3, <1>5 DEF IInv, BusyWithPermitted, AgentPermits
<1>9. \A m \in network' : m \in network \/ (m.ask = Current /\ \E signer : m.wire = Wire(Requested, signer))
  BY <1>1
<1>10. SentWithinAuthority'
  BY <1>1, <1>4, <1>7, <1>8, <1>9 DEF IInv, SentWithinAuthority
<1>11. SentForAsks'
  BY <1>1, <1>2, <1>9 DEF IInv, SentForAsks
<1>12. BusyWithPermitted'
  BY <1>1, <1>2 DEF IInv, BusyWithPermitted, Current
<1> QED BY <1>1, <1>10, <1>11, <1>12 DEF IInv, AsksMean, NothingSentYet

LEMMA Steps ==
  ASSUME IInv, [Next]_vars
  PROVE  IInv'
<1>1. CASE OneShot
  BY <1>1, OneShotStep
<1>2. CASE ShellLine
  BY <1>2, ShellLineStep
<1>3. CASE ToolCall
  BY <1>3, ToolCallStep
<1>4. CASE LibraryCall
  BY <1>4, LibraryCallStep
<1>5. CASE \E yes \in BOOLEAN : Confirm(yes)
  BY <1>5, ConfirmStep
<1>6. CASE OpenFails
  BY <1>6, NothingNew DEF OpenFails, Busy
<1>7. CASE OpenShell
  BY <1>7, OpenShellStep
<1>8. CASE OpenOther
  BY <1>8, NothingNew DEF OpenOther, Busy
<1>9. CASE ExecuteFails
  BY <1>9, NothingNew DEF ExecuteFails, Report, Busy
<1>10. CASE Send
  BY <1>10, SendStep
<1>11. CASE Receive
  BY <1>11, NothingNew DEF Receive, Waiting, Report, Busy
<1>12. CASE GiveUp
  BY <1>12, NothingNew DEF GiveUp, TimesOut, Waiting, Report, Forgotten, Busy
<1>13. CASE AgentLost
  BY <1>13, NothingNew DEF AgentLost, Report, Forgotten, Busy
<1>14. CASE Poll
  BY <1>14, NothingNew DEF Poll, Busy
<1>15. CASE EnterPressed
  BY <1>15, NothingNew DEF EnterPressed, Forgotten, Busy
<1>16. CASE Exchange
  <2>1. /\ UNCHANGED <<setup, asks, pc>> /\ network' \subseteq network
        /\ network # {}
    BY <1>16 DEF Exchange, ExchangeRefuses, ExchangeAnswers, ExchangeTakes, ExchangeBreaks, Lose, Respond
  <2>2. pc' # "Closed"
    BY <2>1 DEF IInv, NothingSentYet
  <2> QED BY <2>1, <2>2, NothingNew DEF Busy
<1>17. CASE UNCHANGED vars
  BY <1>17 DEF vars, IInv, AsksMean, BusyWithPermitted, Busy, Current, SentForAsks, NothingSentYet,
               SentWithinAuthority
<1> QED BY <1>1, <1>2, <1>3, <1>4, <1>5, <1>6, <1>7, <1>8, <1>9, <1>10, <1>11, <1>12, <1>13, <1>14,
           <1>15, <1>16, <1>17 DEF Next, User, Process

(* Whatever is under way to the exchange is of the tier that its command   *)
(* needs, and within the tier that the shell or the agent was given, on    *)
(* every surface and for every symbol and order id.                        *)
THEOREM WithinAuthority == Spec => []SentWithinAuthority
<1>1. Init => IInv
  BY Starts
<1>2. IInv /\ [Next]_vars => IInv'
  BY Steps
<1>3. IInv => SentWithinAuthority
  BY DEF IInv
<1> QED BY <1>1, <1>2, <1>3, PTL DEF Spec

-----------------------------------------------------------------------------
(* Clients, and the errors of who fails to make one.                       *)

LEMMA Built ==
  ASSUME NEW b
  PROVE  /\ \A c \in build(b).client :
              /\ c.environment \in Urls
              /\ b.signer # None => c.signer = b.signer
              /\ b.signer = None =>
                   /\ c.signer = {Ed25519Signer(api_key, OrElse(b.key, <<>>)) : api_key \in b.api_key}
                   /\ b.key \subseteq Pems
         /\ \A e \in build(b).error : e.variant \in {"Configuration", "Key"}
BY DEF build, Made, Failed, Error

LEMMA BuiltFromConfig ==
  ASSUME NEW config, NEW files
  PROVE  /\ \A c \in build_config(config, files).client : c.environment \in Urls
         /\ \A e \in build_config(config, files).error :
              e.variant \in {"Configuration", "Key", "KeyFile", "MissingPrivateKey", "MissingApiKey"}
<1> DEFINE pem == IF config.private_key_pem # None THEN config.private_key_pem
                  ELSE UNION {files[path] : path \in config.private_key_path}
           b == [builder EXCEPT !.environment = Some(OrElse(config.environment, Production)),
                                !.api_key = config.api_key, !.key = pem]
<1>1. \/ build_config(config, files) = build(b)
      \/ \E v \in {"KeyFile", "MissingPrivateKey", "MissingApiKey"} : build_config(config, files) = Failed(v)
  BY DEF build_config
<1> HIDE DEF b
<1>2. CASE build_config(config, files) = build(b)
  BY <1>2, Built
<1>3. CASE \E v \in {"KeyFile", "MissingPrivateKey", "MissingApiKey"} : build_config(config, files) = Failed(v)
  BY <1>3 DEF Failed, Error
<1> QED BY <1>1, <1>2, <1>3

(* Why there is no client. *)
ClientErrors ==
  {"Configuration", "Key", "KeyFile", "MissingPrivateKey", "MissingApiKey", "NoVault", "Locked"}

LEMMA ClientFor ==
  ASSUME NEW global, NEW needs_auth
  PROVE  /\ \A c \in client_for(global, needs_auth).client : c.environment \in Urls
         /\ \A e \in client_for(global, needs_auth).error : e.variant \in ClientErrors
<1>1. PICK b, config, files :
        \/ client_for(global, needs_auth) = build(b)
        \/ client_for(global, needs_auth) = build_config(config, files)
        \/ \E v \in {"NoVault", "Locked"} : client_for(global, needs_auth) = Failed(v)
  BY DEF client_for
<1>2. CASE client_for(global, needs_auth) = build(b)
  BY <1>2, Built DEF ClientErrors
<1>3. CASE client_for(global, needs_auth) = build_config(config, files)
  BY <1>3, BuiltFromConfig DEF ClientErrors
<1>4. CASE \E v \in {"NoVault", "Locked"} : client_for(global, needs_auth) = Failed(v)
  BY <1>4 DEF Failed, Error, ClientErrors
<1> QED BY <1>1, <1>2, <1>3, <1>4

LEMMA KeptClientType ==
  \A c \in KeptClient.client : c.environment \in Urls
<1>1. CASE setup.surface = "library"
  BY <1>1, Built, BuiltFromConfig DEF KeptClient, LibraryClient
<1>2. CASE setup.surface # "library"
  BY <1>2, ClientFor DEF KeptClient
<1> QED BY <1>1, <1>2

-----------------------------------------------------------------------------
(* Outcomes.                                                               *)

Outcomes == Errors \union {Ok, Open, Error("Stopped")} \union {Error(v) : v \in SurfaceVariants}

LEMMA StatusKinds ==
  ASSUME NEW status
  PROVE  /\ from_status(status) \in ApiErrorKind
         /\ status # 401 /\ status # 403 => from_status(status) \notin {"Unauthorized", "Forbidden"}
<1>1. \/ status = 400 /\ from_status(status) = "BadRequest"
      \/ status = 401 /\ from_status(status) = "Unauthorized"
      \/ status = 403 /\ from_status(status) = "Forbidden"
      \/ status = 404 /\ from_status(status) = "NotFound"
      \/ status = 409 /\ from_status(status) = "Conflict"
      \/ status = 429 /\ from_status(status) = "RateLimited"
      \/ from_status(status) \in {"Server", "Other"}
  BY DEF from_status
<1> QED BY <1>1 DEF ApiErrorKind

LEMMA ResultTypes ==
  ASSUME NEW status, NEW body
  PROVE  send_json(status, body) \in Errors \union {Ok} /\ send_no_content(status, body) \in Errors \union {Ok}
<1>1. ApiError(from_status(status)) \in Errors
  BY StatusKinds DEF Errors
<1>2. \A v \in {"Unexpected", "Deserialize"} : Error(v) \in Errors
  BY DEF Errors, RemoteVariants
<1> QED BY <1>1, <1>2 DEF send_json, send_no_content, classify_error_response

-----------------------------------------------------------------------------
(* The types.                                                              *)

Flags ==
  /\ pc \in {"Closed", "Idle", "Confirming", "Ready", "Sent", "Paused", "Gone"}
  /\ watching \in BOOLEAN

ClientTyped == \A c \in client : c.environment \in Urls

ToldTyped == told \in Seq(Outcomes) /\ Len(told) = Len(asks)

BusyOpen == Busy => told[Current] = Open

NetworkTyped ==
  \A m \in network :
    m.environment \in Urls /\ \A signature \in m.wire.signature : Complete(signature.key)

AnswersTyped == answers \in Option(Answers) /\ (answers # None => Waiting)

TInv == IInv /\ Flags /\ ClientTyped /\ ToldTyped /\ BusyOpen /\ NetworkTyped /\ AnswersTyped

LEMMA TypesFollow ==
  TInv => TypeOK
<1> SUFFICES ASSUME TInv PROVE TypeOK
  OBVIOUS
<1>1. DOMAIN told = DOMAIN asks /\ \A n \in DOMAIN told : told[n] \in Outcomes
  BY DEF TInv, IInv, ToldTyped
<1>2. \A m \in network : m.ask \in DOMAIN asks
  BY DEF TInv, IInv, SentForAsks
<1> QED BY <1>1, <1>2 DEF TInv, IInv, Flags, ClientTyped, NetworkTyped, AnswersTyped, BusyOpen, Busy,
                          Outcomes, TypeOK

LEMMA OpenIsAnOutcome ==
  /\ Open \in Outcomes /\ Error("Stopped") \in Outcomes
  /\ \A v \in LocalVariants \union RemoteVariants \union SurfaceVariants : Error(v) \in Outcomes
  /\ \A e \in Errors \union {Ok} : e \in Outcomes
BY DEF Outcomes, Errors

LEMMA TypesStart ==
  Init => TInv
<1> SUFFICES ASSUME Init PROVE TInv
  OBVIOUS
<1>1. IInv
  BY Starts
<1>2. told = <<>> /\ asks = <<>> /\ client = {} /\ network = {} /\ answers = {} /\ Flags /\ ~Busy
  BY DEF Init, Flags, Busy
<1>3. ToldTyped
  BY <1>2 DEF ToldTyped
<1> QED BY <1>1, <1>2, <1>3 DEF TInv, ClientTyped, BusyOpen, NetworkTyped, AnswersTyped, Option

(* An ask, and what the user is told of it at once.                        *)
LEMMA AskingTypes ==
  ASSUME TInv, IInv', NEW entry, NEW action, NEW approved, Ask(entry, action, approved),
         NEW outcome \in Outcomes, told' = Append(told, outcome), Busy' => outcome = Open,
         pc' \in {"Idle", "Confirming", "Ready"}, ClientTyped'
  PROVE  TInv'
<1>1. /\ asks \in Seq(Asks) /\ asks' \in Seq(Asks) /\ told \in Seq(Outcomes) /\ Len(told) = Len(asks)
      /\ \E ask : asks' = Append(asks, ask)
      /\ UNCHANGED <<network, answers>> /\ pc = "Idle"
  BY DEF TInv, IInv, ToldTyped, Ask
<1>2. Len(asks') = Len(asks) + 1
  BY <1>1
<1>3. ToldTyped' /\ told'[Len(asks')] = outcome
  BY <1>1, <1>2 DEF ToldTyped
<1>4. Flags'
  BY DEF Flags, Ask
<1>5. BusyOpen'
  BY <1>3 DEF BusyOpen, Current
<1>6. AnswersTyped'
  BY <1>1 DEF TInv, AnswersTyped, Waiting
<1> QED BY <1>1, <1>3, <1>4, <1>5, <1>6 DEF TInv, NetworkTyped

LEMMA BusyHasAsk ==
  ASSUME TInv, Busy
  PROVE  told \in Seq(Outcomes) /\ Len(told) = Len(asks) /\ Current \in DOMAIN told
<1>1. asks \in Seq(Asks) /\ asks # <<>>
  BY DEF TInv, IInv, BusyWithPermitted
<1>2. Len(asks) \in 1..Len(asks)
  BY <1>1
<1> QED BY <1>2 DEF TInv, ToldTyped, Current

LEMMA ReportTypes ==
  ASSUME TInv, IInv', pc \in {"Ready", "Sent"}, NEW outcome \in Outcomes, Report(outcome),
         network' \subseteq network
  PROVE  TInv'
<1>1. told \in Seq(Outcomes) /\ Len(told) = Len(asks) /\ Current \in DOMAIN told
  BY BusyHasAsk DEF Busy
<1>2. told' = [told EXCEPT ![Current] = IF watching THEN Open ELSE outcome]
  BY DEF Report
<1>3. ToldTyped' /\ told'[Current] = IF watching THEN Open ELSE outcome
  BY <1>1, <1>2, OpenIsAnOutcome DEF ToldTyped, Report
<1>4. BusyOpen'
  BY <1>3 DEF BusyOpen, Report, Busy, Current
<1>5. Flags' /\ ClientTyped' /\ AnswersTyped' /\ NetworkTyped'
  BY DEF TInv, Flags, ClientTyped, AnswersTyped, NetworkTyped, Report, Option
<1> QED BY <1>3, <1>4, <1>5 DEF TInv

(* A step that tells nobody anything and asks nothing.                     *)
LEMMA QuietTypes ==
  ASSUME TInv, IInv', UNCHANGED <<watching, asks, told>>, Busy' => Busy, Flags', ClientTyped',
         AnswersTyped', NetworkTyped'
  PROVE  TInv'
BY DEF TInv, ToldTyped, BusyOpen, Current

LEMMA SurfaceTypes ==
  ASSUME TInv, IInv', User
  PROVE  TInv'
<1>1. CASE OneShot
  <2>1. PICK entry, action, made, outcome :
          /\ Ask(entry, action, Confirmed(action)) /\ made = client_for(setup, needs_secrets(entry[1]))
          /\ client' = made.client
          /\ \/ /\ \/ \E e \in made.error : outcome = Error(e.variant)
                   \/ outcome \in {Error("Usage"), Error("Unconfirmed")}
                /\ told' = Append(told, outcome) /\ pc' = "Idle"
             \/ outcome = Open /\ Accepted("Ready")
    BY <1>1 DEF OneShot, Refused
  <2>2. ClientTyped'
    BY <2>1, ClientFor DEF ClientTyped
  <2>3. outcome \in Outcomes
    BY <2>1, OpenIsAnOutcome, ClientFor DEF ClientErrors, LocalVariants, SurfaceVariants
  <2> QED BY <2>1, <2>2, <2>3, AskingTypes DEF Accepted, Busy
<1>2. CASE ShellLine
  <2>1. PICK entry, action, outcome :
          /\ Ask(entry, action, Confirmed(action))
          /\ \/ outcome \in {Error("Usage"), Error("AccessDenied")} /\ told' = Append(told, outcome) /\ pc' = "Idle"
             \/ outcome = Open /\ (Accepted("Ready") \/ Accepted("Confirming"))
    BY <1>2 DEF ShellLine, Refused
  <2>2. ClientTyped'
    BY <1>2 DEF ClientTyped, TInv, ShellLine
  <2>3. outcome \in Outcomes
    BY <2>1, OpenIsAnOutcome DEF SurfaceVariants
  <2> QED BY <2>1, <2>2, <2>3, AskingTypes DEF Accepted, Busy
<1>3. CASE ToolCall
  <2>1. PICK entry, action, outcome :
          /\ Ask(entry, action, permits(setup.access, Trading))
          /\ \/ outcome = Error("Usage") /\ told' = Append(told, outcome) /\ pc' = "Idle"
             \/ outcome = Open /\ Accepted("Ready")
    BY <1>3 DEF ToolCall, Refused
  <2>2. ClientTyped'
    BY <1>3 DEF ClientTyped, TInv, ToolCall
  <2>3. outcome \in Outcomes
    BY <2>1, OpenIsAnOutcome DEF SurfaceVariants
  <2> QED BY <2>1, <2>2, <2>3, AskingTypes DEF Accepted, Busy
<1>4. CASE LibraryCall
  <2>1. PICK entry, action : Ask(entry, action, TRUE) /\ Accepted("Ready")
    BY <1>4 DEF LibraryCall
  <2>2. ClientTyped'
    BY <1>4 DEF ClientTyped, TInv, LibraryCall
  <2> QED BY <2>1, <2>2, OpenIsAnOutcome, AskingTypes DEF Accepted, Busy
<1>5. ASSUME NEW yes \in BOOLEAN, Confirm(yes) PROVE TInv'
  <2>1. told \in Seq(Outcomes) /\ Len(told) = Len(asks) /\ Current \in DOMAIN told
    BY <1>5, BusyHasAsk DEF Busy, Confirm
  <2>2. Len(asks') = Len(asks)
    BY <1>5 DEF Confirm, TInv, IInv
  <2>3. told' = [told EXCEPT ![Current] = IF yes THEN Open ELSE Error("Cancelled")]
    BY <1>5 DEF Confirm
  <2>4. ToldTyped' /\ told'[Current] = IF yes THEN Open ELSE Error("Cancelled")
    BY <2>1, <2>2, <2>3, OpenIsAnOutcome DEF ToldTyped, SurfaceVariants
  <2>5. BusyOpen'
    BY <1>5, <2>2, <2>4 DEF BusyOpen, Busy, Confirm, Current
  <2>6. Flags' /\ ClientTyped' /\ NetworkTyped' /\ AnswersTyped'
    BY <1>5 DEF TInv, Flags, ClientTyped, NetworkTyped, AnswersTyped, Confirm, Waiting
  <2> QED BY <2>4, <2>5, <2>6 DEF TInv
<1> QED BY <1>1, <1>2, <1>3, <1>4, <1>5 DEF User

(* Nothing is sent that is not signed by a whole key, if signed at all.    *)
LEMMA SendTypes ==
  ASSUME TInv, IInv', Send
  PROVE  TInv'
<1>1. Unsendable = None /\ network' = network \union
        {[ask |-> Current, environment |-> c.environment, wire |-> Wire(Requested, c.signer)] : c \in client}
  BY DEF Send
<1>2. ASSUME NEW c \in client
      PROVE  \A signature \in Wire(Requested, c.signer).signature : Complete(signature.key)
  <2> DEFINE w == Wire(Requested, c.signer)
  <2>1. CASE Requested.requires_auth
    <3>1. SendError(Requested, Signers) = None /\ UNION {SigningError(signer) : signer \in Signers} = None
      BY <1>1, <2>1 DEF Unsendable
    <3>2. \A signer \in Signers : SigningError(signer) = None
      BY <3>1
    <3>3. \A signer \in c.signer : Complete(signer)
      BY <3>2 DEF Signers, SigningError, Complete
    <3>4. w.signature = {authenticate(key, MessageOf(Requested)) : key \in c.signer}
      BY <2>1 DEF Wire
    <3> QED BY <3>3, <3>4 DEF authenticate
  <2>2. CASE ~Requested.requires_auth
    BY <2>2 DEF Wire
  <2> QED BY <2>1, <2>2
<1>3. NetworkTyped'
  BY <1>1, <1>2 DEF TInv, NetworkTyped, ClientTyped
<1>4. answers = None /\ UNCHANGED <<watching, asks, told, answers, client>> /\ Busy /\ pc' = "Sent"
  BY DEF TInv, AnswersTyped, Waiting, Send, Busy
<1>5. Flags' /\ ClientTyped' /\ AnswersTyped'
  BY <1>4 DEF TInv, Flags, ClientTyped, AnswersTyped, Waiting
<1> QED BY <1>3, <1>4, <1>5, QuietTypes

LEMMA ProcessTypes ==
  ASSUME TInv, IInv', Process
  PROVE  TInv'
<1>1. CASE OpenFails
  BY <1>1, QuietTypes DEF OpenFails, TInv, Flags, ClientTyped, AnswersTyped, NetworkTyped, Waiting, Busy
<1>2. CASE OpenShell
  <2>1. told' = <<Open>> /\ pc' = "Ready" /\ Len(asks') = 1 /\ UNCHANGED <<watching, network, answers>>
        /\ answers = None
    BY <1>2 DEF OpenShell, TInv, AnswersTyped, Waiting
  <2>2. ToldTyped' /\ told'[1] = Open
    BY <2>1, OpenIsAnOutcome DEF ToldTyped
  <2>3. ClientTyped'
    BY <1>2, KeptClientType DEF OpenShell, ClientTyped
  <2> QED BY <2>1, <2>2, <2>3 DEF TInv, Flags, BusyOpen, NetworkTyped, AnswersTyped, Current
<1>3. CASE OpenOther
  <2>1. ClientTyped'
    BY <1>3, KeptClientType DEF OpenOther, ClientTyped
  <2> QED BY <1>3, <2>1, QuietTypes DEF OpenOther, TInv, Flags, AnswersTyped, NetworkTyped, Waiting, Busy
<1>4. CASE ExecuteFails
  <2>1. PICK outcome : /\ Report(outcome)
                       /\ \/ outcome \in {Error("InvalidRequest"), Error("Agent")}
                          \/ outcome \in Unsendable
    BY <1>4 DEF ExecuteFails, Executor
  <2>2. \A error \in Unsendable :
          error \in {Error("InvalidRequest"), Error("MissingCredentials"), Error("Signing"), Error("Key")}
    BY DEF Unsendable, SendError, SigningError
  <2>3. outcome \in Outcomes
    BY <2>1, <2>2, OpenIsAnOutcome DEF LocalVariants, RemoteVariants
  <2> QED BY <1>4, <2>1, <2>3, ReportTypes DEF ExecuteFails
<1>5. CASE Send
  BY <1>5, SendTypes
<1>6. CASE Receive
  <2>1. PICK answer \in answers : Report(Result(answer))
    BY <1>6 DEF Receive
  <2>2. Result(answer) \in Outcomes
    BY ResultTypes, OpenIsAnOutcome DEF Result
  <2> QED BY <1>6, <2>1, <2>2, ReportTypes DEF Receive, Waiting
<1>7. CASE GiveUp
  <2>1. Executor(Error("Transport")) \in Outcomes
    BY OpenIsAnOutcome DEF Executor, RemoteVariants
  <2>2. network' \subseteq network
    BY <1>7 DEF GiveUp, Forgotten
  <2> QED BY <1>7, <2>1, <2>2, ReportTypes DEF GiveUp, TimesOut, Waiting
<1>8. CASE AgentLost
  <2>1. Error("AgentUnusable") \in Outcomes
    BY OpenIsAnOutcome DEF RemoteVariants
  <2>2. network' \subseteq network
    BY <1>8 DEF AgentLost, Forgotten
  <2> QED BY <1>8, <2>1, <2>2, ReportTypes DEF AgentLost
<1>9. CASE Poll
  <2>1. answers = None
    BY <1>9 DEF Poll, TInv, AnswersTyped, Waiting
  <2> QED BY <1>9, <2>1, QuietTypes DEF Poll, TInv, Flags, ClientTyped, AnswersTyped, NetworkTyped, Busy
<1>10. CASE EnterPressed
  <2>1. told \in Seq(Outcomes) /\ Len(told) = Len(asks) /\ Current \in DOMAIN told /\ asks' = asks
    BY <1>10, BusyHasAsk DEF Busy, EnterPressed
  <2>2. told' = [told EXCEPT ![Current] = Error("Stopped")]
    BY <1>10 DEF EnterPressed
  <2>3. ToldTyped'
    BY <2>1, <2>2, OpenIsAnOutcome DEF ToldTyped
  <2>4. Flags' /\ ClientTyped' /\ AnswersTyped' /\ NetworkTyped' /\ ~Busy'
    BY <1>10 DEF TInv, Flags, ClientTyped, AnswersTyped, NetworkTyped, EnterPressed, Forgotten, Option, Busy
  <2> QED BY <2>3, <2>4 DEF TInv, BusyOpen
<1> QED BY <1>1, <1>2, <1>3, <1>4, <1>5, <1>6, <1>7, <1>8, <1>9, <1>10 DEF Process

LEMMA ExchangeTypes ==
  ASSUME TInv, IInv', Exchange
  PROVE  TInv'
<1>1. PICK m \in network :
        ExchangeRefuses(m) \/ ExchangeAnswers(m) \/ ExchangeTakes(m) \/ ExchangeBreaks(m) \/ Lose(m)
  BY DEF Exchange
<1>2. \/ \E answer \in Answers : Respond(m, answer)
      \/ Lose(m)
  BY <1>1 DEF ExchangeRefuses, ExchangeAnswers, ExchangeTakes, ExchangeBreaks, Answers
<1>3. /\ UNCHANGED <<client, pc, watching, asks, told>> /\ network' \subseteq network
      /\ answers' = answers \/ (Waiting /\ \E answer \in Answers : answers' = {answer})
  BY <1>2 DEF Respond, Lose
<1>4. AnswersTyped'
  BY <1>3 DEF TInv, AnswersTyped, Option, Waiting
<1>5. Flags' /\ ClientTyped' /\ NetworkTyped'
  BY <1>3 DEF TInv, Flags, ClientTyped, NetworkTyped
<1> QED BY <1>3, <1>4, <1>5, QuietTypes DEF Busy

LEMMA TypesKept ==
  ASSUME TInv, [Next]_vars
  PROVE  TInv'
<1>1. IInv'
  BY Steps DEF TInv
<1>2. CASE User
  BY <1>1, <1>2, SurfaceTypes
<1>3. CASE Process
  BY <1>1, <1>3, ProcessTypes
<1>4. CASE Exchange
  BY <1>1, <1>4, ExchangeTypes
<1>5. CASE UNCHANGED vars
  BY <1>1, <1>5, QuietTypes DEF vars, TInv, Flags, ClientTyped, AnswersTyped, NetworkTyped, Waiting, Busy
<1> QED BY <1>2, <1>3, <1>4, <1>5 DEF Next

(* The types: every signature on the wire is by a signer with both of its  *)
(* parts, an answer only waits for who waits for it, and what is under way *)
(* has not been reported.                                                  *)
THEOREM TypeCorrect == Spec => []TypeOK
<1>1. Init => TInv
  BY TypesStart
<1>2. TInv /\ [Next]_vars => TInv'
  BY TypesKept
<1>3. TInv => TypeOK
  BY TypesFollow
<1> QED BY <1>1, <1>2, <1>3, PTL DEF Spec

-----------------------------------------------------------------------------
(* Good credentials.                                                       *)

(* Every client is the account's, but for the one that a one-shot command  *)
(* has which needs none.                                                   *)
ClientHolds ==
  \A c \in client :
    \/ c.signer = Some(Account)
    \/ /\ setup.surface = "oneshot"
       /\ Busy => \A command \in asks[Current].command : command.op \in PublicOps

HasClient ==
  (Busy \/ (setup.surface # "oneshot" /\ pc \notin {"Closed", "Gone"})) => client # None

AllGenuine == \A m \in network : Genuine(m.wire)

NoneUnattributed == \A answer \in answers : answer.status \notin {401, 403}

(* The outcomes that say of the credentials that they are no good.         *)
Blames(outcome) ==
  \/ is_auth_error(outcome)
  \/ outcome.variant \in {"MissingApiKey", "MissingPrivateKey", "NoVault", "Locked", "Signing"}

NoneBlames == \A n \in DOMAIN told : ~Blames(told[n])

CInv == HoldsAccount => ClientHolds /\ HasClient /\ AllGenuine /\ NoneUnattributed /\ NoneBlames

LEMMA AccountSigns ==
  SigningError(Account) = None
BY AccountAssumption DEF SigningError

(* The environment variables, as a ClientConfig, make the account's signer *)
(* if they hold its credentials.                                           *)
LEMMA VariablesSign ==
  ASSUME HoldsAccount, setup \in Setups, setup.insecure_env, NEW config,
         config.api_key = env_var(setup.variables.api_key),
         config.private_key_pem = env_var(setup.variables.private_key_pem),
         config.private_key_path = env_var(setup.variables.private_key_path)
  PROVE  /\ \A c \in build_config(config, setup.files).client : c.signer = Some(Account)
         /\ \A e \in build_config(config, setup.files).error : e.variant \in {"Configuration", "Key"}
<1>1. PICK key, secret :
        /\ Account.api_key = {key} /\ ~Blank(key)
        /\ Account.private_key_pem = {secret} /\ secret \in Pems /\ ~Blank(secret)
  BY AccountAssumption
<1>2. Account = Ed25519Signer(key, secret)
  BY <1>1, AccountAssumption DEF Ed25519Signer
<1>3. config.api_key = {key}
  BY <1>1 DEF HoldsAccount, env_var
<1> DEFINE pem == IF config.private_key_pem # None THEN config.private_key_pem
                  ELSE UNION {setup.files[path] : path \in config.private_key_path}
           b == [builder EXCEPT !.environment = Some(OrElse(config.environment, Production)),
                                !.api_key = config.api_key, !.key = pem]
<1>4. pem = {secret}
  <2>1. CASE setup.variables.private_key_pem = Account.private_key_pem
    BY <1>1, <2>1 DEF env_var
  <2>2. CASE /\ setup.variables.private_key_pem = None
             /\ \E path \in env_var(setup.variables.private_key_path) : setup.files[path] = Account.private_key_pem
    <3>1. config.private_key_pem = None
      BY <2>2 DEF env_var
    <3>2. PICK path \in config.private_key_path : setup.files[path] = {secret}
      BY <2>2, <1>1
    <3>3. config.private_key_path = {path}
      BY <3>2, CommandPathAssumption DEF env_var, IsOption
    <3> QED BY <3>1, <3>2, <3>3
  <2> QED BY <2>1, <2>2 DEF HoldsAccount
<1>5. build_config(config, setup.files) = build(b)
  BY <1>3, <1>4 DEF build_config
<1>6. b.signer = None /\ b.api_key = {key} /\ b.key = {secret}
  BY <1>3, <1>4 DEF builder
<1> HIDE DEF b
<1>7. OrElse(b.key, <<>>) = secret
  BY <1>6 DEF OrElse
<1>8. {Ed25519Signer(api_key, OrElse(b.key, <<>>)) : api_key \in b.api_key} = {Account}
  BY <1>2, <1>6, <1>7
<1>9. /\ \A c \in build(b).client : c.signer = {Account}
      /\ \A e \in build(b).error : e.variant \in {"Configuration", "Key"}
  BY <1>6, <1>8, Built
<1> QED BY <1>5, <1>9

(* Who needs credentials, and holds the account's, gets the account's      *)
(* client or learns of another mistake.                                    *)
LEMMA HolderSigns ==
  ASSUME HoldsAccount, setup \in Setups
  PROVE  /\ \A c \in client_for(setup, TRUE).client : c.signer = Some(Account)
         /\ \A e \in client_for(setup, TRUE).error : e.variant \in {"Configuration", "Key"}
<1>1. CASE setup.insecure_env
  <2> DEFINE config == FlagWins(setup.env, from_env(setup.variables))
  <2>1. client_for(setup, TRUE) = build_config(config, setup.files)
    BY <1>1 DEF client_for
  <2>2. /\ config.api_key = env_var(setup.variables.api_key)
        /\ config.private_key_pem = env_var(setup.variables.private_key_pem)
        /\ config.private_key_path = env_var(setup.variables.private_key_path)
    BY DEF FlagWins, from_env
  <2> HIDE DEF config
  <2> QED BY <1>1, <2>1, <2>2, VariablesSign
<1>2. CASE ~setup.insecure_env
  <2> DEFINE b == [builder EXCEPT !.environment = Some(environment(setup)), !.signer = setup.vault]
  <2>1. client_for(setup, TRUE) = build(b) /\ setup.vault = {Account}
    BY <1>2 DEF client_for, HoldsAccount
  <2>2. b.signer = {Account}
    BY <2>1 DEF builder
  <2> HIDE DEF b
  <2> QED BY <2>1, <2>2, Built
<1> QED BY <1>1, <1>2

LEMMA HolderKeeps ==
  ASSUME HoldsAccount, setup \in Setups
  PROVE  \A c \in KeptClient.client : c.signer = Some(Account)
<1>1. CASE setup.surface = "library" /\ setup.base_url = None
  <2> DEFINE config == or_env([environment |-> setup.env, api_key |-> None, private_key_pem |-> None,
                               private_key_path |-> None], setup.variables)
  <2>1. KeptClient = build_config(config, setup.files) /\ setup.insecure_env
    BY <1>1, CommandPathAssumption DEF KeptClient, LibraryClient
  <2>2. /\ config.api_key = env_var(setup.variables.api_key)
        /\ config.private_key_pem = env_var(setup.variables.private_key_pem)
        /\ config.private_key_path = env_var(setup.variables.private_key_path)
    BY DEF or_env, from_env
  <2> HIDE DEF config
  <2> QED BY <2>1, <2>2, VariablesSign
<1>2. CASE setup.surface = "library" /\ setup.base_url # None
  <2> DEFINE b == [builder EXCEPT !.environment = setup.env, !.base_url = setup.base_url,
                                  !.signer = setup.vault]
  <2>1. KeptClient = build(b) /\ setup.vault = {Account}
    BY <1>2, CommandPathAssumption DEF KeptClient, LibraryClient, HoldsAccount
  <2>2. b.signer = {Account}
    BY <2>1 DEF builder
  <2> HIDE DEF b
  <2> QED BY <2>1, <2>2, Built
<1>3. CASE setup.surface # "library"
  BY <1>3, HolderSigns DEF KeptClient
<1> QED BY <1>1, <1>2, <1>3

(* Outcomes that do not blame the credentials.                             *)
LEMMA Blameless ==
  /\ \A v : ~(v \in {"MissingCredentials", "MissingApiKey", "MissingPrivateKey", "NoVault", "Locked",
                     "Signing", "Api"}) => ~Blames(Error(v))
  /\ ~Blames(Ok)
  /\ \A status, body : status \notin {401, 403} =>
       ~Blames(send_json(status, body)) /\ ~Blames(send_no_content(status, body))
<1>1. \A v : ~(v \in {"MissingCredentials", "MissingApiKey", "MissingPrivateKey", "NoVault", "Locked",
                      "Signing", "Api"}) => ~Blames(Error(v))
  BY DEF Blames, is_auth_error, Error, ApiError
<1>2. ~Blames(Ok)
  BY DEF Blames, is_auth_error, Error, ApiError, Ok
<1>3. \A kind : kind \notin {"Unauthorized", "Forbidden"} => ~Blames(ApiError(kind))
  BY DEF Blames, is_auth_error, Error, ApiError
<1>4. ASSUME NEW status, NEW body, status \notin {401, 403}
      PROVE  ~Blames(send_json(status, body)) /\ ~Blames(send_no_content(status, body))
  <2>1. ~Blames(ApiError(from_status(status)))
    BY <1>3, <1>4, StatusKinds
  <2>2. ~Blames(Error("Unexpected")) /\ ~Blames(Error("Deserialize"))
    BY <1>1
  <2> QED BY <1>2, <2>1, <2>2 DEF send_json, send_no_content, classify_error_response
<1> QED BY <1>1, <1>2, <1>4

(* Being told one thing more, or another thing than before.                *)
LEMMA ToldOneMore ==
  ASSUME ToldTyped, NoneBlames, NEW outcome, ~Blames(outcome),
         \/ told' = Append(told, outcome)
         \/ told' = [told EXCEPT ![Current] = outcome]
         \/ told' = <<outcome>>
  PROVE  NoneBlames'
<1>1. told \in Seq(Outcomes)
  BY DEF ToldTyped
<1>2. CASE told' = Append(told, outcome)
  <2>1. \A n \in DOMAIN told' : told'[n] = outcome \/ (n \in DOMAIN told /\ told'[n] = told[n])
    BY <1>1, <1>2
  <2> QED BY <2>1 DEF NoneBlames
<1>3. CASE told' = [told EXCEPT ![Current] = outcome]
  <2>1. \A n \in DOMAIN told' : n \in DOMAIN told /\ (told'[n] = outcome \/ told'[n] = told[n])
    BY <1>3
  <2> QED BY <2>1 DEF NoneBlames
<1>4. CASE told' = <<outcome>>
  BY <1>4 DEF NoneBlames
<1> QED BY <1>2, <1>3, <1>4

LEMMA OpenIsBlameless ==
  ~Blames(Open) /\ \A v \in {"Usage", "Unconfirmed", "AccessDenied", "Cancelled", "Stopped", "Transport",
                              "Agent", "AgentUnusable", "InvalidRequest", "Configuration", "Key"} :
                     ~Blames(Error(v))
BY Blameless DEF Open

LEMMA ClientOrError ==
  ASSUME NEW global, NEW needs_auth, client_for(global, needs_auth).error = None
  PROVE  client_for(global, needs_auth).client # None
<1>1. \A b : build(b).error = None => build(b).client # None
  BY DEF build, Made, Failed
<1>2. \A v : Failed(v).error # None
  BY DEF Failed
<1>3. ASSUME NEW config, NEW files, build_config(config, files).error = None
      PROVE  build_config(config, files).client # None
  <2>1. \/ \E v : build_config(config, files) = Failed(v)
        \/ \E b : build_config(config, files) = build(b)
    BY DEF build_config
  <2> QED BY <1>1, <1>2, <1>3, <2>1
<1> QED BY <1>1, <1>2, <1>3 DEF client_for

(* A one-shot command that needs no credentials reads public data.         *)
LEMMA PublicVerbs ==
  ASSUME NEW verb, NEW w, ~needs_secrets(verb)
  PROVE  \A a \in adapt(verb, w) : a.command.op \in PublicOps
<1>1. verb \in {"public-order-book", "last-trades"}
  BY DEF needs_secrets
<1>2. adapt(verb, w) = market(verb, w)
  BY <1>1, Zenon DEF adapt, MarketVerbs
<1>3. \A a \in market(verb, w) : a.command.op \in {"PublicOrderBook", "LastTrades"}
  BY <1>1 DEF market, run, Action
<1> QED BY <1>2, <1>3 DEF PublicOps

LEMMA CredentialsStart ==
  Init => CInv
BY DEF Init, CInv, ClientHolds, HasClient, AllGenuine, NoneUnattributed, NoneBlames, Busy

(* An ask through a client that is kept.                                   *)
LEMMA KeptAsk ==
  ASSUME TInv, CInv, HoldsAccount, setup.surface # "oneshot", UNCHANGED client,
         NEW entry, NEW action, NEW approved, Ask(entry, action, approved),
         NEW outcome, told' = Append(told, outcome), ~Blames(outcome)
  PROVE  CInv'
<1>1. pc = "Idle" /\ UNCHANGED <<setup, network, answers>>
  BY DEF Ask
<1>2. ClientHolds' /\ HasClient' /\ AllGenuine' /\ NoneUnattributed'
  BY <1>1 DEF CInv, ClientHolds, HasClient, AllGenuine, NoneUnattributed
<1>3. NoneBlames'
  BY ToldOneMore DEF TInv, CInv
<1> QED BY <1>2, <1>3 DEF CInv

LEMMA OneShotCredentials ==
  ASSUME TInv, CInv, HoldsAccount, OneShot
  PROVE  CInv'
<1>1. PICK entry \in Inputs.words :
        LET made   == client_for(setup, needs_secrets(entry[1]))
            action == adapt(entry[1], entry[2])
        IN /\ Ask(entry, action, Confirmed(action))
           /\ client' = made.client
           /\ \/ \E e \in made.error : Refused(e.variant)
              \/ made.error = None /\ action = None /\ Refused("Usage")
              \/ made.error = None /\ NeedsConfirming(action) /\ Refused("Unconfirmed")
              \/ made.error = None /\ action # None /\ ~NeedsConfirming(action) /\ Accepted("Ready")
  BY DEF OneShot
<1> DEFINE made   == client_for(setup, needs_secrets(entry[1]))
           action == adapt(entry[1], entry[2])
<1>2. UNCHANGED <<setup, network, answers>> /\ setup \in Setups /\ setup.surface = "oneshot"
      /\ asks' = Append(asks, [entered |-> TRUE, command |-> {a.command : a \in action},
                               approved |-> Confirmed(action)])
  BY <1>1 DEF Ask, OneShot, TInv, IInv
<1>3. asks'[Len(asks')].command = {a.command : a \in action}
  <2> DEFINE ask == [entered |-> TRUE, command |-> {a.command : a \in action}, approved |-> Confirmed(action)]
  <2>1. ask.command = {a.command : a \in action}
    OBVIOUS
  <2>2. asks \in Seq(Asks)
    BY DEF TInv, IInv
  <2>3. asks' = Append(asks, ask)
    BY <1>2
  <2> HIDE DEF ask
  <2>4. asks'[Len(asks')] = ask
    BY <2>2, <2>3
  <2> QED BY <2>1, <2>4
<1> DEFINE Fine ==
             /\ \A e \in made.error : e.variant \in {"Configuration", "Key"}
             /\ (\A c \in made.client : c.signer = Some(Account)) \/ (\A a \in action : a.command.op \in PublicOps)
<1>4. ASSUME needs_secrets(entry[1]) PROVE Fine
  <2>1. made = client_for(setup, TRUE)
    BY <1>4 DEF needs_secrets
  <2> QED BY <1>2, <2>1, HolderSigns
<1>5. ASSUME ~needs_secrets(entry[1]) PROVE Fine
  <2>1. \A e \in made.error : e.variant \in {"Configuration", "Key"}
    <3>1. made = build([builder EXCEPT !.environment = Some(environment(setup))])
      BY <1>5 DEF client_for
    <3> QED BY <3>1, Built
  <2>2. \A a \in action : a.command.op \in PublicOps
    BY <1>5, PublicVerbs
  <2> QED BY <2>1, <2>2
<1>6. Fine
  BY <1>4, <1>5
<1>7. PICK outcome : /\ told' = Append(told, outcome) /\ ~Blames(outcome)
                     /\ pc' = "Idle" \/ (pc' = "Ready" /\ made.error = None)
  BY <1>1, <1>6, OpenIsBlameless DEF Refused, Accepted
<1>8. made.error = None => made.client # None
  BY ClientOrError
<1>9. client' = made.client
  BY <1>1
<1> HIDE DEF made, action
<1>10. ClientHolds'
  BY <1>2, <1>3, <1>6, <1>9 DEF ClientHolds, Current
<1>11. HasClient'
  BY <1>2, <1>7, <1>8, <1>9 DEF HasClient, Busy
<1>12. NoneBlames'
  BY <1>7, ToldOneMore DEF TInv, CInv
<1>13. AllGenuine' /\ NoneUnattributed'
  BY <1>2 DEF CInv, AllGenuine, NoneUnattributed
<1> QED BY <1>10, <1>11, <1>12, <1>13 DEF CInv

LEMMA UserCredentials ==
  ASSUME TInv, CInv, HoldsAccount, User
  PROVE  CInv'
<1>1. CASE OneShot
  BY <1>1, OneShotCredentials
<1>2. CASE ShellLine
  <2>1. PICK entry, action, outcome :
          /\ Ask(entry, action, Confirmed(action)) /\ told' = Append(told, outcome)
          /\ outcome \in {Error("Usage"), Error("AccessDenied"), Open}
    BY <1>2 DEF ShellLine, Refused, Accepted
  <2> QED BY <1>2, <2>1, KeptAsk, OpenIsBlameless DEF ShellLine
<1>3. CASE ToolCall
  <2>1. PICK entry, action, outcome :
          /\ Ask(entry, action, permits(setup.access, Trading)) /\ told' = Append(told, outcome)
          /\ outcome \in {Error("Usage"), Open}
    BY <1>3 DEF ToolCall, Refused, Accepted
  <2> QED BY <1>3, <2>1, KeptAsk, OpenIsBlameless DEF ToolCall
<1>4. CASE LibraryCall
  <2>1. PICK entry, action : Ask(entry, action, TRUE) /\ told' = Append(told, Open)
    BY <1>4 DEF LibraryCall, Accepted
  <2> QED BY <1>4, <2>1, KeptAsk, OpenIsBlameless DEF LibraryCall
<1>5. ASSUME NEW yes \in BOOLEAN, Confirm(yes) PROVE CInv'
  <2>1. NoneBlames'
    <3>1. told' = [told EXCEPT ![Current] = IF yes THEN Open ELSE Error("Cancelled")]
      BY <1>5 DEF Confirm
    <3>2. ~Blames(IF yes THEN Open ELSE Error("Cancelled"))
      BY OpenIsBlameless
    <3> QED BY <3>1, <3>2, ToldOneMore DEF TInv, CInv
  <2>2. /\ Current' = Current /\ \A n \in DOMAIN asks : asks'[n].command = asks[n].command
        /\ Current \in DOMAIN asks
    <3>1. asks \in Seq(Asks) /\ asks # <<>>
      BY <1>5 DEF TInv, IInv, BusyWithPermitted, Busy, Confirm
    <3>2. asks' = [asks EXCEPT ![Current].approved = yes] /\ Current \in DOMAIN asks
      BY <1>5, <3>1 DEF Confirm, Current
    <3>3. \A n \in DOMAIN asks : asks[n] \in Asks
      BY <3>1
    <3>4. \A n \in DOMAIN asks : asks'[n].command = asks[n].command
      BY <3>2, <3>3 DEF Asks
    <3>5. Len(asks') = Len(asks)
      BY <3>1, <3>2
    <3> QED BY <3>2, <3>4, <3>5 DEF Current
  <2>3. UNCHANGED <<setup, client, network, answers>> /\ Busy
    BY <1>5 DEF Confirm, Busy
  <2>4. asks'[Current'].command = asks[Current].command
    BY <2>2
  <2>5. ClientHolds'
    BY <2>3, <2>4 DEF CInv, ClientHolds
  <2>6. HasClient' /\ AllGenuine' /\ NoneUnattributed'
    BY <2>3 DEF CInv, HasClient, AllGenuine, NoneUnattributed
  <2> QED BY <2>1, <2>5, <2>6 DEF CInv
<1> QED BY <1>1, <1>2, <1>3, <1>4, <1>5 DEF User

LEMMA CommandAsked ==
  ASSUME TInv, Busy
  PROVE  Command \in asks[Current].command /\ WellTyped(Command)
<1>1. asks[Current].command # {} /\ Current \in DOMAIN asks
  <2>1. asks \in Seq(Asks) /\ asks # <<>>
    BY DEF TInv, IInv, BusyWithPermitted
  <2>2. Len(asks) \in DOMAIN asks
    BY <2>1
  <2> QED BY <2>2 DEF TInv, IInv, BusyWithPermitted, Current
<1>2. Meaning(asks[Current].command)
  BY <1>1 DEF TInv, IInv, AsksMean
<1> QED BY <1>1, <1>2 DEF Command, Meaning

(* Only a request that needs no signature has a client without the         *)
(* account's key, so no request of who holds the account is refused for    *)
(* its credentials.                                                        *)
LEMMA HolderSends ==
  ASSUME TInv, CInv, HoldsAccount, Busy
  PROVE  /\ \/ Requested.requires_auth = TRUE /\ \A c \in client : c.signer = {Account}
            \/ Requested.requires_auth = FALSE /\ Place(Requested.path) = "public"
         /\ \A e \in Unsendable : e = Error("InvalidRequest")
<1>1. Command \in asks[Current].command /\ WellTyped(Command)
  BY CommandAsked
<1>2. CASE Command.op \in PublicOps
  <2>1. Requested.requires_auth = FALSE /\ Place(Requested.path) = "public"
    BY <1>1, <1>2, PublicRequests DEF Requested
  <2> QED BY <2>1 DEF Unsendable, SendError
<1>3. CASE Command.op \notin PublicOps
  <2>1. Requested.requires_auth = TRUE
    BY <1>1, <1>3, OtherOpsSign DEF Requested
  <2>2. \A c \in client : c.signer = {Account}
    BY <1>1, <1>3 DEF CInv, ClientHolds
  <2>3. Signers = {Account}
    BY <2>2 DEF CInv, HasClient, Signers
  <2>4. UNION {SigningError(signer) : signer \in Signers} = None
    BY <2>3, AccountSigns
  <2> QED BY <2>1, <2>2, <2>3, <2>4 DEF Unsendable, SendError
<1> QED BY <1>2, <1>3

LEMMA ReportCredentials ==
  ASSUME TInv, CInv, HoldsAccount, pc \in {"Ready", "Sent"}, NEW outcome, ~Blames(outcome),
         Report(outcome), network' \subseteq network
  PROVE  CInv'
<1>1. NoneBlames'
  <2>1. told' = [told EXCEPT ![Current] = IF watching THEN Open ELSE outcome]
    BY DEF Report
  <2>2. ~Blames(IF watching THEN Open ELSE outcome)
    BY OpenIsBlameless
  <2> QED BY <2>1, <2>2, ToldOneMore DEF TInv, CInv
<1>2. UNCHANGED <<setup, client, asks>> /\ answers' = {} /\ Busy
      /\ pc' \in {"Paused", "Idle"}
  BY DEF Report, Busy
<1>3. ClientHolds' /\ HasClient'
  BY <1>2 DEF CInv, ClientHolds, HasClient, Current
<1>4. AllGenuine' /\ NoneUnattributed'
  BY <1>2 DEF CInv, AllGenuine, NoneUnattributed
<1> QED BY <1>1, <1>3, <1>4 DEF CInv

(* The signature is over exactly what is sent.                             *)
LEMMA SendCredentials ==
  ASSUME TInv, CInv, HoldsAccount, Send
  PROVE  CInv'
<1>1. /\ network' = network \union {[ask |-> Current, environment |-> c.environment,
                                     wire |-> Wire(Requested, c.signer)] : c \in client}
      /\ UNCHANGED <<setup, client, asks, told, answers>> /\ pc' = "Sent" /\ Busy
      /\ Unsendable = None
  BY DEF Send, Busy
<1>2. UrlPath(Requested.path) = Requested.path
      /\ UrlQuery(build_query(Requested.query)) = build_query(Requested.query)
  <2>1. SendError(Requested, Signers) = None
    BY <1>1 DEF Unsendable
  <2> QED BY <2>1 DEF SendError, UrlSafe
<1>3. ASSUME NEW c \in client
      PROVE  Genuine(Wire(Requested, c.signer))
  <2> DEFINE w == Wire(Requested, c.signer)
  <2>1. CASE Requested.requires_auth = TRUE /\ c.signer = {Account}
    <3>1. w.signature = {authenticate(Account, MessageOf(Requested))}
      BY <2>1 DEF Wire
    <3>2. MessageOf(Requested) = Covered(w)
      BY <1>2 DEF MessageOf, Covered, Wire
    <3> QED BY <3>1, <3>2 DEF Genuine, authenticate
  <2>2. CASE Place(Requested.path) = "public"
    BY <1>2, <2>2 DEF Genuine, Wire
  <2> QED BY <1>1, <2>1, <2>2, HolderSends
<1>4. AllGenuine'
  BY <1>1, <1>3 DEF CInv, AllGenuine
<1>5. ClientHolds' /\ HasClient'
  BY <1>1 DEF CInv, ClientHolds, HasClient, Current
<1>6. NoneUnattributed' /\ NoneBlames'
  BY <1>1 DEF CInv, NoneUnattributed, NoneBlames
<1> QED BY <1>4, <1>5, <1>6 DEF CInv

LEMMA ProcessCredentials ==
  ASSUME TInv, CInv, HoldsAccount, Process
  PROVE  CInv'
<1>1. CASE OpenFails
  BY <1>1 DEF OpenFails, CInv, ClientHolds, HasClient, AllGenuine, NoneUnattributed, NoneBlames, Busy
<1>2. CASE OpenShell \/ OpenOther
  <2>1. /\ client' = KeptClient.client /\ client' # {} /\ UNCHANGED <<setup, network, answers>>
        /\ setup \in Setups
    BY <1>2 DEF OpenShell, OpenOther, TInv, IInv
  <2>2. ClientHolds' /\ HasClient'
    BY <2>1, HolderKeeps DEF ClientHolds, HasClient
  <2>3. NoneBlames'
    BY <1>2, ToldOneMore, OpenIsBlameless DEF OpenShell, OpenOther, TInv, CInv, NoneBlames
  <2>4. AllGenuine' /\ NoneUnattributed'
    BY <2>1 DEF CInv, AllGenuine, NoneUnattributed
  <2> QED BY <2>2, <2>3, <2>4 DEF CInv
<1>3. CASE ExecuteFails
  <2>1. Busy /\ pc = "Ready" /\ network' = network
    BY <1>3 DEF ExecuteFails, Busy
  <2>2. PICK outcome \in {Error("InvalidRequest"), Error("Agent")} : Report(outcome)
    BY <1>3, <2>1, HolderSends DEF ExecuteFails, Executor
  <2> QED BY <2>1, <2>2, ReportCredentials, OpenIsBlameless
<1>4. CASE Send
  BY <1>4, SendCredentials
<1>5. CASE Receive
  <2>1. PICK answer \in answers : Report(Result(answer))
    BY <1>5 DEF Receive
  <2>2. ~Blames(Result(answer))
    BY Blameless DEF Result, CInv, NoneUnattributed
  <2> QED BY <1>5, <2>1, <2>2, ReportCredentials DEF Receive, Waiting
<1>6. CASE GiveUp
  <2>1. ~Blames(Executor(Error("Transport"))) /\ network' \subseteq network
    BY <1>6, OpenIsBlameless DEF Executor, GiveUp, Forgotten
  <2> QED BY <1>6, <2>1, ReportCredentials DEF GiveUp, TimesOut, Waiting
<1>7. CASE AgentLost
  <2>1. network' \subseteq network
    BY <1>7 DEF AgentLost, Forgotten
  <2> QED BY <1>7, <2>1, ReportCredentials, OpenIsBlameless DEF AgentLost
<1>8. CASE Poll
  <2>1. Busy /\ UNCHANGED <<setup, client, asks, told, network, answers>> /\ pc' = "Ready"
    BY <1>8 DEF Poll, Busy
  <2>2. ClientHolds' /\ HasClient'
    BY <2>1 DEF CInv, ClientHolds, HasClient, Current
  <2> QED BY <2>1, <2>2 DEF CInv, AllGenuine, NoneUnattributed, NoneBlames
<1>9. CASE EnterPressed
  <2>1. /\ Busy /\ UNCHANGED <<setup, client, asks>> /\ pc' = "Idle" /\ answers' = {}
        /\ network' \subseteq network /\ told' = [told EXCEPT ![Current] = Error("Stopped")]
    BY <1>9 DEF EnterPressed, Forgotten, Busy
  <2>2. ClientHolds' /\ HasClient'
    BY <2>1 DEF CInv, ClientHolds, HasClient, Busy
  <2>3. NoneBlames'
    BY <2>1, ToldOneMore, OpenIsBlameless DEF TInv, CInv
  <2> QED BY <2>1, <2>2, <2>3 DEF CInv, AllGenuine, NoneUnattributed
<1> QED BY <1>1, <1>2, <1>3, <1>4, <1>5, <1>6, <1>7, <1>8, <1>9 DEF Process

(* The exchange turns a genuine request down for other reasons only.       *)
LEMMA ExchangeCredentials ==
  ASSUME TInv, CInv, HoldsAccount, Exchange
  PROVE  CInv'
<1>1. PICK m \in network :
        ExchangeRefuses(m) \/ ExchangeAnswers(m) \/ ExchangeTakes(m) \/ ExchangeBreaks(m) \/ Lose(m)
  BY DEF Exchange
<1>2. Genuine(m.wire)
  BY DEF CInv, AllGenuine
<1>3. \/ \E answer \in Refusals \union Successes \union {Breakdown} : Respond(m, answer)
      \/ Lose(m)
  BY <1>1, <1>2 DEF ExchangeRefuses, ExchangeAnswers, ExchangeTakes, ExchangeBreaks
<1>4. \A answer \in Refusals \union Successes \union {Breakdown} : answer.status \notin {401, 403}
  BY DEF Refusals, Successes, Breakdown, Answer
<1>5. /\ UNCHANGED <<setup, client, pc, asks, told>> /\ network' \subseteq network
      /\ \A answer \in answers' : answer \in answers \/ answer.status \notin {401, 403}
  BY <1>3, <1>4 DEF Respond, Lose
<1>6. ClientHolds' /\ HasClient'
  BY <1>5 DEF CInv, ClientHolds, HasClient, Busy, Current
<1>7. AllGenuine' /\ NoneUnattributed' /\ NoneBlames'
  BY <1>5 DEF CInv, AllGenuine, NoneUnattributed, NoneBlames
<1> QED BY <1>6, <1>7 DEF CInv

LEMMA CredentialsKept ==
  ASSUME TInv, CInv, [Next]_vars
  PROVE  CInv'
<1>1. setup' = setup
  BY DEF Next, vars, User, OneShot, ShellLine, ToolCall, LibraryCall, Confirm, Ask, Process, OpenFails,
         OpenShell, OpenOther, ExecuteFails, Send, Receive, GiveUp, AgentLost, Poll, EnterPressed, Report,
         Exchange, ExchangeRefuses, ExchangeAnswers, ExchangeTakes, ExchangeBreaks, Lose, Respond
<1>2. HoldsAccount' <=> HoldsAccount
  BY <1>1 DEF HoldsAccount
<1> SUFFICES ASSUME HoldsAccount PROVE CInv'
  BY <1>2 DEF CInv
<1>3. CASE User
  BY <1>3, UserCredentials
<1>4. CASE Process
  BY <1>4, ProcessCredentials
<1>5. CASE Exchange
  BY <1>5, ExchangeCredentials
<1>6. CASE UNCHANGED vars
  BY <1>6 DEF vars, CInv, ClientHolds, HasClient, AllGenuine, NoneUnattributed, NoneBlames, Busy, Current
<1> QED BY <1>3, <1>4, <1>5, <1>6 DEF Next

(* Who holds the account's credentials where the installation looks for    *)
(* them is never told that they are missing or wrong, on any surface and   *)
(* for any input: every request that needs one carries a signature over    *)
(* exactly what is sent.                                                   *)
THEOREM HoldersAreServed == Spec => []GoodCredentialsSuffice
<1>1. Init => TInv /\ CInv
  BY TypesStart, CredentialsStart
<1>2. TInv /\ CInv /\ [Next]_vars => (TInv /\ CInv)'
  BY TypesKept, CredentialsKept
<1>3. TInv /\ CInv => GoodCredentialsSuffice
  BY DEF CInv, NoneBlames, Blames, GoodCredentialsSuffice
<1> QED BY <1>1, <1>2, <1>3, PTL DEF Spec

-----------------------------------------------------------------------------
(* What a tool call says is in its command.                                *)

(* Each parser tells an argument that says something from one that is not  *)
(* there.                                                                  *)
LEMMA ParsersHear ==
  ASSUME NEW args, NEW key \in DOMAIN args,
         args[key] = <<args[key][1], args[key][2]>>, ~SaysNothing(args[key])
  PROVE  LET left == Without(args, key)
         IN /\ req_str(left, key) = {} /\ req_decimal(left, key) = {}
            /\ opt_str(left, key) \intersect opt_str(args, key) = {}
            /\ opt_i64(left, key) \intersect opt_i64(args, key) = {}
            /\ opt_u32(left, key) \intersect opt_u32(args, key) = {}
            /\ opt_bool(left, key) \intersect opt_bool(args, key) = {}
            /\ opt_str_vec(left, key) \intersect opt_str_vec(args, key) = {}
            /\ opt_decimal(left, key) \intersect opt_decimal(args, key) = {}
<1> DEFINE left == Without(args, key)
           value == args[key]
<1>1. key \notin DOMAIN left
  BY DEF Without
<1>2. value # Null /\ value # <<"boolean", FALSE>> /\ value # <<"strings", <<>>>>
  BY DEF SaysNothing, Null, Boolean, Strings
<1>3. ASSUME NEW type
      PROVE  Typed(left, key, type) = {} /\ Typed(args, key, type) \subseteq {value[2]}
             /\ (Typed(args, key, type) # {} => value[1] = type)
  BY <1>1 DEF Typed
<1>4. ASSUME NEW values
      PROVE  /\ Optional(left, key, values) = {{}}
             /\ Optional(args, key, values) = {{v} : v \in values}
  BY <1>1, <1>2 DEF Optional
<1> HIDE DEF left
<1>5. req_str(left, key) = {} /\ req_decimal(left, key) = {}
  BY <1>3 DEF req_str, req_decimal
<1>6. ASSUME NEW values, NEW other
      PROVE  Optional(left, key, other) \intersect Optional(args, key, values) = {}
  BY <1>4
<1>7. /\ opt_str(left, key) \intersect opt_str(args, key) = {}
      /\ opt_i64(left, key) \intersect opt_i64(args, key) = {}
      /\ opt_u32(left, key) \intersect opt_u32(args, key) = {}
      /\ opt_decimal(left, key) \intersect opt_decimal(args, key) = {}
  BY <1>6 DEF opt_str, opt_i64, opt_u32, opt_decimal
<1>8. ASSUME NEW default, NEW type, <<type, default>> # value
      PROVE  {OrElse(v, default) : v \in Optional(left, key, Typed(left, key, type))}
               \intersect {OrElse(v, default) : v \in Optional(args, key, Typed(args, key, type))} = {}
  <2>1. {OrElse(v, default) : v \in Optional(left, key, Typed(left, key, type))} = {default}
    BY <1>4 DEF OrElse
  <2>2. \A v \in Typed(args, key, type) : OrElse({v}, default) = v
    BY DEF OrElse
  <2>3. default \notin Typed(args, key, type)
    BY <1>3, <1>8
  <2> QED BY <1>4, <2>1, <2>2, <2>3
<1>9. /\ opt_bool(left, key) \intersect opt_bool(args, key) = {}
      /\ opt_str_vec(left, key) \intersect opt_str_vec(args, key) = {}
  BY <1>2, <1>8 DEF opt_bool, opt_str_vec
<1> QED BY <1>5, <1>7, <1>9 DEF left

LEMMA SpecialParsersHear ==
  ASSUME NEW args, NEW key \in DOMAIN args,
         args[key] = <<args[key][1], args[key][2]>>, ~SaysNothing(args[key])
  PROVE  LET left == Without(args, key)
         IN /\ key = "side" => req_side(left) = {}
            /\ key = "side" => opt_side(left) \intersect opt_side(args) = {}
            /\ key = "client_order_id" => opt_client_order_id(left) \intersect opt_client_order_id(args) = {}
            /\ key = "interval_minutes" => opt_candle_interval(left) \intersect opt_candle_interval(args) = {}
<1> DEFINE left == Without(args, key)
<1>1. key \notin DOMAIN left
  BY DEF Without
<1> HIDE DEF left
<1>2. key = "side" => req_side(left) = {} /\ opt_side(left) \intersect opt_side(args) = {}
  <2> SUFFICES ASSUME key = "side" PROVE req_side(left) = {} /\ opt_side(left) \intersect opt_side(args) = {}
    OBVIOUS
  <2>1. req_str(left, "side") = {}
    BY ParsersHear DEF left
  <2>2. opt_side(left) = {{}} /\ opt_side(args) = {{side} : side \in req_side(args)}
    BY <1>1 DEF opt_side
  <2> QED BY <2>1, <2>2 DEF req_side
<1>3. key = "client_order_id" => opt_client_order_id(left) \intersect opt_client_order_id(args) = {}
  BY ParsersHear DEF opt_client_order_id, left
<1>4. key = "interval_minutes" => opt_candle_interval(left) \intersect opt_candle_interval(args) = {}
  BY ParsersHear DEF opt_candle_interval, left
<1> QED BY <1>2, <1>3, <1>4 DEF left

(* What a command has of its call, tool by tool.                           *)
HasDates(query, args) ==
  /\ query.start_date \in opt_i64(args, "start_date")
  /\ query.end_date \in opt_i64(args, "end_date")
  /\ query.cursor \in opt_str(args, "cursor")
  /\ query.limit \in opt_u32(args, "limit")

HasOrder(command, args) ==
  /\ command.in_quote \in opt_bool(args, "size_in_quote")
  /\ command.client_order_id \in opt_client_order_id(args)

HasRequest(command, args) ==
  /\ command.symbol \in req_str(args, "symbol")
  /\ command.side \in req_side(args)
  /\ command.size \in req_decimal(args, "size")

HasArguments(command, name, args) ==
  /\ name \in DOMAIN ById => command.id \in req_str(args, "order_id")
  /\ name \in DOMAIN Trades => command.symbol \in req_str(args, "symbol") /\ HasDates(command.query, args)
  /\ name = "get_tickers" => command.symbols \in opt_str_vec(args, "symbols")
  /\ name \in {"get_order_book", "get_public_order_book", "get_candles"} =>
       command.symbol \in req_str(args, "symbol")
  /\ name = "get_order_book" => command.limit \in opt_u32(args, "limit")
  /\ name = "get_candles" =>
       /\ command.query.interval \in opt_candle_interval(args)
       /\ command.query.since \in opt_i64(args, "since")
       /\ command.query.until \in opt_i64(args, "until")
  /\ name \in {"get_active_orders", "get_historical_orders"} =>
       command.query.symbols \in opt_str_vec(args, "symbols")
  /\ name = "get_active_orders" =>
       /\ command.query.side \in opt_side(args)
       /\ command.query.cursor \in opt_str(args, "cursor")
       /\ command.query.limit \in opt_u32(args, "limit")
  /\ name = "get_historical_orders" => HasDates(command.query, args)
  /\ name \in {"place_limit_order", "place_market_order"} => HasRequest(command, args)
  /\ name \in {"place_limit_order", "place_market_order", "replace_order"} => HasOrder(command, args)
  /\ name \in {"place_limit_order", "replace_order"} => command.post_only \in opt_bool(args, "post_only")
  /\ name = "place_limit_order" => command.price \in req_decimal(args, "price")
  /\ name = "replace_order" =>
       /\ command.id \in req_str(args, "order_id")
       /\ command.size \in opt_decimal(args, "size")
       /\ command.price \in opt_decimal(args, "price")

LEMMA ToolNames ==
  /\ DOMAIN Plain = {"get_balances", "get_currencies", "get_pairs", "get_last_trades", "cancel_all_orders"}
  /\ DOMAIN ById = {"get_order", "get_order_fills", "cancel_order"}
  /\ DOMAIN Trades = {"get_all_trades", "get_private_trades"}
  /\ DOMAIN Various = {"get_tickers", "get_order_book", "get_public_order_book", "get_candles",
                       "get_active_orders", "get_historical_orders", "place_limit_order",
                       "place_market_order", "replace_order"}
BY DEF Plain, ById, Trades, Various

LEMMA DatesCarried ==
  ASSUME NEW args, NEW query \in trades_query(args)
  PROVE  HasDates(query, args)
BY DEF trades_query, HasDates

LEMMA CommandsHaveArguments ==
  ASSUME NEW name, NEW args, NEW command \in to_command(name, args)
  PROVE  name \in DOMAIN Tools /\ HasArguments(command, name, args)
<1> DEFINE goal == name \in DOMAIN Tools /\ HasArguments(command, name, args)
<1>1. DOMAIN Tools = UNION {DOMAIN Plain, DOMAIN ById, DOMAIN Trades, DOMAIN Various}
  BY DEF Tools
<1>2. CASE name \in DOMAIN Plain
  BY <1>1, <1>2, ToolNames DEF HasArguments
<1>3. CASE name \in DOMAIN ById
  <2>1. command \in {[op |-> ById[name], id |-> id] : id \in req_str(args, "order_id")}
    BY <1>3, ToolNames DEF to_command
  <2> QED BY <1>1, <1>3, <2>1, ToolNames DEF HasArguments
<1>4. CASE name \in DOMAIN Trades
  <2>1. PICK symbol \in req_str(args, "symbol"), query \in trades_query(args) :
          command = [op |-> Trades[name], symbol |-> symbol, query |-> query]
    BY <1>4, ToolNames DEF to_command
  <2> QED BY <1>1, <1>4, <2>1, ToolNames, DatesCarried DEF HasArguments
<1>5. CASE name = "get_tickers"
  <2>1. command \in {[op |-> "Tickers", symbols |-> symbols] : symbols \in opt_str_vec(args, "symbols")}
    BY <1>5, ToolNames DEF to_command
  <2> QED BY <1>1, <1>5, <2>1, ToolNames DEF HasArguments
<1>6. CASE name = "get_order_book"
  <2>1. PICK symbol \in req_str(args, "symbol"), limit \in opt_u32(args, "limit") :
          command = [op |-> "OrderBook", symbol |-> symbol, limit |-> limit]
    BY <1>6, ToolNames DEF to_command
  <2> QED BY <1>1, <1>6, <2>1, ToolNames DEF HasArguments
<1>7. CASE name = "get_public_order_book"
  <2>1. PICK symbol \in req_str(args, "symbol") : command = [op |-> "PublicOrderBook", symbol |-> symbol]
    BY <1>7, ToolNames DEF to_command
  <2> QED BY <1>1, <1>7, <2>1, ToolNames DEF HasArguments
<1>8. CASE name = "get_candles"
  <2>1. PICK symbol \in req_str(args, "symbol"), query \in candles_query(args) :
          command = [op |-> "Candles", symbol |-> symbol, query |-> query]
    BY <1>8, ToolNames DEF to_command
  <2>2. /\ query.interval \in opt_candle_interval(args) /\ query.since \in opt_i64(args, "since")
        /\ query.until \in opt_i64(args, "until")
    BY DEF candles_query
  <2> QED BY <1>1, <1>8, <2>1, <2>2, ToolNames DEF HasArguments
<1>9. CASE name = "get_active_orders"
  <2>1. PICK query \in active_query(args) : command = [op |-> "ActiveOrders", query |-> query]
    BY <1>9, ToolNames DEF to_command
  <2>2. /\ query.symbols \in opt_str_vec(args, "symbols") /\ query.side \in opt_side(args)
        /\ query.cursor \in opt_str(args, "cursor") /\ query.limit \in opt_u32(args, "limit")
    BY DEF active_query
  <2> QED BY <1>1, <1>9, <2>1, <2>2, ToolNames DEF HasArguments
<1>10. CASE name = "get_historical_orders"
  <2>1. PICK query \in historical_query(args) : command = [op |-> "HistoricalOrders", query |-> query]
    BY <1>10, ToolNames DEF to_command
  <2>2. PICK symbols \in opt_str_vec(args, "symbols"), dated \in trades_query(args) :
          query = [symbols |-> symbols, order_states |-> <<>>, order_types |-> <<>>,
                   start_date |-> dated.start_date, end_date |-> dated.end_date,
                   cursor |-> dated.cursor, limit |-> dated.limit]
    BY DEF historical_query
  <2>3. HasDates(query, args) /\ query.symbols = symbols
    BY <2>2, DatesCarried DEF HasDates
  <2> QED BY <1>1, <1>10, <2>1, <2>3, ToolNames DEF HasArguments
<1>11. CASE name = "place_limit_order"
  <2>1. command \in limit_order(args)
    BY <1>11, ToolNames DEF to_command
  <2>2. HasRequest(command, args) /\ HasOrder(command, args)
    BY <2>1 DEF limit_order, HasRequest, HasOrder
  <2>3. command.post_only \in opt_bool(args, "post_only") /\ command.price \in req_decimal(args, "price")
    BY <2>1 DEF limit_order
  <2> QED BY <1>1, <1>11, <2>2, <2>3, ToolNames DEF HasArguments
<1>12. CASE name = "place_market_order"
  <2>1. command \in market_order(args)
    BY <1>12, ToolNames DEF to_command
  <2>2. HasRequest(command, args) /\ HasOrder(command, args)
    BY <2>1 DEF market_order, HasRequest, HasOrder
  <2> QED BY <1>1, <1>12, <2>2, ToolNames DEF HasArguments
<1>13. CASE name = "replace_order"
  <2>1. command \in replacement(args)
    BY <1>13, ToolNames DEF to_command
  <2>2. /\ HasOrder(command, args) /\ command.post_only \in opt_bool(args, "post_only")
        /\ command.id \in req_str(args, "order_id")
        /\ command.size \in opt_decimal(args, "size") /\ command.price \in opt_decimal(args, "price")
    BY <2>1 DEF replacement, HasOrder
  <2> QED BY <1>1, <1>13, <2>2, ToolNames DEF HasArguments
<1>14. CASE name \notin UNION {DOMAIN Plain, DOMAIN ById, DOMAIN Trades, DOMAIN Various}
  <2>1. to_command(name, args) = {}
    BY <1>14, ToolNames DEF to_command
  <2> QED BY <2>1
<1> QED BY <1>2, <1>3, <1>4, <1>5, <1>6, <1>7, <1>8, <1>9, <1>10, <1>11, <1>12, <1>13, <1>14, ToolNames

(* No argument that the catalog lists and that says something may be left  *)
(* out of a call without the command becoming another.                     *)
LEMMA ArgumentsMatter ==
  ASSUME NEW name, NEW args, NEW key \in DOMAIN args \intersect DOMAIN Tools[name].properties,
         args[key] = <<args[key][1], args[key][2]>>, ~SaysNothing(args[key]),
         NEW command \in to_command(name, args)
  PROVE  command \notin to_command(name, Without(args, key))
<1> DEFINE left == Without(args, key)
           properties == DOMAIN Tools[name].properties
<1> SUFFICES ASSUME command \in to_command(name, left) PROVE FALSE
  OBVIOUS
<1>1. /\ name \in DOMAIN Tools
      /\ HasArguments(command, name, args) /\ HasArguments(command, name, left)
  BY CommandsHaveArguments
<1>2. /\ req_str(left, key) = {} /\ req_decimal(left, key) = {}
      /\ opt_str(left, key) \intersect opt_str(args, key) = {}
      /\ opt_i64(left, key) \intersect opt_i64(args, key) = {}
      /\ opt_u32(left, key) \intersect opt_u32(args, key) = {}
      /\ opt_bool(left, key) \intersect opt_bool(args, key) = {}
      /\ opt_str_vec(left, key) \intersect opt_str_vec(args, key) = {}
      /\ opt_decimal(left, key) \intersect opt_decimal(args, key) = {}
  BY ParsersHear
<1>3. /\ key = "side" => req_side(left) = {} /\ opt_side(left) \intersect opt_side(args) = {}
      /\ key = "client_order_id" => opt_client_order_id(left) \intersect opt_client_order_id(args) = {}
      /\ key = "interval_minutes" => opt_candle_interval(left) \intersect opt_candle_interval(args) = {}
  BY SpecialParsersHear
<1>4. /\ name \in DOMAIN Plain => properties = {}
      /\ name \in DOMAIN ById => properties = {"order_id"}
      /\ name \in DOMAIN Trades => properties = {"symbol", "start_date", "end_date", "cursor", "limit"}
      /\ name \in DOMAIN Various => properties = DOMAIN Various[name].properties
  BY <1>1, ToolNames DEF Tools, Schema, NoArguments, order_id_schema, trades_schema
<1>5. /\ name = "get_tickers" => properties = {"symbols"}
      /\ name = "get_order_book" => properties = {"symbol", "limit"}
      /\ name = "get_public_order_book" => properties = {"symbol"}
      /\ name = "get_candles" => properties = {"symbol", "interval_minutes", "since", "until"}
      /\ name = "get_active_orders" => properties = {"symbols", "side", "cursor", "limit"}
      /\ name = "get_historical_orders" =>
           properties = {"symbols", "start_date", "end_date", "cursor", "limit"}
      /\ name = "place_limit_order" =>
           properties = {"symbol", "side", "size", "price", "size_in_quote", "post_only", "client_order_id"}
      /\ name = "place_market_order" =>
           properties = {"symbol", "side", "size", "size_in_quote", "client_order_id"}
      /\ name = "replace_order" =>
           properties = {"order_id", "size", "price", "size_in_quote", "post_only", "client_order_id"}
  BY <1>4, ToolNames DEF Various, Schema, symbol_schema
<1>6. key \in properties
  OBVIOUS
<1> HIDE DEF left, properties
<1>7. ASSUME NEW query, HasDates(query, args), HasDates(query, left)
      PROVE  key \notin {"start_date", "end_date", "cursor", "limit"}
  BY <1>2, <1>7 DEF HasDates
<1>8. CASE name \in DOMAIN Plain
  BY <1>4, <1>6, <1>8
<1>9. CASE name \in DOMAIN ById
  BY <1>1, <1>2, <1>4, <1>6, <1>9, ToolNames DEF HasArguments
<1>10. CASE name \in DOMAIN Trades
  BY <1>1, <1>2, <1>4, <1>6, <1>7, <1>10, ToolNames DEF HasArguments
<1>11. CASE name \in {"get_tickers", "get_order_book", "get_public_order_book"}
  BY <1>1, <1>2, <1>5, <1>6, <1>11, ToolNames DEF HasArguments
<1>12. CASE name = "get_candles"
  BY <1>1, <1>2, <1>3, <1>5, <1>6, <1>12, ToolNames DEF HasArguments
<1>13. CASE name = "get_active_orders"
  BY <1>1, <1>2, <1>3, <1>5, <1>6, <1>13, ToolNames DEF HasArguments
<1>14. CASE name = "get_historical_orders"
  BY <1>1, <1>2, <1>5, <1>6, <1>7, <1>14, ToolNames DEF HasArguments
<1>15. CASE name \in {"place_limit_order", "place_market_order"}
  <2>1. HasRequest(command, left) /\ HasOrder(command, args) /\ HasOrder(command, left)
    BY <1>1, <1>15 DEF HasArguments
  <2>2. key \notin {"symbol", "side", "size", "size_in_quote", "client_order_id"}
    BY <1>2, <1>3, <2>1 DEF HasRequest, HasOrder
  <2>3. CASE name = "place_limit_order"
    BY <1>1, <1>2, <1>5, <1>6, <2>2, <2>3 DEF HasArguments
  <2>4. CASE name = "place_market_order"
    BY <1>5, <1>6, <2>2, <2>4
  <2> QED BY <1>15, <2>3, <2>4
<1>16. CASE name = "replace_order"
  <2>1. HasOrder(command, args) /\ HasOrder(command, left)
    BY <1>1, <1>16 DEF HasArguments
  <2>2. key \notin {"size_in_quote", "client_order_id"}
    BY <1>2, <1>3, <2>1 DEF HasOrder
  <2> QED BY <1>1, <1>2, <1>5, <1>6, <1>16, <2>2 DEF HasArguments
<1>17. name \in UNION {DOMAIN Plain, DOMAIN ById, DOMAIN Trades, DOMAIN Various}
  BY <1>1 DEF Tools
<1> QED BY <1>8, <1>9, <1>10, <1>11, <1>12, <1>13, <1>14, <1>15, <1>16, <1>17, ToolNames

(* What the client of an MCP server entered is a call of a tool.           *)
Called == setup.surface = "mcp" => input \subseteq Inputs.calls

LEMMA CalledKept ==
  ASSUME Called, [Next]_vars
  PROVE  Called'
<1>1. CASE User
  BY <1>1 DEF User, OneShot, ShellLine, ToolCall, LibraryCall, Confirm, Ask, Called
<1>2. CASE Process
  BY <1>2 DEF Process, OpenFails, OpenShell, OpenOther, ExecuteFails, Send, Receive, GiveUp, AgentLost,
              Poll, EnterPressed, Report, Called
<1>3. CASE Exchange
  BY <1>3 DEF Exchange, ExchangeRefuses, ExchangeAnswers, ExchangeTakes, ExchangeBreaks, Lose, Respond, Called
<1>4. CASE UNCHANGED vars
  BY <1>4 DEF vars, Called
<1> QED BY <1>1, <1>2, <1>3, <1>4 DEF Next

(* An argument that the catalog lists, and that a call gives, is in the    *)
(* command the call becomes or makes it an error, for every tool and       *)
(* whatever values the arguments have: to_command never drops one quietly. *)
THEOREM NoArgumentDropped == Spec => []NothingDropped
<1>1. Init => Called
  BY DEF Init, Called
<1>2. Called /\ [Next]_vars => Called'
  BY CalledKept
<1>3. Called => NothingDropped
  <2> SUFFICES ASSUME Called, setup.surface = "mcp", NEW call \in input,
                      to_command(call[1], call[2]) # None,
                      NEW key \in DOMAIN call[2] \intersect DOMAIN Tools[call[1]].properties,
                      ~SaysNothing(call[2][key])
               PROVE  to_command(call[1], Without(call[2], key)) # to_command(call[1], call[2])
    BY DEF NothingDropped
  <2>1. call[2][key] = <<call[2][key][1], call[2][key][2]>>
    BY ArgumentsAssumption DEF Called
  <2>2. PICK command : command \in to_command(call[1], call[2])
    OBVIOUS
  <2>3. command \notin to_command(call[1], Without(call[2], key))
    BY <2>1, <2>2, ArgumentsMatter
  <2> QED BY <2>2, <2>3
<1> QED BY <1>1, <1>2, <1>3, PTL DEF Spec
=============================================================================
