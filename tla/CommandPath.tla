---------------------------- MODULE CommandPath ----------------------------
(***************************************************************************)
(* A command from a user's input to the exchange and back, on every        *)
(* surface: a one-shot command line, the interactive shell, a tool call of *)
(* the MCP server through the signing agent, and a program on the SDK.     *)
(* Commands, Surfaces, Requests and Credentials have what each step makes  *)
(* of the data; this module has the steps, the gates between them, and a   *)
(* network that may lose, delay, or fail to confirm anything.              *)
(*                                                                         *)
(* The exchange is the environment, as the SDK uses it: it checks that the *)
(* account's signature covers the request, takes a path literally, takes   *)
(* one order per client order id, and does nothing on a 4xx.  Of the agent *)
(* only its gate and its executor are here, on an authorized connection:   *)
(* AgentServer, AgentClient and McpServer have the rest.  A date range is  *)
(* asked for by its first query; RangeWalk has the others.                 *)
(*                                                                         *)
(* A definition marked "Fault" is a plausible slip in the definition that  *)
(* follows it, kept to confirm that the properties notice it.              *)
(***************************************************************************)
EXTENDS Surfaces, Credentials

CONSTANTS
  Setups,       \* installations: a surface, its tier, its credentials
  Inputs,       \* what a user of each surface may enter
  Account,      \* the signer the exchange knows
  MaxAsks       \* Bound: how often the user enters the input

(* Every build that is given no client order id draws one of its own. *)
Drawn(n) == <<"drawn", n>>

(* What a command names its order: client order ids that the user has, and *)
(* of an Option at most one.                                               *)
IsOption(set) == \A one, other \in set : one = other

NameOf(command) ==
  CASE command.op \in {"PlaceLimit", "PlaceMarket", "Replace"} -> command.client_order_id
    [] command.op \in LibraryOps -> Some(command.request.client_order_id)
    [] OTHER -> None

(* What the type Command says of a command, as far as its order goes. *)
Formed(command) ==
  /\ IsOption(NameOf(command)) /\ NameOf(command) \subseteq Uuids
  /\ command.op = "Replace" => IsOption(command.size)
  /\ command.op \in LibraryOps =>
       /\ IsOption(command.request.order_configuration.limit)
       /\ IsOption(command.request.order_configuration.market)

(* What args.rs, JSON and the type Command say of what is entered; only a  *)
(* program on the SDK names a base URL; what is drawn is nobody's yet.     *)
ASSUME CommandPathAssumption ==
  /\ MaxAsks \in Nat
  /\ \A n \in 1..(MaxAsks + 1) : Drawn(n) \notin Uuids
  /\ \A installation \in Setups :
       /\ installation.access \in AccessLevel
       /\ installation.surface = "library" => installation.insecure_env = (installation.base_url = None)
       /\ installation.base_url # None => installation.surface = "library"
       /\ IsOption(installation.variables.private_key_path)
  /\ \A entry \in Inputs.words :
       /\ entry[1] \in Verbs
       /\ entry[1] \in SymbolVerbs => entry[2].symbol \in Text
       /\ entry[1] \in IdVerbs => entry[2].id \in Text
       /\ entry[1] \in {"limit", "market"} => IsOption(entry[2].client_order_id)
  /\ \A entry \in Inputs.calls : \A key \in DOMAIN entry[2] :
       entry[2][key][1] = "string" => entry[2][key][2] \in Text
  /\ \A entry \in Inputs.commands : WellTyped(entry[2]) /\ Formed(entry[2])

(* A JSON value is of a type, and says one thing. *)
ASSUME ArgumentsAssumption ==
  \A entry \in Inputs.calls : \A key \in DOMAIN entry[2] :
    entry[2][key] = <<entry[2][key][1], entry[2][key][2]>>

(* The exchange knows an API key and the key registered for it; blank text *)
(* is neither. *)
ASSUME AccountAssumption ==
  /\ Account = [api_key |-> Account.api_key, private_key_pem |-> Account.private_key_pem]
  /\ \E api_key \in Account.api_key : Account.api_key = Some(api_key) /\ ~Blank(api_key)
  /\ \E pem \in Pems : Account.private_key_pem = Some(pem)
  /\ \A pem \in Pems : ~Blank(pem)

VARIABLES
  setup,      \* the installation
  client,     \* Option: the client of a process that keeps one
  pc,         \* "Closed", "Idle", "Confirming", "Ready", "Sent", "Paused", "Gone"
  watching,   \* whether the ask is polled
  input,      \* Option: what the user entered
  asks,       \* every ask so far
  told,       \* what the user was told of each, or "Open"
  network,    \* requests on their way to the exchange
  answers,    \* answers on their way back
  effects     \* what requests did to the account

vars == <<setup, client, pc, watching, input, asks, told, network, answers, effects>>

Current == Len(asks)

(* What surfaces refuse on their own. *)
SurfaceVariants == {"Usage", "Unconfirmed", "Cancelled", "AccessDenied", "NoVault", "Locked"}

Open == Error("Open")

-----------------------------------------------------------------------------
(* What a command wants done to the account, read off the command rather   *)
(* than off the request made of it, and what the exchange reads.           *)

Order(symbol, side, size, unit, price, instructions) ==
  [kind |-> "order", symbol |-> symbol, side |-> side,
   size |-> size, unit |-> unit, price |-> price, instructions |-> instructions]

Replacement(id, size, unit, price, instructions) ==
  [kind |-> "replacement", id |-> id, size |-> size, unit |-> unit, price |-> price,
   instructions |-> instructions]

Unit(in_quote) == IF in_quote THEN "quote" ELSE "base"

UnitOf(sizes) == Unit(sizes.quote_size # None)

SizeOf(sizes) == sizes.base_size \union sizes.quote_size

Placement(request) ==
  LET configuration == request.order_configuration
  IN IF validate_placement(configuration)
     THEN {Order(request.symbol, request.side, SizeOf(c.sizes), UnitOf(c.sizes), Some(c.price),
                 c.execution_instructions) : c \in configuration.limit}
            \union {Order(request.symbol, request.side, SizeOf(c.sizes), UnitOf(c.sizes), None, None) :
                      c \in configuration.market}
     ELSE None

Wish(command) ==
  LET symbol == dash_symbol(command.symbol)
      unit   == Unit(command.in_quote)
      post   == IF command.post_only THEN Some(<<"post_only">>) ELSE None
  IN CASE command.op = "PlaceLimit"  ->
            Some(Order(symbol, command.side, Some(command.size), unit, Some(command.price), post))
       [] command.op = "PlaceMarket" ->
            Some(Order(symbol, command.side, Some(command.size), unit, None, None))
       [] command.op = "Replace"     ->
            Some(Replacement(command.id, command.size, IF command.size = None THEN "base" ELSE unit,
                             command.price, post))
       [] command.op = "Cancel"      -> Some([kind |-> "cancel", id |-> command.id])
       [] command.op = "CancelAll"   -> Some([kind |-> "cancel all"])
       [] command.op \in LibraryOps  -> Placement(command.request)
       [] OTHER -> None

Unescaped(text) ==
  [i \in DOMAIN text |->
     IF text[i] \in {Escaped(r) : r \in Reserved} THEN CHOOSE r \in Reserved : text[i] = Escaped(r)
     ELSE text[i]]

(* The exchange's reading of a request: "/orders", or "/orders/" and one   *)
(* segment that is not empty.                                              *)
OrdersPath == <<"/", "orders">>

OneOrder(path) ==
  /\ Len(path) > 3 /\ SubSeq(path, 1, 3) = Append(OrdersPath, "/")
  /\ \A i \in 4..Len(path) : path[i] # "/"

IdIn(path) == Unescaped(SubSeq(path, 4, Len(path)))

Reading(wire) ==
  CASE wire.method = "POST" /\ wire.path = OrdersPath -> UNION {Placement(p) : p \in wire.body}
    [] wire.method = "PUT" /\ OneOrder(wire.path) ->
         {Replacement(IdIn(wire.path), SizeOf(r.sizes), UnitOf(r.sizes), r.price,
                      r.execution_instructions) : r \in wire.body}
    [] wire.method = "DELETE" /\ OneOrder(wire.path) ->
         Some([kind |-> "cancel", id |-> IdIn(wire.path)])
    [] wire.method = "DELETE" /\ wire.path = OrdersPath -> Some([kind |-> "cancel all"])
    [] OTHER -> None

(* The environment the user chose: --env, else REVOLUTX_ENVIRONMENT if the *)
(* credentials come from the environment, else production.                 *)
Chosen ==
  CASE setup.base_url # None -> OrElse(setup.base_url, Production)
    [] setup.base_url = None /\ setup.env # None -> OrElse(setup.env, Production)
    [] setup.base_url = None /\ setup.env = None /\ setup.insecure_env ->
         OrElse(UNION {parse_environment(v) : v \in setup.variables.environment}, Production)
    [] OTHER -> Production

-----------------------------------------------------------------------------
(* Asks and reports.                                                       *)

Init ==
  /\ setup \in Setups
  /\ client = None
  /\ pc = IF setup.surface = "oneshot" THEN "Idle" ELSE "Closed"
  /\ watching = FALSE
  /\ input = None
  /\ asks = <<>> /\ told = <<>>
  /\ network = {} /\ answers = {} /\ effects = {}

(* The user enters `entry`, which means `action` (None if it is refused).  *)
(* She may enter the same again, after any outcome.                        *)
Ask(entry, action, approved) ==
  /\ pc = "Idle"
  /\ input \subseteq {entry}
  /\ Cardinality({n \in DOMAIN asks : asks[n].entered}) < MaxAsks
  /\ input' = {entry}
  /\ asks' = Append(asks, [entered  |-> TRUE,
                           command  |-> {a.command : a \in action},
                           approved |-> approved])
  /\ watching' = (\E a \in action : a.watch)
  /\ UNCHANGED <<setup, network, answers, effects>>

(* The ask is refused before anything is executed. *)
Refused(variant) == told' = Append(told, Error(variant)) /\ pc' = "Idle"

Accepted(next) == told' = Append(told, Open) /\ pc' = next

(* The answer to an ask; a read that is given up on is of no consequence.  *)
Forgotten(n, requests) ==
  {m \in requests : m.ask # n \/ m.wire.method # "GET"}

Report(outcome) ==
  /\ told' = [told EXCEPT ![Current] = IF watching THEN Open ELSE outcome]
  /\ pc' = IF watching THEN "Paused" ELSE "Idle"
  /\ answers' = {}
  /\ UNCHANGED <<setup, client, watching, input, asks, effects>>

-----------------------------------------------------------------------------
(* Processes that keep a client: the shell, the agent behind the MCP       *)
(* server, a program on the SDK.                                           *)

LibraryClient ==
  IF setup.base_url # None
  THEN build([builder EXCEPT !.environment = setup.env, !.base_url = setup.base_url,
                             !.signer = setup.vault])
  ELSE build_config(or_env([environment |-> setup.env, api_key |-> None, private_key_pem |-> None,
                            private_key_path |-> None], setup.variables), setup.files)

KeptClient == IF setup.surface = "library" THEN LibraryClient ELSE client_for(setup, TRUE)

OpenFails ==
  /\ pc = "Closed" /\ KeptClient.client = None
  /\ pc' = "Gone"
  /\ UNCHANGED <<setup, client, watching, input, asks, told, network, answers, effects>>

(* The shell first fetches the pairs, for its completions. *)
OpenShell ==
  /\ pc = "Closed" /\ setup.surface = "shell"
  /\ KeptClient.client # None
  /\ client' = KeptClient.client
  /\ asks' = <<[entered |-> FALSE, command |-> {[op |-> "Pairs"]}, approved |-> FALSE]>>
  /\ told' = <<Open>>
  /\ pc' = "Ready"
  /\ UNCHANGED <<setup, watching, input, network, answers, effects>>

OpenOther ==
  /\ pc = "Closed" /\ setup.surface \in {"mcp", "library"}
  /\ KeptClient.client # None
  /\ client' = KeptClient.client
  /\ pc' = "Idle"
  /\ UNCHANGED <<setup, watching, input, asks, told, network, answers, effects>>

-----------------------------------------------------------------------------
(* The surfaces, up to the command's execution.                            *)

Confirmed(action) == \E a \in action : a.confirmed

(* Fault: no command needs a confirmation. *)
NeverAsked(action) == FALSE

NeedsConfirming(action) == \E a \in action : is_real_trading(a.command) /\ ~a.confirmed

(* main and oneshot::run: the credentials come first. *)
OneShot ==
  /\ setup.surface = "oneshot"
  /\ \E entry \in Inputs.words :
       LET made   == client_for(setup, needs_secrets(entry[1]))
           action == adapt(entry[1], entry[2])
       IN /\ Ask(entry, action, Confirmed(action))
          /\ client' = made.client
          /\ \/ \E e \in made.error : Refused(e.variant)
             \/ made.error = None /\ action = None /\ Refused("Usage")
             \/ made.error = None /\ NeedsConfirming(action) /\ Refused("Unconfirmed")
             \/ made.error = None /\ action # None /\ ~NeedsConfirming(action) /\ Accepted("Ready")

(* Fault: the shell leaves every gate to the exchange. *)
NoTier(action) == TRUE

TierPermits(action) == \A a \in action : permits(setup.access, min_access(a.command))

(* repl::run_line: refused before prompting. *)
ShellLine ==
  /\ setup.surface = "shell"
  /\ \E entry \in Inputs.words :
       LET action == adapt(entry[1], entry[2])
       IN /\ Ask(entry, action, Confirmed(action))
          /\ \/ action = None /\ Refused("Usage")
             \/ ~TierPermits(action) /\ Refused("AccessDenied")
             \/ TierPermits(action) /\ NeedsConfirming(action) /\ Accepted("Confirming")
             \/ action # None /\ TierPermits(action) /\ ~NeedsConfirming(action) /\ Accepted("Ready")
  /\ UNCHANGED client

Confirm(yes) ==
  /\ pc = "Confirming"
  /\ asks' = [asks EXCEPT ![Current].approved = yes]
  /\ pc' = IF yes THEN "Ready" ELSE "Idle"
  /\ told' = [told EXCEPT ![Current] = IF yes THEN Open ELSE Error("Cancelled")]
  /\ UNCHANGED <<setup, client, watching, input, network, answers, effects>>

(* handle_tools_call: whoever granted the session its tier approved. *)
ToolCall ==
  /\ setup.surface = "mcp"
  /\ \E entry \in Inputs.calls :
       LET action == {run(command) : command \in to_command(entry[1], entry[2])}
       IN /\ Ask(entry, action, permits(setup.access, Trading))
          /\ \/ action = None /\ Refused("Usage")
             \/ action # None /\ Accepted("Ready")
  /\ UNCHANGED client

LibraryCall ==
  /\ setup.surface = "library"
  /\ \E entry \in Inputs.commands : Ask(entry, {run(entry[2])}, TRUE) /\ Accepted("Ready")
  /\ UNCHANGED client

-----------------------------------------------------------------------------
(* Execution.                                                              *)

Command == CHOOSE c \in asks[Current].command : TRUE

Requested == RequestOf(Command, Drawn(Current))

Signers == UNION {c.signer : c \in client}

Waiting == pc = "Sent"

(* execute_forwarded's gate, in the agent. *)
AgentPermits == setup.surface = "mcp" => permits(setup.access, TierOf(Requested))

(* What LocalExecutor::send refuses. *)
Unsendable ==
  IF SendError(Requested, Signers) # None THEN SendError(Requested, Signers)
  ELSE IF Requested.requires_auth THEN UNION {SigningError(signer) : signer \in Signers}
  ELSE None

(* Through the agent, an error of its executor is one of the agent's. *)
Executor(error) == IF setup.surface = "mcp" THEN Error("Agent") ELSE error

ExecuteFails ==
  /\ pc = "Ready"
  /\ \/ InvalidRequest(Command) /\ Report(Error("InvalidRequest"))
     \/ ~InvalidRequest(Command) /\ ~AgentPermits /\ Report(Error("Agent"))
     \/ /\ ~InvalidRequest(Command) /\ AgentPermits
        /\ \E error \in Unsendable : Report(Executor(error))
  /\ UNCHANGED network

Send ==
  /\ pc = "Ready"
  /\ ~InvalidRequest(Command) /\ AgentPermits /\ Unsendable = None
  /\ pc' = "Sent"
  /\ network' = network \union
       {[ask |-> Current, environment |-> c.environment, wire |-> Wire(Requested, c.signer)] : c \in client}
  /\ UNCHANGED <<setup, client, watching, input, asks, told, answers, effects>>

Result(answer) ==
  IF Command.op \in {"Cancel", "CancelAll"} THEN send_no_content(answer.status, answer.body)
  ELSE send_json(answer.status, answer.body)

Receive ==
  /\ Waiting
  /\ \E answer \in answers : Report(Result(answer))
  /\ UNCHANGED network

(* Fault: the client is built without a timeout. *)
WaitsForever == FALSE

TimesOut == Waiting

(* The timeout, or a transport failure that looks the same. *)
GiveUp ==
  /\ TimesOut
  /\ Report(Executor(Error("Transport")))
  /\ network' = Forgotten(Current, network)

(* The agent stops, or its connection breaks. *)
AgentLost ==
  /\ setup.surface = "mcp" /\ pc \in {"Ready", "Sent"}
  /\ Report(Error("AgentUnusable"))
  /\ network' = Forgotten(Current, network)

(* poll_order_book: errors are shown and the polling goes on until Enter.  *)
Poll ==
  /\ pc = "Paused"
  /\ pc' = "Ready"
  /\ UNCHANGED <<setup, client, watching, input, asks, told, network, answers, effects>>

EnterPressed ==
  /\ watching /\ pc \in {"Ready", "Sent", "Paused"}
  /\ watching' = FALSE
  /\ pc' = "Idle"
  /\ told' = [told EXCEPT ![Current] = Error("Stopped")]
  /\ answers' = {}
  /\ network' = Forgotten(Current, network)
  /\ UNCHANGED <<setup, client, input, asks, effects>>

-----------------------------------------------------------------------------
(* The network and the exchange.                                           *)

Answer(status, body) == [status |-> status, body |-> body]

Refusals ==
  {Answer(400, "Structured"), Answer(404, "Structured"), Answer(405, "Unreadable"),
   Answer(409, "Structured"), Answer(429, "Unreadable")}

Successes == {Answer(200, "AsExpected"), Answer(200, "NoData"), Answer(200, "Unreadable")}

Breakdown == Answer(502, "Unreadable")

Unattributed == Answer(401, "Structured")

Genuine(wire) ==
  \/ Place(wire.path) = "public"
  \/ \E signature \in wire.signature : signature.key = Account /\ signature.message = Covered(wire)

NameIn(wire) == {b.client_order_id : b \in wire.body}

(* An order whose client order id was taken before is not taken again. *)
Duplicate(m) ==
  \E e \in effects : e.name # None /\ e.name = NameIn(m.wire) /\ e.act.environment = m.environment

Effects(m) ==
  {[ask |-> m.ask, name |-> NameIn(m.wire), act |-> [environment |-> m.environment, order |-> order]] :
     order \in Reading(m.wire)}

Respond(m, answer) ==
  /\ network' = network \ {m}
  /\ answers' = IF Waiting /\ m.ask = Current THEN {answer} ELSE answers
  /\ UNCHANGED <<setup, client, pc, watching, input, asks, told>>

(* It refuses what it cannot read or attribute, and anything it likes. *)
ExchangeRefuses(m) ==
  /\ \E answer \in (IF Genuine(m.wire) THEN Refusals ELSE {Unattributed}) :
       Respond(m, answer)
  /\ UNCHANGED effects

ExchangeAnswers(m) ==
  /\ Genuine(m.wire) /\ (m.wire.method = "GET" \/ Duplicate(m))
  /\ \E answer \in Successes \union {Breakdown} : Respond(m, answer)
  /\ UNCHANGED effects

ExchangeTakes(m) ==
  /\ Genuine(m.wire) /\ Reading(m.wire) # None /\ ~Duplicate(m)
  /\ \E answer \in Successes \union {Breakdown} : Respond(m, answer)
  /\ effects' = effects \union Effects(m)

ExchangeBreaks(m) == Genuine(m.wire) /\ Respond(m, Breakdown) /\ UNCHANGED effects

Lose(m) ==
  /\ network' = network \ {m}
  /\ UNCHANGED <<setup, client, pc, watching, input, asks, told, answers, effects>>

Exchange ==
  \E m \in network :
    ExchangeRefuses(m) \/ ExchangeAnswers(m) \/ ExchangeTakes(m) \/ ExchangeBreaks(m) \/ Lose(m)

-----------------------------------------------------------------------------
Process ==
  \/ OpenFails \/ OpenShell \/ OpenOther
  \/ ExecuteFails \/ Send \/ Receive \/ GiveUp \/ AgentLost
  \/ Poll \/ EnterPressed

User ==
  \/ OneShot \/ ShellLine \/ ToolCall \/ LibraryCall
  \/ \E yes \in BOOLEAN : Confirm(yes)

Next == User \/ Process \/ Exchange

Spec == Init /\ [][Next]_vars

(* The HTTP client's timeout passes.  Nothing is assumed of the exchange,  *)
(* the network or the user.                                                *)
FairSpec == Spec /\ WF_vars(GiveUp)

-----------------------------------------------------------------------------
(* Properties.                                                             *)

Answers == Refusals \union Successes \union {Breakdown, Unattributed}

Complete(signer) == signer.api_key # None /\ signer.private_key_pem # None

(* The types, and with them: every signature on the wire is by a signer    *)
(* with both of its parts, an answer only waits for who waits for it, and  *)
(* what is under way has not been reported.                                *)
TypeOK ==
  /\ setup \in Setups
  /\ pc \in {"Closed", "Idle", "Confirming", "Ready", "Sent", "Paused", "Gone"}
  /\ watching \in BOOLEAN
  /\ \A c \in client : c.environment \in Urls
  /\ DOMAIN told = DOMAIN asks
  /\ \A n \in DOMAIN told :
       told[n] \in Errors \union {Ok, Open, Error("Stopped")} \union {Error(v) : v \in SurfaceVariants}
  /\ \A m \in network :
       /\ m.ask \in DOMAIN asks /\ m.environment \in Urls
       /\ \A signature \in m.wire.signature : Complete(signature.key)
  /\ answers \in Option(Answers)
  /\ answers # None => Waiting
  /\ pc \in {"Confirming", "Ready", "Sent", "Paused"} => told[Current] = Open

(* An argument that the catalog lists, and that a call gives, is in the    *)
(* command the call becomes or makes it an error: never is it quietly      *)
(* dropped, as a limit or a quote flag of the wrong type might be.         *)
Without(args, key) == [k \in DOMAIN args \ {key} |-> args[k]]

SaysNothing(value) == value \in {Null, Boolean(FALSE), Strings(<<>>)}

NothingDropped ==
  setup.surface = "mcp" =>
    \A call \in input :
      LET name == call[1]
          args == call[2]
      IN to_command(name, args) # None =>
           \A key \in DOMAIN args \intersect DOMAIN Tools[name].properties :
             ~SaysNothing(args[key]) => to_command(name, Without(args, key)) # to_command(name, args)

(* The tier by which the shell judges a command is the tier by which the   *)
(* agent judges the request that is made of it and by which the exchange   *)
(* gets it, whatever symbol or id the command carries; and nothing goes    *)
(* out beyond the tier that this installation has.                         *)
SentWithinAuthority ==
  \A m \in network : \A command \in asks[m.ask].command :
    /\ TierOf(m.wire) = min_access(command)
    /\ setup.surface \in {"shell", "mcp"} => permits(setup.access, TierOf(m.wire))

(* The installation holds the account's credentials where it was told to   *)
(* look for them.                                                          *)
HoldsAccount ==
  LET v == setup.variables
  IN IF setup.insecure_env
     THEN /\ v.api_key = Account.api_key
          /\ \/ v.private_key_pem = Account.private_key_pem
             \/ v.private_key_pem = None /\ \E path \in env_var(v.private_key_path) :
                                              setup.files[path] = Account.private_key_pem
     ELSE setup.vault = Some(Account) /\ setup.unlocks

(* Who holds the account's credentials is never told that they are missing *)
(* or wrong: every request that needs one carries a signature, over        *)
(* exactly what is sent, whatever has to be escaped in it.                 *)
GoodCredentialsSuffice ==
  HoldsAccount =>
    \A n \in DOMAIN told :
      /\ ~is_auth_error(told[n])
      /\ told[n].variant \notin {"MissingApiKey", "MissingPrivateKey", "NoVault", "Locked", "Signing"}

(* What the user was told, as the desk tells it.  An error that a response *)
(* with another status than 4xx, or none, leads to says nothing of what    *)
(* became of the order.                                                    *)
Verdict(outcome) ==
  CASE outcome = Open -> "Open"
    [] outcome = Ok   -> "Done"
    [] outcome.variant \in LocalVariants \union SurfaceVariants -> "NotDone"
    [] outcome.kind \in {"BadRequest", "Unauthorized", "Forbidden", "NotFound", "Conflict", "RateLimited"}
                      -> "NotDone"
    [] OTHER          -> "Unknown"

Asked(ask) ==
  [wish     |-> UNION {{[environment |-> Chosen, order |-> order] : order \in Wish(command)} :
                         command \in ask.command},
   name     |-> UNION {NameOf(command) : command \in ask.command},
   approved |-> ask.approved]

Desk == INSTANCE OrderDesk WITH
  asked <- [n \in DOMAIN asks |-> Asked(asks[n])],
  told  <- [n \in DOMAIN told |-> Verdict(told[n])],
  done  <- effects,
  Names <- Option(Uuids \union {Drawn(n) : n \in 1..(MaxAsks + 1)})

(* Every surface keeps the desk's promise, over a network that may lose,   *)
(* delay or fail to answer any request, and with the user asking again     *)
(* whenever she likes: what happens to the account is the order, in the    *)
(* environment, that was asked for and approved, once per client order id, *)
(* and who was told that nothing happened, or that it did, was told so     *)
(* rightly and for good.                                                   *)
ImplementsDesk == Desk!Spec

(* A command that waits for the exchange ends with an answer to the user,  *)
(* also when the exchange never gives one.                                 *)
WaitingEnds ==
  \A n \in 1..(MaxAsks + 1) :
    (n = Current /\ Waiting /\ ~watching) ~> (n \in DOMAIN told /\ told[n] # Open)
=============================================================================
