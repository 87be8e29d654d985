# Formal models of revolutx

revolutx is a Rust SDK for the Revolut X exchange, with a command line, a *signing agent* that keeps the
credentials in one process and signs requests for others, and an MCP server that lets an LLM client trade through
that agent. This directory holds TLA+ models of the parts whose correctness depends on orderings: the agent, the
client that shares a connection to it, the process around it, the walk that splits a date range into queries, the
MCP server, and the path of a command from what a user enters to the exchange and back. TLC checks them on small
instances; TLAPS proves the safety properties of all six for every instance.

Run a model with `tlc -config <Config>.cfg <MCModule>.tla`, the proofs of a module with `tlapm <Module>.tla`, for
each module whose name ends in `Proofs`.

## 1. The system

Paths are relative to the repository's root as found under `src/`.

| Component | State | Operations | Hard part |
|---|---|---|---|
| Capability ladder (`src/access.rs`) | none | `permits`, `required_access_for` | must fail closed, must agree with the commands' own classification |
| Agent server (`src/agent.rs`) | registry of connections (state, tier, method), next id, ceiling, one-time token; per session: first-frame flag, wrong-token count | `grant`, `deny`, `shutdown`, accept, `handle_connection` with `Authenticate`, `RequestAuth`, `Ping`, `Execute` | sessions, operator, timers and shutdown interleave around one mutex |
| Agent client (`AgentExecutor`, `src/agent.rs`) | stream behind an async mutex, `broken`, capabilities, `authenticated` | `authenticate`, `request_authorization`, `ping`, `execute` | callers queue on one stream; failures and dropped futures leave it out of step |
| Agent process (`cli/src/agent.rs`, `bind` in `src/agent.rs`) | socket file, console and watchdog threads, shutdown permits, idle clock | `start`, `bind`, `quit`, idle lock, hard exit, cleanup | crashes, stale sockets, two starts, a permit stored before anyone waits |
| Range walk (`src/api/range.rs`) | window, cursor, seen ids, items, retry budget | `plan`, `walk` | boundaries, duplicates, caps, rate limits, overflow |
| MCP server (`mcp/src/main.rs`, `server.rs`) | lines on stdin, `session`, `pending` | the loop over lines, the JSON-RPC envelope, `authenticate` (token or operator), tool calls | lines written ahead of answers, polls across calls, restarts of the agent, a non-reentrant mutex |
| MCP tools, protocol (`mcp/src/tools.rs`, `protocol.rs`) | none | arguments to commands | an argument of the wrong type must not count as absent |
| Commands (`src/commands/`) | none | `Command`, `min_access`, `execute` | three classifications in lockstep (shell, agent, needed secrets) |
| Orders (`src/api/orders.rs`, `src/model/orders.rs`, `common.rs`) | none | builders, validation, place, replace, cancel, queries | an order re-sent after a lost answer |
| Read-only APIs (`src/api/balances.rs`, `configuration.rs`, `market_data.rs`, `trades.rs`) | none | one request each | parameters inside paths |
| Client and errors (`src/client.rs`, `src/error.rs`) | none | builder, send, classify | what an error says about an order that may have happened |
| Transport and signing (`src/transport.rs`, `src/auth.rs`) | none | encode, sign, send | what is signed is what is sent, whatever `Url` does to it in between |
| Configuration, keystore, vault (`src/config.rs`, `src/keystore.rs`, `cli/src/creds.rs`) | vault file | variables, key files, init, unlock, sign | which of several named environments wins; a vault with half a key |
| Command line (`cli/src/main.rs`, `args.rs`, `adapter.rs`, `oneshot.rs`, `repl.rs`, `watch.rs`) | the shell's client and tier | words to commands, gates, confirmation, polling | each surface confirms real trading in its own way |
| Presentation, terminal, serde types | none worth the name | | |

How they interact: the CLI and the MCP server call the command layer, which calls the API modules, which hand a
request to a `RequestExecutor`. That is either the local transport, which signs and sends, or an `AgentExecutor`,
which forwards over a unix socket to a session task of the agent, which classifies the request, compares it with
the tier its connection holds *now*, and passes it to the local transport of the agent's process. The operator
acts on the same registry from the console thread; the watchdog thread samples it once a second.

What makes each correct, in a sentence: the agent signs only what an authority in force permits, and authority
comes from the operator or once from the token; the client hands each caller its own answer (but for findings 2 and
3); the process can always be restarted and locks when idle; a range walk is complete, duplicate-free and finite; the MCP server's
session is one the agent authorized, its waiting connection survives polling, and each request gets one reply; what
a command does to the account is what its user asked for and approved, and what she is told of it is true.

## 2. Modules

| Module | Models | Its state and actions, and the code's |
|---|---|---|
| `Access` | `src/access.rs` | The tiers as 0, 1, 2 in the derived order; paths by their leading segment. |
| `SigningGate` | what the agent promises | Per connection an authority and at most one request upstream; `Decide`, `SpendToken`, `Admit`, `Release`. |
| `AgentServer` | `AgentServer`, `AgentControl`, sessions | See below. |
| `AgentServerProofs` | | Theorems about `AgentServer`. |
| `AgentClientProofs`, `AgentProcessProofs`, `McpServerProofs`, `RangeWalkProofs` | | Theorems about the module in the name. |
| `RequestProofs` | | Lemmas about the operators of `Commands`, `Surfaces` and `Requests`. |
| `CommandPathProofs` | | Theorems about `CommandPath`, by those lemmas. |
| `DeskProofs` | | The proof that `CommandPath` implements `OrderDesk`. |
| `AgentClient` | `AgentExecutor` | `lock` is the mutex's FIFO queue; one action per await of `round_trip`; a response is two pieces, length and body, and a misframed read takes any number of bytes off them (`Leftovers`). |
| `RangeWalk` | `plan`, `walk` | One action per query sent, page received, rate limit and error; the endpoint's bounds convention and order are chosen at the start. |
| `AgentProcess` | `start`, `bind`, watchdog, console | One process per start, one file path; each file system call is an action. |
| `McpServer` | `main`'s loop, `Server::handle_line` and below | `stdin` holds the lines not read yet; `pc` is what the line being handled awaits; the agent is the environment, after `AgentServer`. |
| `OrderDesk` | what a user may rely on, whatever the surface | `Ask`, `Approve`, `Take` (it happens at the exchange), `Tell`. |
| `Requests` | `transport.rs`, `auth.rs`, `error.rs`, sending in `client.rs` | Operators: request, encoding, what `Url` makes of it, signature, wire, errors from statuses. |
| `Commands` | `src/commands/`, `src/api/`, order models | Operators: the tier of each command, queries, validation, builders, the request it becomes. |
| `Credentials` | `config.rs`, `client.rs`'s builder, `keystore.rs`, `creds.rs` | Operators: from flags, variables, key files and vault to a client or an error. |
| `Surfaces` | `tools.rs`; `args.rs` and `adapter.rs` | Operators: the tool catalog, tool arguments or parsed words to a command. |
| `CommandPath` | `main.rs`, `oneshot.rs`, `repl.rs`, `watch.rs`, `handle_tools_call`, SDK calls, `LocalExecutor::send` | The state around those operators; see below. |
| `MC*` | | Constants for TLC. |

`AgentServer` in detail. `conns`, `next_id`, `ceiling`, `token` are the fields of `Registry` (`token` merges
`Option<Gate>` and `consumed`); an entry's `state` and `access` are `ConnState`, `NoEntry` is an absent key.
`running` and `shutdown` are the accept loop and the stored permit of its `Notify`. `pc[id]` says which await
session `id` is at: `Reading` (length prefix), `Body`, `Executing`, `Replying`, `FinalReply` (the reply before the
attempts cap ends the session), `Closing` (out of the loop, not yet deregistered). A handler takes the registry's
mutex once, so the mutex's critical section and everything up to the next await are one action: reading the
authority, classifying, and handing to the executor in `Execute`; verifying, spending and authorizing in
`AuthenticateGranted`. `RegistryMatchesSessions` justifies treating a handler's own entry as present.

`CommandPath` in detail. `setup` is the installation (surface, tier, flags, variables, files, vault), fixed per
behaviour; `client` is what a process keeps; `pc` is where the ask being handled stands. A command is a record with
its variant as `op`; a text is a sequence of atoms, so that the characters something looks for (`/`, `.`, a space)
are there and the rest is opaque; an `Option` is a set of at most one element, and a `Result` that fails is the
empty set. The whole way from the surface's input through credentials, gates, validation and encoding is computed
by the operators of `Surfaces`, `Commands`, `Credentials` and `Requests`: nothing is awaited on it. The steps are
those between which something else can happen: the ask, the prompt, sending, receiving, the timeout, a lost agent,
the pause of `watch` and its Enter key. The environment of an ask is read off the setup in `Chosen` and its wish off
the command in `Wish`, neither through the request, so that a mistake on the way shows.

`CommandPath` implements `OrderDesk` under this mapping: an ask is what was wished for, the client order id named
(if any) and whether it was approved; what was told is `Verdict` of the result (`NotDone` for errors made before
sending and for 4xx, `Unknown` for the rest); what was done is `effects`. The refinement says in one formula that
an order happens only as asked, in the environment asked for, only if approved, at most once per ask and per client
order id, and never after the user was told that it did not.

A definition whose comment starts with `Fault:` belongs to no specification. It is a plausible slip in the
definition after it; putting it in that definition's place must make the named property fail, which shows that the
property can be violated. The pairs are listed in `PROJECT.json` under `mutants`.

Abstracted throughout: frame bytes and encoding, labels, peer credentials, timestamps, messages, presentation.
A whole frame arrives or does not; a body over a limit is one of the outcomes of `ExecutorReturns` and `ReadFails`.

## 3. What is checked

| Run | Bounds | Shows |
|---|---|---|
| `AgentServer_safety` | 3 connections in all, 2 at once, 2 wrong tokens, ceiling `View`, methods `GET`, `POST`, malformed, a public and a private path; 780 244 states | `WithinCeiling`, `TokenAuthorizesOnce`, `GuessesBounded`, `RegistryMatchesSessions`, `CapRespected`, `IdsNeverReused`, `AuthorityHasASource`; and `ImplementsGate`: it refines `SigningGate` |
| `AgentServer_liveness` | 2 connections, 1 wrong token, ceiling `Market` | `SilentPeerReaped`, `ShutdownEndsEverything` |
| `AgentServer_denial` | 2 connections, every ceiling | `DenialSticks` is violated (finding 1) |
| `AgentClient` | 3 callers, 3 calls, with and without dropped futures; 121 093 states | `InStepUnlessBroken`, `AnswersAreOwn`, `AuthenticatedHasCaps`, `StalledBodyEnds`, `NobodyWaitsForAGoneAgent` |
| `AgentClient_swapped` | 3 callers, 3 calls, no dropped futures | `NoForeignAnswer` is violated (finding 2) |
| `AgentClient_dropped` | 2 callers, 2 calls, dropped futures | `NoForeignAnswer` is violated (finding 3) |
| `RangeWalk` | up to 3 windows of 2 instants, all 3-item histories over 6 instants, pages of 2, 1 retry, caps 1, 2 or none; 118 890 states | `Complete`, `EachOnceNewestFirst`, `CapKeepsTheNewest`, `QueriesAcceptable`, `WalkEnds` |
| `RangeWalk_overflow` | dates from -8 to 7 | `AbsurdRangesRefused` is violated (finding 4) |
| `AgentProcess` | 2 starts, overlapping or not, idle timeout of 2 ticks; 201 000 states | `RestartsSucceed`, `LocksOnlyWhenQuiet`, `IdleAgentLocks`, `QuitIsHonoured` |
| `AgentProcess_clobber` | 2 starts, no watchdog | `LiveSocketKept` is violated (finding 5) |
| `McpServer` | 3 connection names, 2 request ids, 2 unread lines; 222 376 states | `SessionWasAuthorized`, `EachRequestAnsweredOnce`, `AwaitedEntryKept`, `DeadConnectionDropped`, `EveryLineAnswered` |
| `CommandPath` | 4 surfaces in 22 installations, every tool and verb with usual and odd arguments, one of them entered twice; 269 032 states | `NothingDropped`, `SentWithinAuthority`, `GoodCredentialsSuffice`, `WaitingEnds`; and `ImplementsDesk`: it refines `OrderDesk` |

Each passing run also checks its module's `TypeOK`, the liveness run excepted.

Why the bounds are enough to be interesting. The agent's sessions interact only through the registry and the
token: two at once give every race, the third connection gives reuse of a freed slot and of the id counter; a
ceiling in the middle of the ladder gives requests below, at and above it. Three callers give a holder, a waiter
and a waiter behind a waiter. Two instants per window and three windows give an oldest window that is cut, a
middle one, and items on both of its boundaries; three items over pages of two give a cursor and a duplicate. Two
starts give a stale file, a live one, and a race for the path. Three connections of the MCP server are one in use,
one pending, one being opened; more cannot exist. Two ids and two unread lines are a request under way and lines
written behind it, an answered id used again included. In `CommandPath`, asks interact only through the client order
id, the exchange's memory and requests still on their way: the same input twice is the user's retry, and different
inputs would add nothing to either of their paths. The installations give every source of credentials and of an
environment, each absent or broken at least once; each argument of each tool takes every value its parser tells
apart, alone and beside all the others.

`CHECK_DEADLOCK FALSE` stands where the system may stop: an agent that was shut down, a walk that is done, a
process that exited, a client whose bounded calls are spent, a command path whose asks are spent or whose process
could not start. `McpServer` may not stop and is checked for deadlock.

Fairness. `AgentServer`: `WF` of the two timeouts (tokio's timers fire), of `ExecutorReturns` (the HTTP client has
a timeout, `DEFAULT_TIMEOUT` in `src/client.rs`), of `Stop`, `Abort` and `Deregister` (the runtime polls what is
ready). Nothing of peers or the operator: in particular no fairness of `ReplyWritten`, since the reply is written
without a timeout and a peer may never drain it. `AgentClient`: timers and callers that can go on; nothing of the
agent, and nothing of a misframed read while the agent is there, since fewer than four bytes keep it waiting.
`RangeWalk`: every query is answered, if only by the HTTP timeout. `AgentProcess`: an alive process runs and its
watchdog ticks; nothing of whoever unlocks, quits or kills. `McpServer`: the agent answers what reaches it (its
sessions run) and the server reads it; nothing of the LLM client or the operator. `CommandPath`: `WF` of
`GiveUp`, the HTTP client's timeout, and nothing of exchange, network or user, so `WaitingEnds` holds also over a
network that swallows everything.

Environment assumptions worth knowing. `RangeWalk` takes from the endpoint that items do not change during a walk,
that at least one end of a window counts in, and that a page followed by a cursor brings something new. An
endpoint repeating a cursor would keep the walk going; the code has no guard against it. `CommandPath` takes from
the exchange that it routes a path literally (`DELETE /orders/`, which cancelling an empty id sends, is not `DELETE
/orders`), takes one order per client order id, does nothing on a 4xx, and accepts exactly the requests that a
signature of the account covers; and from `Url` that it resolves dot segments and escapes spaces.

## 4. Findings

1. **A denial does not stick against the token.** `AgentControl::deny` says "it is refused everything until it
   disconnects" (`src/agent.rs:710`). `authorize_token` authorizes whatever the entry's state was
   (`src/agent.rs:1080-1083`): a denied connection that holds the unspent token presents it and is served at the
   ceiling. Run `AgentServer_denial`.
2. **A queued caller is handed another caller's response.** The comment on `broken` says that "a desynchronized
   stream can never be trusted again, so further requests fail fast (with a clear "reconnect" error) instead of
   reading misframed garbage" (`src/agent.rs:361-364`). `round_trip` looks at the flag before it waits for the lock
   (471) and not after (483). Let two callers be queued when the first one's body times out. The next one writes,
   and takes the first four bytes of the late body for a length: `read_exact` (312) consumes them whatever they are,
   and an `Executed` response of status 204 without a body is four bytes long, one each for the variant, the status,
   `None` and the empty body. That read fails, the stream is aligned on the response to this caller's own request,
   and the last caller, who does not look at the flag either, is handed it as its own. No call is dropped. Run
   `AgentClient_swapped`. The garbage alone takes one queued caller (`NoMisframedReadAlone`), the foreign answer two
   (`NoForeignAnswerForTwo`).
3. **A dropped call leaves its response to the next.** The comment in `round_trip` says the lock is held "so a
   request fully completes before the next one starts on the shared stream" (`src/agent.rs:476-478`). A caller that
   drops the future between write and read, as any timeout around a client call may, frees the lock with the
   response to come and `broken` unset, and the next call, perhaps of the same task, reads it as the answer to its
   own request. `AnswersAreOwn` and `InStepUnlessBroken` therefore speak of callers that drop no call (`~cancels`).
   Run `AgentClient_dropped`. A future dropped in the middle of its write leaves half a request instead, and the
   next caller writes behind it (`Cancel` in phase `Writing`); the agent then cannot make out either.
4. **A wide enough range passes the width check.** "Absurdly wide ranges are refused" (`src/api/range.rs:39-40`),
   but `end - start` (66) is unchecked: in a release build a span beyond `i64` wraps to a negative number and is
   accepted; a debug build panics. Run `RangeWalk_overflow`.
5. **A refused start removes the live agent's socket.** `bind` is documented as "refusing to clobber a live agent"
   (`src/agent.rs:855`), and it does refuse; but `start` removes the socket path whatever `server.run` returned
   (`cli/src/agent.rs:149`). The first agent goes on serving where nobody can reach it. Run `AgentProcess_clobber`.

## 5. What is proved

Each theorem is about the specification of its module and holds for every value of the constants that the module's
named assumptions admit:

| Assumption | Says |
|---|---|
| `BoundsAssumption` (`AgentServer`) | bounds are naturals, attempts not zero, ceilings are tiers |
| `ClientAssumption`, `ProcessAssumption` | bounds and timeouts are naturals, switches are Booleans |
| `McpAssumption` | the bound on unread lines is a natural; besides any two connections there is a name for a third |
| `RangeAssumption`, `RequestAssumption`, `HistoryAssumption` (`RangeWalk`) | widths, page sizes and budgets are naturals in range; dates of a request are optional machine integers; a history is finite, its ids distinct |
| `CommandPathAssumption` | what clap, JSON and the type `Command` say of an input: verbs exist, a symbol and an id are texts, an `Option` holds at most one; only a program on the SDK names a base URL; a drawn client order id is nobody's yet; the bound on asks is a natural |
| `ArgumentsAssumption` | a JSON value is of one type and says one thing |
| `AccountAssumption` | the account has one API key and one private key that parses, neither blank |

`AgentServerProofs`:

| Theorem | Statement |
|---|---|
| `TypeCorrect` | `Spec => []TypeOK` |
| `CeilingRespected` | `Spec => []WithinCeiling` |
| `OneTokenOneClient` | `Spec => []TokenAuthorizesOnce` |
| `GuessingIsBounded` | `Spec => []GuessesBounded` |
| `RegistryFaithful` | `Spec => []RegistryMatchesSessions` |
| `RegistryBounded` | `Spec => []CapRespected` |
| `IdsAreForLife` | `Spec => IdsNeverReused` |
| `AuthoritySourced` | `Spec => AuthorityHasASource` |
| `AgentImplementsGate` | `Spec => ImplementsGate` |
| `DenialSticksWithoutToken` | `Spec /\ token = "None" => DenialSticks` |

The argument. `IInv` is the conjunction of the six checked invariants and two facts they need: `FreshIds` (ids from
`next_id` on are unused and their counters zero; without it an accept could land on a live session) and
`JobsExecuting` (a request is upstream exactly while its session is `Executing`; without it the gate's
one-at-a-time admission does not follow). `StepCases` splits a step into the agent's actions once; one lemma per
conjunct of `IInv` shows that each action preserves it. The cap's lemma bounds the registry's cardinality by the
open sessions: an accept adds one element to a set that `RoomForOne` keeps below the cap, aborted sessions are only
there once no more are accepted. `AuthoritySourced` compares each entry before and after each action. The
refinement maps a connection's `authorized_access` to its authority and `job` to what is in flight; `GateStep`
shows each action to be `Decide`, `SpendToken`, `Admit`, `Release` or a stutter, the last because labels,
requests, polls, replies and frames leave both unchanged. The last theorem says that the token is the only cause of
finding 1: `DenialStep` finds nothing else that lifts a denial but a new decision of the operator's.

`AgentClientProofs`:

| Theorem | Statement |
|---|---|
| `TypeCorrect` | `Spec => []TypeOK` |
| `StreamInStep` | `Spec => []InStepUnlessBroken` |
| `OwnAnswers` | `Spec => []AnswersAreOwn` |
| `CapsRecorded` | `Spec => []AuthenticatedHasCaps` |
| `NoOverlapWithoutCancels` | `Cancels = {FALSE}` gives `Spec => RequestsDoNotOverlap` |
| `NoMisframedReadAlone` | `Cancels = {FALSE}` and a single caller give `Spec => []NoMisframedRead` |
| `NoForeignAnswerForTwo` | `Cancels = {FALSE}` and at most two callers give `Spec => []NoForeignAnswer` |

The argument. What is in the socket's two directions is tied to the phase of the lock's holder (`Under`): nothing
before it writes, one request after, then one response in two pieces, the second of them after the length was read.
`InStep` states that for a stream nobody broke, and `OwnAnswers` follows from it: whoever gets as far as a body
finds the one that answers its request. On a broken connection this is so no longer (finding 2), and the theorem
claims nothing of it. `NoOverlapWithoutCancels` says that a caller writes on a stream
with something of an earlier exchange on it only if a future was dropped, `NoMisframedReadAlone` that a misframed
read takes a caller queued on the lock (or a dropped future): with one caller, `NobodyQueued` holds.
`NoForeignAnswerForTwo` says what finding 2 takes. A failure leaves the stream `OutOfStep`: the
next piece is the body of a response whose length was read before, and until somebody misreads it nobody gets as far
as an answer. Of two callers one is left to do that (`LastInQueue`), and nobody comes after it.

`AgentProcessProofs`:

| Theorem | Statement |
|---|---|
| `TypeCorrect` | `Spec => []TypeOK` |
| `NeverLocksEarly` | `Spec => []LocksOnlyWhenQuiet` |
| `NextStartBinds` | `Spec => []RestartsSucceed` |
| `SocketKeptWithoutOverlap` | `Overlap = {FALSE}`, `Alarms = FALSE` give `Spec => []LiveSocketKept` |

The argument. `ClockShort` keeps the watchdog's idle clock below the number of ticks in a row that found nobody, so
that the lock is never early. `Alone` says of starts that do not overlap that one process is alive at a time, and
that what it found at the path when it looked (`PathAsFound`) is what is there when it unlinks and binds, unless its
own watchdog took it away. The last theorem says that of agents whose watchdog has no cause for alarm (a debugger, a
clock anomaly: it then removes the socket on its way out) only overlapping starts bring about finding 5.

`McpServerProofs`:

| Theorem | Statement |
|---|---|
| `TypeCorrect` | `Spec => []TypeOK` |
| `SessionAuthorized` | `Spec => []SessionWasAuthorized` |
| `OneReplyEach` | `Spec => []EachRequestAnsweredOnce` |
| `PendingEntryKept` | `Spec => AwaitedEntryKept` |
| `DeadConnectionLetGo` | `Spec => DeadConnectionDropped` |

The argument. `Held`: the session and the pending connection are different, one being opened is neither, only the
pending one still waits for the operator, and an answer that says authorized is of a connection that was. Without
it a poll that comes back could make a session of a connection nobody granted. Replies are counted against
requests by the positions of the unread lines that carry an id, one less for each line taken (`AskingTail`).

`RangeWalkProofs`:

| Theorem | Statement |
|---|---|
| `TypeCorrect` | `Spec => []TypeOK` |
| `NothingFallsBetween` | `Spec => []Complete` |
| `MergedInOrder` | `Spec => []EachOnceNewestFirst` |
| `CapTakesTheNewest` | `Spec => []CapKeepsTheNewest` |
| `QueriesInRange` | every query lies in the range asked for and is no wider than the endpoint takes |
| `QueriesAccepted` | `SpansFit` gives `Spec => []QueriesAcceptable` |

The argument. `Gathered` is the invariant that matters: the items collected are exactly those of the windows the
walk has done with (`Covered`) and those the pages of the present window have brought (`Served`). `WindowsMeet`
shows that with either reading of a window's ends two neighbours leave no instant between them, `WindowBounds` and
`WindowsNest` place every window in the range, and `Finished` draws the conclusion for a walk that returns.
`InOrderLists`, by the pigeonhole principle, says that a finite set listed in an order is listed once each, which
is what `Collect` and the final sort come down to; no induction over sequences is needed. `Counted` bounds the
number of queries. `QueriesAccepted` assumes that no span overflows: overflow is the only cause of finding 4.

`RequestProofs`, `CommandPathProofs` and `DeskProofs`:

| Theorem | Statement |
|---|---|
| `RequestTier` | `TierOf(RequestOf(command, fresh)) = min_access(command)` for every well-typed command |
| `WithinAuthority` | `Spec => []SentWithinAuthority` |
| `TypeCorrect` | `Spec => []TypeOK` |
| `HoldersAreServed` | `Spec => []GoodCredentialsSuffice` |
| `NoArgumentDropped` | `Spec => []NothingDropped` |
| `KeepsTheDesksPromise` | `Spec => ImplementsDesk` |

The argument. A literal path ends where its parameter's slash begins, whatever the parameter is (`PathToKeepsPlace`),
so the place that classifies a request is its command's; the classification of access.rs by method and path and
that of command.rs by variant then agree case by case (`RequestTier`). A path that `Url` would change is never
sent, so what is on the wire is of the tier that was judged. `BusyWithPermitted` carries the shell's judgement from
the line to the send. For credentials, `ClientHolds` says that a holder's client has the account's signer, unless
it is the client of a one-shot command whose request needs none (`PublicVerbs` with `PublicRequests`); then every
request under way is `Genuine`, no answer is a 401 or 403, and no outcome blames the credentials.

`NoArgumentDropped` needs no invariant beyond where an input comes from. `ParsersHear` says of each parser that what
it makes of an argument that says something is not what it makes of an absent one; `CommandsHaveArguments` that a
command has, field by field, what the parsers made of its call; `ArgumentsMatter` puts them together tool by tool.

The refinement, in three layers. First the data: what the exchange reads from the wire is what the command wishes
for (`SentWire`, over `PlacementRead`, `IdRead` with `ReadBack` for the escapes, and one lemma for each kind of
order), under the client order id it names, or a drawn one if it names none; what reads wishes for nothing. Then
the invariant `DInv`:

| Part | Says | Needed because |
|---|---|---|
| `AsksSound`, `AsksBounded`, `NothingAskedYet` | asks are well-formed and no more than the drawn ids last for | a draw must be new, an ask at most one wish |
| `Approvals`, `WatchedReads` | what is executed and trades is approved (through the MCP server, by the grant of `Trading`); what is polled only reads | the desk takes only approved asks, each once |
| `ClientChosen` | the client in use is of the environment the user chose | the environment is part of the wish |
| `RequestsHonest`, `OneRequestEach`, `NotYetSent` | a request under way that would change the account is of an approved ask that has not happened and that the user believes open or unknown; it does what was wished, there is one per ask, and none before sending | a late request must not act after the user was told that it did not |
| `EffectsHonest` | what happened is what some ask wished, under the id that ask names or drew | once per ask and client order id |
| `AnswersHonest` | a waiting answer is true of the ask that waits for it, which has no other request left | what is told is true |

Last the steps: one lemma for each action (`SendAtDesk`, `ReceiveAtDesk`, `ExchangeAtDesk` and so on) shows that it
keeps `DInv` and is `Ask`, `Approve`, `Take`, `Tell` or a stutter of the desk. An answer that the exchange gives to
a duplicate is the one place where the user is told that something was done which this ask did not do; it is
`Tell`'s second disjunct, by `DuplicateIsDone`.

Model-checked only. The liveness properties of all modules (`SilentPeerReaped`, `ShutdownEndsEverything`,
`StalledBodyEnds`, `NobodyWaitsForAGoneAgent`, `WalkEnds`, `IdleAgentLocks`, `QuitIsHonoured`, `EveryLineAnswered`,
`WaitingEnds`): fairness and `ENABLED` are out of the prover's reach. Every safety property of a passing run, the
two refinements included, is proved.

Noticed without a run, since no document promises otherwise: a public command of the one-shot command line skips
credentials altogether and with them `REVOLUTX_ENVIRONMENT` under `--insecure-env` (`cli/src/creds.rs:60-64`), so
`public-order-book` may read production where the next command trades on dev. It changes nothing on any account.

## 6. Plan

Order is by what a mistake would cost.

1. Done: `Access`, `SigningGate`, `AgentServer` with its proofs; `AgentClient`; `RangeWalk`; `AgentProcess`;
   `McpServer` with its loop over stdin; `OrderDesk` and `CommandPath` with `Requests`, `Commands`, `Credentials` and
   `Surfaces`.
2. Extend `AgentProcess` with the console's list-then-grant (what the operator saw against what `grant` grants) and
   with `vault init` (two at a time).
3. Compose `AgentClient` with `AgentServer`'s session for one connection, so that the client's environment is
   discharged by the server's specification; the abstract specification is a one-slot call channel per caller.
4. Done: proof that `CommandPath` implements `OrderDesk`.
5. Done: theorems for every safety property of the passing runs (section 5). What item 2 and 3 add is to be proved
   with them.

Modules to be proved about use no `RECURSIVE` operators; `Commands` flattens lists with the community modules.

## 7. Not modelled

Cryptography, key derivation and the vault's format (external libraries; a signature is the key and what it covers,
without its timestamp); serde types and formatting; the arithmetic of `Decimal` (amounts are integers); clap's own
parsing and the parsing of dates; terminal handling, completion and presentation; the event log; key generation's
file. An MCP client that never reads what the server writes: `McpServer`'s replies are taken. A range walk enters `CommandPath` by its first query, and the width check of ranges is in `RangeWalk` only.
`src/fix.rs` is a stub. Each component's status is in `PROJECT.json`.
