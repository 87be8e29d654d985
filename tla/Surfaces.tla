------------------------------ MODULE Surfaces ------------------------------
(***************************************************************************)
(* How a user's input becomes a command: the tools of the MCP server       *)
(* (mcp/src/tools.rs) and the words of the command line                    *)
(* (cli/src/args.rs, cli/src/adapter.rs).  Operators only.                 *)
(*                                                                         *)
(* A Result that can be an error is the empty set for the error and a      *)
(* singleton for the value; a parsed optional argument is such a set of    *)
(* Options.  Clap's own parsing is external: words arrive as the typed     *)
(* fields that args.rs declares.                                           *)
(*                                                                         *)
(* A definition marked "Fault" is a plausible slip in the definition that  *)
(* follows it, kept to confirm that the properties notice it.              *)
(***************************************************************************)
EXTENDS Commands

CONSTANTS
  Decimals,   \* the texts that parse as a decimal, and their values
  Uuids,      \* the texts that parse as a UUID
  MaxU32      \* u32::MAX

-----------------------------------------------------------------------------
(* JSON values, as far as the parsers tell them apart.                     *)

String(text)  == <<"string", text>>
Integer(n)    == <<"integer", n>>
Fraction(x)   == <<"fraction", x>>
Boolean(b)    == <<"boolean", b>>
Strings(list) == <<"strings", list>>       \* an array of strings
Mixed(list)   == <<"array", list>>         \* an array with something else in it
Null          == <<"null", "null">>

Typed(args, key, type) ==
  {args[k][2] : k \in {k \in DOMAIN args : k = key /\ args[k][1] = type}}

(* What is absent or null is no argument; what has the wrong type is an    *)
(* error rather than none.                                                 *)
Optional(args, key, values) ==
  IF key \notin DOMAIN args \/ (key \in DOMAIN args /\ args[key] = Null) THEN {None}
  ELSE {Some(value) : value \in values}

req_str(args, key)  == Typed(args, key, "string")
opt_str(args, key)  == Optional(args, key, req_str(args, key))
opt_i64(args, key)  == Optional(args, key, Typed(args, key, "integer"))
opt_bool(args, key) == {OrElse(b, FALSE) : b \in Optional(args, key, Typed(args, key, "boolean"))}

Unsigned(args, key) == {n \in Typed(args, key, "integer") : 0 <= n /\ n <= MaxU32}

(* Fault: what is not a number in range counts as no argument. *)
Lenient(args, key) ==
  IF Unsigned(args, key) = {} THEN {None} ELSE Optional(args, key, Unsigned(args, key))

opt_u32(args, key) == Optional(args, key, Unsigned(args, key))

opt_str_vec(args, key) ==
  {OrElse(list, <<>>) : list \in Optional(args, key, Typed(args, key, "strings"))}

(* A decimal is a string, or an integer; a fractional number lost digits. *)
req_decimal(args, key) ==
  Typed(args, key, "integer") \union {Decimals[t] : t \in req_str(args, key) \intersect DOMAIN Decimals}

opt_decimal(args, key) == Optional(args, key, req_decimal(args, key))

req_side(args) == {side \in Sides : <<side>> \in req_str(args, "side")}

(* A null side is not an absent one. *)
opt_side(args) == IF "side" \notin DOMAIN args THEN {None} ELSE {Some(side) : side \in req_side(args)}

opt_client_order_id(args) == {id \in opt_str(args, "client_order_id") : id \subseteq Uuids}

opt_candle_interval(args) ==
  {interval \in opt_i64(args, "interval_minutes") : \A minutes \in interval : candle_interval(minutes)}

-----------------------------------------------------------------------------
(* tools::list: what the catalog says each tool takes.                     *)

Schema(required, properties) == [required |-> required, properties |-> properties]

NoArguments     == Schema({}, <<>>)
symbol_schema   == Schema({"symbol"}, [symbol |-> "string"])
order_id_schema == Schema({"order_id"}, [order_id |-> "string"])
trades_schema ==
  Schema({"symbol"}, [symbol |-> "string", start_date |-> "integer", end_date |-> "integer",
                      cursor |-> "string", limit |-> "integer"])

(* The tools without arguments, and their commands. *)
Plain ==
  [get_balances |-> "Balances", get_currencies |-> "Currencies", get_pairs |-> "Pairs",
   get_last_trades |-> "LastTrades", cancel_all_orders |-> "CancelAll"]

ById == [get_order |-> "GetOrder", get_order_fills |-> "OrderFills", cancel_order |-> "Cancel"]

Trades == [get_all_trades |-> "AllTrades", get_private_trades |-> "PrivateTrades"]

Various ==
  [get_tickers |-> Schema({}, [symbols |-> "strings"]),
   get_order_book |-> Schema({"symbol"}, [symbol |-> "string", limit |-> "integer"]),
   get_public_order_book |-> symbol_schema,
   get_candles |-> Schema({"symbol"}, [symbol |-> "string", interval_minutes |-> "integer",
                                       since |-> "integer", until |-> "integer"]),
   get_active_orders |-> Schema({}, [symbols |-> "strings", side |-> "string",
                                     cursor |-> "string", limit |-> "integer"]),
   get_historical_orders |-> Schema({}, [symbols |-> "strings", start_date |-> "integer",
                                         end_date |-> "integer", cursor |-> "string",
                                         limit |-> "integer"]),
   place_limit_order |-> Schema({"symbol", "side", "size", "price"},
                                [symbol |-> "string", side |-> "string", size |-> "string",
                                 price |-> "string", size_in_quote |-> "boolean",
                                 post_only |-> "boolean", client_order_id |-> "string"]),
   place_market_order |-> Schema({"symbol", "side", "size"},
                                 [symbol |-> "string", side |-> "string", size |-> "string",
                                  size_in_quote |-> "boolean", client_order_id |-> "string"]),
   replace_order |-> Schema({"order_id"},
                            [order_id |-> "string", size |-> "string", price |-> "string",
                             size_in_quote |-> "boolean", post_only |-> "boolean",
                             client_order_id |-> "string"])]

Tools ==
  [name \in UNION {DOMAIN Plain, DOMAIN ById, DOMAIN Trades, DOMAIN Various} |->
     CASE name \in DOMAIN Plain  -> NoArguments
       [] name \in DOMAIN ById   -> order_id_schema
       [] name \in DOMAIN Trades -> trades_schema
       [] OTHER                  -> Various[name]]

-----------------------------------------------------------------------------
(* to_command.                                                             *)

trades_query(args) ==
  {[start_date |-> start, end_date |-> end, cursor |-> cursor, limit |-> limit] :
     start \in opt_i64(args, "start_date"), end \in opt_i64(args, "end_date"),
     cursor \in opt_str(args, "cursor"), limit \in opt_u32(args, "limit")}

candles_query(args) ==
  {[interval |-> interval, since |-> since, until |-> until] :
     interval \in opt_candle_interval(args), since \in opt_i64(args, "since"),
     until \in opt_i64(args, "until")}

active_query(args) ==
  {[symbols |-> symbols, order_states |-> <<>>, order_types |-> <<>>, side |-> side,
    cursor |-> cursor, limit |-> limit] :
     symbols \in opt_str_vec(args, "symbols"), side \in opt_side(args),
     cursor \in opt_str(args, "cursor"), limit \in opt_u32(args, "limit")}

historical_query(args) ==
  {[symbols |-> symbols, order_states |-> <<>>, order_types |-> <<>>,
    start_date |-> dated.start_date, end_date |-> dated.end_date,
    cursor |-> dated.cursor, limit |-> dated.limit] :
     symbols \in opt_str_vec(args, "symbols"), dated \in trades_query(args)}

limit_order(args) ==
  {[op |-> "PlaceLimit", symbol |-> symbol, side |-> side, size |-> size, price |-> price,
    in_quote |-> quote, post_only |-> post_only, client_order_id |-> id] :
     symbol \in req_str(args, "symbol"), side \in req_side(args),
     size \in req_decimal(args, "size"), price \in req_decimal(args, "price"),
     quote \in opt_bool(args, "size_in_quote"), post_only \in opt_bool(args, "post_only"),
     id \in opt_client_order_id(args)}

market_order(args) ==
  {[op |-> "PlaceMarket", symbol |-> symbol, side |-> side, size |-> size, in_quote |-> quote,
    client_order_id |-> id] :
     symbol \in req_str(args, "symbol"), side \in req_side(args),
     size \in req_decimal(args, "size"), quote \in opt_bool(args, "size_in_quote"),
     id \in opt_client_order_id(args)}

replacement(args) ==
  {[op |-> "Replace", id |-> order, size |-> size, price |-> price, in_quote |-> quote,
    post_only |-> post_only, client_order_id |-> id] :
     order \in req_str(args, "order_id"),
     size \in opt_decimal(args, "size"), price \in opt_decimal(args, "price"),
     quote \in opt_bool(args, "size_in_quote"), post_only \in opt_bool(args, "post_only"),
     id \in opt_client_order_id(args)}

to_command(name, args) ==
  CASE name \in DOMAIN Plain -> Some([op |-> Plain[name]])
    [] name \in DOMAIN ById  -> {[op |-> ById[name], id |-> id] : id \in req_str(args, "order_id")}
    [] name \in DOMAIN Trades ->
         {[op |-> Trades[name], symbol |-> symbol, query |-> query] :
            symbol \in req_str(args, "symbol"), query \in trades_query(args)}
    [] name = "get_tickers" ->
         {[op |-> "Tickers", symbols |-> symbols] : symbols \in opt_str_vec(args, "symbols")}
    [] name = "get_order_book" ->
         {[op |-> "OrderBook", symbol |-> symbol, limit |-> limit] :
            symbol \in req_str(args, "symbol"), limit \in opt_u32(args, "limit")}
    [] name = "get_public_order_book" ->
         {[op |-> "PublicOrderBook", symbol |-> symbol] : symbol \in req_str(args, "symbol")}
    [] name = "get_candles" ->
         {[op |-> "Candles", symbol |-> symbol, query |-> query] :
            symbol \in req_str(args, "symbol"), query \in candles_query(args)}
    [] name = "get_active_orders" ->
         {[op |-> "ActiveOrders", query |-> query] : query \in active_query(args)}
    [] name = "get_historical_orders" ->
         {[op |-> "HistoricalOrders", query |-> query] : query \in historical_query(args)}
    [] name = "place_limit_order"  -> limit_order(args)
    [] name = "place_market_order" -> market_order(args)
    [] name = "replace_order"      -> replacement(args)
    [] OTHER -> None                                          \* unknown tool

-----------------------------------------------------------------------------
(* The command line.  A verb and its words: text as it was typed, options  *)
(* as Options, flags as Booleans.                                          *)

(* Fault: tickers pass for a public command. *)
TickersPublic(verb) == verb \notin {"public-order-book", "last-trades", "tickers"}

needs_secrets(verb) == verb \notin {"public-order-book", "last-trades"}

(* What adapt makes of the words: the command, whether --yes was given for *)
(* it, and whether it is polled (market watch) rather than run once.       *)
Action(command, confirmed, watch) ==
  [command |-> command, confirmed |-> confirmed, watch |-> watch]

run(command) == Action(command, TRUE, FALSE)

parse_decimal(text) == {Decimals[t] : t \in {text} \intersect DOMAIN Decimals}

parse_optional(text) == IF text = None THEN {None} ELSE {Some(n) : n \in parse_decimal(OrElse(text, <<>>))}

parse_client_order_id(text) == {id \in {text} : id \subseteq Uuids}

market(verb, w) ==
  CASE verb = "order-book" ->
         Some(run([op |-> "OrderBook", symbol |-> w.symbol, limit |-> w.limit]))
    [] verb = "public-order-book" -> Some(run([op |-> "PublicOrderBook", symbol |-> w.symbol]))
    [] verb = "tickers" -> Some(run([op |-> "Tickers", symbols |-> w.symbols]))
    [] verb = "candles" ->
         {run([op |-> "Candles", symbol |-> w.symbol, query |-> query]) :
            query \in {q \in {w.query} : \A minutes \in q.interval : candle_interval(minutes)}}
    [] verb = "last-trades" -> Some(run([op |-> "LastTrades"]))
    [] verb = "watch" ->
         Some(Action([op |-> "OrderBook", symbol |-> w.symbol, limit |-> None], TRUE, TRUE))

trades(verb, w) ==
  run([op |-> IF verb = "all" THEN "AllTrades" ELSE "PrivateTrades",
       symbol |-> w.symbol, query |-> w.query])

orders(verb, w) ==
  CASE verb = "active"     -> Some(run([op |-> "ActiveOrders", query |-> w.query]))
    [] verb = "historical" -> Some(run([op |-> "HistoricalOrders", query |-> w.query]))
    [] verb = "get"        -> Some(run([op |-> "GetOrder", id |-> w.id]))
    [] verb = "fills"      -> Some(run([op |-> "OrderFills", id |-> w.id]))
    [] verb = "limit" ->
         {Action([op |-> "PlaceLimit", symbol |-> w.symbol, side |-> w.side, size |-> size,
                  price |-> price, in_quote |-> w.quote, post_only |-> w.post_only,
                  client_order_id |-> id], w.yes, FALSE) :
            size \in parse_decimal(w.size), price \in parse_decimal(w.price),
            id \in parse_client_order_id(w.client_order_id)}
    [] verb = "market" ->
         {Action([op |-> "PlaceMarket", symbol |-> w.symbol, side |-> w.side, size |-> size,
                  in_quote |-> w.quote, client_order_id |-> id], w.yes, FALSE) :
            size \in parse_decimal(w.size), id \in parse_client_order_id(w.client_order_id)}
    [] verb = "replace" ->
         {Action([op |-> "Replace", id |-> w.id, size |-> size, price |-> price,
                  in_quote |-> w.quote, post_only |-> w.post_only,
                  client_order_id |-> None], w.yes, FALSE) :
            size \in parse_optional(w.size), price \in parse_optional(w.price)}
    [] verb = "cancel"     -> Some(Action([op |-> "Cancel", id |-> w.id], w.yes, FALSE))
    [] verb = "cancel-all" -> Some(Action([op |-> "CancelAll"], w.yes, FALSE))

MarketVerbs ==
  {"order-book", "public-order-book", "tickers", "candles", "last-trades", "watch"}

(* The verbs of args.rs, those that name a symbol to read of, and those    *)
(* that name an order.                                                     *)
Verbs ==
  MarketVerbs \union
    {"balances", "currencies", "pairs", "all", "mine", "active", "historical", "get", "fills",
     "limit", "market", "replace", "cancel", "cancel-all"}

SymbolVerbs == {"order-book", "public-order-book", "candles", "watch", "all", "mine"}

IdVerbs == {"get", "fills", "replace", "cancel"}

adapt(verb, w) ==
  CASE verb = "balances"        -> Some(run([op |-> "Balances"]))
    [] verb = "currencies"      -> Some(run([op |-> "Currencies"]))
    [] verb = "pairs"           -> Some(run([op |-> "Pairs"]))
    [] verb \in MarketVerbs     -> market(verb, w)
    [] verb \in {"all", "mine"} -> Some(trades(verb, w))
    [] OTHER                    -> orders(verb, w)
=============================================================================
