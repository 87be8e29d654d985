------------------------------ MODULE Commands ------------------------------
(***************************************************************************)
(* src/commands and src/api: the commands every surface translates its     *)
(* input to, the tier each needs, and the request each becomes.            *)
(*                                                                         *)
(* A command is a record with its variant as `op`; amounts are integers,   *)
(* and optional fields Options.  A walk over a date range is represented   *)
(* by its first query: RangeWalk has the walk itself.                      *)
(*                                                                         *)
(* A definition marked "Fault" is a plausible slip in the definition that  *)
(* follows it, kept to confirm that the properties notice it.              *)
(***************************************************************************)
EXTENDS Requests, Integers, TLC

CONSTANTS
  Now,             \* the clock, where a range has no end
  OrderStates,     \* OrderStatus, without Unknown
  OrderTypes       \* OrderType, without Unknown

Sides == {"buy", "sell"}

MarketOps ==
  {"Tickers", "OrderBook", "PublicOrderBook", "Candles", "LastTrades", "AllTrades",
   "Currencies", "Pairs"}

ViewOps ==
  {"Balances", "PrivateTrades", "ActiveOrders", "HistoricalOrders", "GetOrder", "OrderFills"}

TradingOps == {"PlaceLimit", "PlaceMarket", "Replace", "Cancel", "CancelAll"}

(* What only a program on the SDK can ask for: a placement put together by *)
(* hand, checked (place) or not (place_raw).                               *)
LibraryOps == {"Place", "PlaceRaw"}

min_access(command) ==
  CASE command.op \in MarketOps -> Market
    [] command.op \in ViewOps -> View
    [] command.op \in TradingOps \union LibraryOps -> Trading

is_real_trading(command) == min_access(command) = Trading

(* The commands that are about one symbol, and one order, of their path.   *)
SymbolOps == {"OrderBook", "PublicOrderBook", "Candles", "AllTrades", "PrivateTrades"}

IdOps == {"GetOrder", "OrderFills", "Replace", "Cancel"}

(* A "%" is an atom of its own: nobody types an escape as one atom.        *)
Text == Seq(STRING \ {Escaped(atom) : atom \in Reserved})

(* What the type Command says of a command, as far as its path goes.       *)
WellTyped(command) ==
  /\ command.op \in MarketOps \union ViewOps \union TradingOps \union LibraryOps
  /\ command.op \in SymbolOps => command.symbol \in Text
  /\ command.op \in IdOps => command.id \in Text

-----------------------------------------------------------------------------
(* Queries.                                                                *)

Digits(n) == <<ToString(n)>>

Joined(texts) ==
  FlattenSeq([i \in DOMAIN texts |-> IF i = 1 THEN texts[1] ELSE <<",">> \o texts[i]])

comma_joined(key, texts) == IF Joined(texts) = <<>> THEN <<>> ELSE <<<<key, Joined(texts)>>>>

(* The exchange takes BTC-USD where its own pairs map says BTC/USD. *)
dash_symbol(text) == [i \in DOMAIN text |-> IF text[i] = "/" THEN "-" ELSE text[i]]

Dashed(texts) == [i \in DOMAIN texts |-> dash_symbol(texts[i])]

Parameter(key, text) == IF text = None THEN <<>> ELSE <<<<key, OrElse(text, <<>>)>>>>

Number(key, n) == IF n = None THEN <<>> ELSE <<<<key, Digits(OrElse(n, 0))>>>>

(* CandlesQuery. *)
CandlesPairs(q) == Number("interval", q.interval) \o Number("since", q.since) \o Number("until", q.until)

(* TradesQuery, and the dated half of HistoricalOrdersQuery. *)
TradesPairs(q) ==
  Number("start_date", q.start_date) \o Number("end_date", q.end_date)
    \o Parameter("cursor", q.cursor) \o Number("limit", q.limit)

reject_unknown_filters(q) ==
  ~(Range(q.order_states) \subseteq OrderStates /\ Range(q.order_types) \subseteq OrderTypes)

Filters(q) ==
  comma_joined("symbols", Dashed(q.symbols))
    \o comma_joined("order_states", [i \in DOMAIN q.order_states |-> <<q.order_states[i]>>])
    \o comma_joined("order_types", [i \in DOMAIN q.order_types |-> <<q.order_types[i]>>])

ActivePairs(q) ==
  Filters(q) \o Parameter("side", {<<side>> : side \in q.side})
    \o Parameter("cursor", q.cursor) \o Number("limit", q.limit)

HistoricalPairs(q) == Filters(q) \o TradesPairs(q)

(* An explicit start without a cursor walks the whole range. *)
Walks(q) == q.start_date # None /\ q.cursor = None

FirstWindow(q) ==
  IF Walks(q) THEN [q EXCEPT !.end_date = Some(OrElse(@, Now))] ELSE q

RangeRefused(q) ==
  Walks(q) /\ OrElse(q.end_date, Now) < OrElse(q.start_date, Now)

candle_interval(minutes) ==
  minutes \in {1, 5, 15, 30, 60, 240, 1440, 2880, 5760, 10080, 20160, 40320}

-----------------------------------------------------------------------------
(* Orders.                                                                 *)

(* Price::new and Quantity::new. *)
Positive(amount) == amount > 0

(* Fault: a size counts in the base currency whatever was asked. *)
BaseSize(size, in_quote) == [base_size |-> Some(size), quote_size |-> None]

Sized(size, in_quote) ==
  IF in_quote THEN [base_size |-> None, quote_size |-> Some(size)]
  ELSE [base_size |-> Some(size), quote_size |-> None]

validate_one_size(sizes) == (sizes.base_size = None) # (sizes.quote_size = None)

PostOnly(post_only) == IF post_only THEN Some(<<"post_only">>) ELSE None

(* Fault: every build draws an id of its own. *)
AlwaysFresh(client_order_id, fresh) == fresh

OrFresh(client_order_id, fresh) == OrElse(client_order_id, fresh)

(* LimitOrderBuilder::build and MarketOrderBuilder::build. *)
OrderPlacementRequest(order, fresh, configuration) ==
  [client_order_id     |-> OrFresh(order.client_order_id, fresh),
   symbol              |-> dash_symbol(order.symbol),
   side                |-> order.side,
   order_configuration |-> configuration]

LimitPlacement(order, fresh) ==
  OrderPlacementRequest(order, fresh,
    [limit  |-> Some([sizes |-> Sized(order.size, order.in_quote), price |-> order.price,
                      execution_instructions |-> PostOnly(order.post_only)]),
     market |-> None])

MarketPlacement(order, fresh) ==
  OrderPlacementRequest(order, fresh,
    [limit |-> None, market |-> Some([sizes |-> Sized(order.size, order.in_quote)])])

(* OrdersApi::place applies this to whatever it is given. *)
validate_placement(configuration) ==
  /\ (configuration.limit = None) # (configuration.market = None)
  /\ \A chosen \in configuration.limit : validate_one_size(chosen.sizes)
  /\ \A chosen \in configuration.market : validate_one_size(chosen.sizes)

build_replacement(order, fresh) ==
  [client_order_id        |-> OrFresh(order.client_order_id, fresh),
   sizes                  |-> IF order.size = None
                              THEN [base_size |-> None, quote_size |-> None]
                              ELSE Sized(OrElse(order.size, 0), order.in_quote),
   price                  |-> order.price,
   execution_instructions |-> PostOnly(order.post_only)]

(* What is refused before there is a request. *)
Unplaceable(order) == Blank(order.symbol) \/ ~Positive(order.size)

InvalidRequest(command) ==
  CASE command.op = "PlaceLimit"       -> Unplaceable(command) \/ ~Positive(command.price)
    [] command.op = "PlaceMarket"      -> Unplaceable(command)
    [] command.op = "Replace"          -> \/ \E amount \in command.size \union command.price :
                                               ~Positive(amount)
                                          \/ command.size = None /\ command.price = None
    [] command.op = "ActiveOrders"     -> reject_unknown_filters(command.query)
    [] command.op = "HistoricalOrders" -> \/ RangeRefused(command.query)
                                          \/ reject_unknown_filters(command.query)
    [] command.op = "PrivateTrades"    -> RangeRefused(command.query)
    [] command.op = "Place"            -> ~validate_placement(command.request.order_configuration)
    [] OTHER -> FALSE

-----------------------------------------------------------------------------
(* The endpoints of src/api, and execute's one request for a command. *)

At(segments) == [i \in 1..(2 * Len(segments)) |-> IF i % 2 = 1 THEN "/" ELSE segments[i \div 2]]

(* For a symbol, as the last segment of a path. *)
SymbolAt(segments, command) == PathTo(At(segments), dash_symbol(command.symbol))

ReferenceRequest(command) ==
  CASE command.op = "Balances"   -> get(At(<<"balances">>))
    [] command.op = "Currencies" -> get(At(<<"configuration", "currencies">>))
    [] command.op = "Pairs"      -> get(At(<<"configuration", "pairs">>))

MarketDataRequest(command) ==
  CASE command.op = "Tickers" ->
         with_query(get(At(<<"tickers">>)), comma_joined("symbols", Dashed(command.symbols)))
    [] command.op = "OrderBook" ->
         with_query(get(SymbolAt(<<"order-book">>, command)), Number("limit", command.limit))
    [] command.op = "PublicOrderBook" -> public(get(SymbolAt(<<"public", "order-book">>, command)))
    [] command.op = "Candles" ->
         with_query(get(SymbolAt(<<"candles">>, command)), CandlesPairs(command.query))
    [] command.op = "LastTrades" -> public(get(At(<<"public", "last-trades">>)))

TradesRequest(command) ==
  CASE command.op = "AllTrades" ->
         with_query(get(SymbolAt(<<"trades", "all">>, command)), TradesPairs(command.query))
    [] command.op = "PrivateTrades" ->
         with_query(get(SymbolAt(<<"trades", "private">>, command)), TradesPairs(FirstWindow(command.query)))

OrdersRequest(command, fresh) ==
  LET order == PathTo(At(<<"orders">>), command.id)
  IN CASE command.op = "ActiveOrders" ->
            with_query(get(At(<<"orders", "active">>)), ActivePairs(command.query))
       [] command.op = "HistoricalOrders" ->
            with_query(get(At(<<"orders", "historical">>)), HistoricalPairs(FirstWindow(command.query)))
       [] command.op = "GetOrder"    -> get(order)
       [] command.op = "OrderFills"  -> get(PathTo(At(<<"orders", "fills">>), command.id))
       [] command.op = "PlaceLimit"  -> post_json(At(<<"orders">>), LimitPlacement(command, fresh))
       [] command.op = "PlaceMarket" -> post_json(At(<<"orders">>), MarketPlacement(command, fresh))
       [] command.op \in LibraryOps  -> post_json(At(<<"orders">>), command.request)
       [] command.op = "Replace"     -> put_json(order, build_replacement(command, fresh))
       [] command.op = "Cancel"      -> delete(order)
       [] command.op = "CancelAll"   -> delete(At(<<"orders">>))

RequestOf(command, fresh) ==
  CASE command.op \in {"Balances", "Currencies", "Pairs"} -> ReferenceRequest(command)
    [] command.op \in {"AllTrades", "PrivateTrades"} -> TradesRequest(command)
    [] command.op \in MarketOps \ {"AllTrades", "Currencies", "Pairs"} -> MarketDataRequest(command)
    [] OTHER -> OrdersRequest(command, fresh)
=============================================================================
