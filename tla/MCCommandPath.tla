--------------------------- MODULE MCCommandPath ---------------------------
(* A small instance of CommandPath: installations, and what their users    *)
(* enter.                                                                  *)
EXTENDS CommandPath

Pair     == <<"BTC", "/", "USD">>
Parent   == <<".", ".">>
Id       == <<"id1">>
Uuid     == <<"uuid1">>
AtCursor == <<"a", "+", "=">>

MCPems     == {<<"pem">>, <<"old pem">>}
MCUrls     == {Production, Dev, <<"mock">>}
MCUuids    == {Uuid}
MCDecimals == (<<"5">> :> 5) @@ (<<"0">> :> 0) @@ (<<"7">> :> 7)

MCAccount == Ed25519Signer(<<"key">>, <<"pem">>)

(* Installations. *)
NoVariables == [environment |-> None, api_key |-> None, private_key_pem |-> None, private_key_path |-> None]

ByPem  == [NoVariables EXCEPT !.api_key = Some(<<"key">>), !.private_key_pem = Some(<<"pem">>)]
ByFile == [NoVariables EXCEPT !.api_key = Some(<<"key">>), !.private_key_path = Some(<<"key file">>)]

Setup(surface, access) ==
  [surface |-> surface, access |-> access, env |-> None, insecure_env |-> FALSE,
   variables |-> NoVariables,
   files |-> [path \in {<<"key file">>, <<"gone">>} |-> IF path = <<"gone">> THEN None ELSE Some(<<"pem">>)],
   vault |-> init_vault(None, None, <<"pem">>, <<"key">>), unlocks |-> TRUE, base_url |-> None]

FromVariables(surface, variables) ==
  [Setup(surface, Trading) EXCEPT !.insecure_env = TRUE, !.variables = variables, !.vault = None]

OneShots ==
  LET base == Setup("oneshot", Trading)
  IN {base,
      [base EXCEPT !.vault = None],
      [base EXCEPT !.unlocks = FALSE],
      [base EXCEPT !.env = Some(Dev), !.vault = Some([MCAccount EXCEPT !.api_key = None])],
      FromVariables("oneshot", [ByFile EXCEPT !.environment = Some(<<"development">>)]),
      FromVariables("oneshot", [ByPem EXCEPT !.private_key_pem = None]),
      FromVariables("oneshot", [ByPem EXCEPT !.private_key_path = Some(<<"gone">>)]),
      [FromVariables("oneshot", [ByPem EXCEPT !.environment = Some(Dev)]) EXCEPT !.env = Some(Production)]}

Shells ==
  {Setup("shell", access) : access \in AccessLevel}
    \union {[Setup("shell", View) EXCEPT !.vault = None],
            FromVariables("shell", [ByPem EXCEPT !.environment = Some(<<"moon">>)])}

Agents ==
  {Setup("mcp", access) : access \in AccessLevel}
    \union {[Setup("mcp", Trading) EXCEPT !.vault = Some([MCAccount EXCEPT !.private_key_pem = None])]}

Programs ==
  {[Setup("library", Trading) EXCEPT !.base_url = Some(<<"mock">>)],
   [Setup("library", Trading) EXCEPT !.base_url = Some(<<" ">>)],
   FromVariables("library", NoVariables),
   FromVariables("library", [ByPem EXCEPT !.private_key_pem = Some(<<"old pem">>)]),
   FromVariables("library", [ByFile EXCEPT !.environment = Some(Dev)])}

MCSetups == OneShots \union Shells \union Agents \union Programs

-----------------------------------------------------------------------------
(* Tool calls: the required arguments or all of them, with one deviation.  *)

Usual(key) ==
  CASE key = "symbol"           -> String(Pair)
    [] key = "symbols"          -> Strings(<<Pair, Pair>>)
    [] key = "order_id"         -> String(Id)
    [] key = "side"             -> String(<<"buy">>)
    [] key \in {"size", "price"} -> String(<<"5">>)
    [] key = "interval_minutes" -> Integer(5)
    [] key \in {"start_date", "since"} -> Integer(3)
    [] key \in {"end_date", "until", "limit"} -> Integer(8)
    [] key = "cursor"           -> String(AtCursor)
    [] key = "client_order_id"  -> String(Uuid)
    [] key \in {"size_in_quote", "post_only"} -> Boolean(TRUE)

Odd(key) ==
  {Null} \union
    CASE key = "symbol"           -> {String(<<>>), String(Parent), Integer(1)}
      [] key = "symbols"          -> {Strings(<<>>), Mixed(<<Pair>>), String(Pair)}
      [] key = "order_id"         -> {String(<<>>), String(Parent), String(<<"id1", "/">> \o Parent)}
      [] key = "side"             -> {String(<<"sell">>), String(<<"hold">>)}
      [] key \in {"size", "price"} -> {String(<<"0">>), String(<<"x">>), Integer(7), Fraction(7)}
      [] key = "interval_minutes" -> {Integer(7), Fraction(5)}
      [] key \in {"start_date", "since"} -> {Integer(9), String(<<"3">>)}
      [] key \in {"end_date", "until"} -> {Integer(-1), String(<<"8">>), Fraction(8)}
      [] key = "limit"            -> {Integer(-1), Integer(MaxU32 + 1), String(<<"8">>), Fraction(8)}
      [] key = "cursor"           -> {Integer(1)}
      [] key = "client_order_id"  -> {String(<<"mine">>), Integer(1)}
      [] key \in {"size_in_quote", "post_only"} -> {Boolean(FALSE), String(<<"true">>)}

CallsOf(name) ==
  LET schema == Tools[name]
      bases  == {[key \in keys |-> Usual(key)] : keys \in {schema.required, DOMAIN schema.properties}}
  IN bases \union
       UNION {{[base EXCEPT ![key] = value] : value \in Odd(key)} :
                <<base, key>> \in {<<b, k>> \in bases \X DOMAIN schema.properties : k \in DOMAIN b}}

MCCalls ==
  {<<"get_everything", <<>>>>} \union UNION {{<<name, args>> : args \in CallsOf(name)} : name \in DOMAIN Tools}

-----------------------------------------------------------------------------
(* The command line. *)

Bare == <<>>

Dated == [start_date |-> Some(3), end_date |-> None, cursor |-> None, limit |-> Some(8)]
Paged == [Dated EXCEPT !.cursor = Some(AtCursor)]
Filter == [symbols |-> <<Pair>>, order_states |-> <<>>, order_types |-> <<>>]

LimitWords(confirmed) ==
  [symbol |-> Pair, side |-> "buy", size |-> <<"5">>, price |-> <<"7">>, quote |-> TRUE,
   post_only |-> TRUE, client_order_id |-> Some(Uuid), yes |-> confirmed]

MarketWords(confirmed) ==
  [symbol |-> Pair, side |-> "sell", size |-> <<"5">>, quote |-> FALSE,
   client_order_id |-> None, yes |-> confirmed]

ReplaceWords ==
  [id |-> Id, size |-> Some(<<"5">>), price |-> None, quote |-> TRUE, post_only |-> FALSE, yes |-> TRUE]

OrderWords ==
  UNION {{<<"limit", LimitWords(c)>>, <<"market", MarketWords(c)>>, <<"cancel-all", [yes |-> c]>>} :
           c \in BOOLEAN}
    \union {<<"limit", [LimitWords(TRUE) EXCEPT !.size = <<"0">>]>>,
            <<"limit", [LimitWords(TRUE) EXCEPT !.price = <<"x">>]>>,
            <<"limit", [LimitWords(TRUE) EXCEPT !.client_order_id = Some(<<"mine">>)]>>,
            <<"market", [MarketWords(TRUE) EXCEPT !.symbol = <<" ">>]>>,
            <<"replace", ReplaceWords>>,
            <<"replace", [ReplaceWords EXCEPT !.size = None]>>}
    \union {<<"cancel", [id |-> id, yes |-> TRUE]>> : id \in {Id, <<>>, Parent, <<"id1", "/">> \o Parent}}

ReadingWords ==
  {<<verb, Bare>> : verb \in {"balances", "currencies", "pairs", "last-trades"}}
    \union {<<"order-book", [symbol |-> symbol, limit |-> Some(8)]>> : symbol \in {Pair, <<>>, Parent}}
    \union {<<"public-order-book", [symbol |-> Pair]>>, <<"watch", [symbol |-> Pair]>>,
            <<"tickers", [symbols |-> <<Pair>>]>>,
            <<"candles", [symbol |-> Pair, query |-> [interval |-> Some(5), since |-> Some(3), until |-> None]]>>,
            <<"candles", [symbol |-> Pair, query |-> [interval |-> Some(7), since |-> None, until |-> None]]>>,
            <<"active", [query |-> [side |-> Some("buy"), cursor |-> Some(AtCursor), limit |-> None] @@ Filter]>>,
            <<"historical", [query |-> Dated @@ Filter]>>,
            <<"get", [id |-> Id]>>, <<"fills", [id |-> Id]>>}
    \union {<<verb, [symbol |-> Pair, query |-> query]>> : verb \in {"all", "mine"}, query \in {Dated, Paged}}

-----------------------------------------------------------------------------
(* Programs on the SDK. *)

Hand(sizes) ==
  [client_order_id |-> Uuid, symbol |-> <<"BTC", "-", "USD">>, side |-> "buy",
   order_configuration |-> [limit |-> None, market |-> Some([sizes |-> sizes])]]

Placements ==
  {[op |-> op, request |-> Hand(sizes)] :
     op \in LibraryOps,
     sizes \in {Sized(5, TRUE), [base_size |-> Some(5), quote_size |-> Some(7)]}}

Filtered ==
  {[op |-> "ActiveOrders",
    query |-> [side |-> None, cursor |-> None, limit |-> None] @@ [Filter EXCEPT !.order_states = states]] :
     states \in {<<"new">>, <<"unknown">>}}

Built ==
  {[op |-> "PlaceLimit", symbol |-> Pair, side |-> "buy", size |-> 5, price |-> 7, in_quote |-> FALSE,
    post_only |-> FALSE, client_order_id |-> name] : name \in {None, Some(Uuid)}}

MCInputs ==
  [words    |-> OrderWords \union ReadingWords,
   calls    |-> MCCalls,
   commands |-> {<<c.op, c>> : c \in Placements \union Filtered \union Built}]
=============================================================================
