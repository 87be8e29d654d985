--------------------------- MODULE RequestProofs ---------------------------
(***************************************************************************)
(* Proofs about what becomes of a user's input: what the words of the      *)
(* command line and the calls of tools mean, which request a command       *)
(* becomes, and which tier that request is of.  CommandPathProofs cites    *)
(* them.                                                                   *)
(***************************************************************************)
EXTENDS Surfaces, TLAPS

USE DEF None, Some

-----------------------------------------------------------------------------
(* The tier of a request.                                                  *)

(* A path of one or two literal segments has a slash before each.          *)
LEMMA AtOne ==
  ASSUME NEW Atoms, "/" \in Atoms, NEW a \in Atoms
  PROVE  /\ At(<<a>>) \in Seq(Atoms) /\ Len(At(<<a>>)) = 2
         /\ At(<<a>>)[1] = "/" /\ At(<<a>>)[2] = a
<1> DEFINE segments == <<a>>
           piece(i) == IF i % 2 = 1 THEN "/" ELSE segments[i \div 2]
<1>1. segments \in Seq(Atoms) /\ Len(segments) = 1 /\ segments[1] = a
  OBVIOUS
<1>2. piece(1) = "/"
  BY <1>1, 1 % 2 = 1
<1>3. piece(2) = a
  BY <1>1, 2 % 2 = 0, 2 \div 2 = 1
<1> HIDE DEF piece
<1>4. \A i \in 1..2 : piece(i) \in Atoms
  BY <1>2, <1>3
<1>5. At(segments) = [i \in 1..2 |-> piece(i)]
  <2> HIDE DEF segments
  <2>1. 2 * Len(segments) = 2
    BY <1>1
  <2> QED BY <2>1 DEF At, piece
<1> HIDE DEF segments
<1>6. At(segments) \in Seq(Atoms) /\ Len(At(segments)) = 2
  BY <1>4, <1>5
<1> QED BY <1>2, <1>3, <1>5, <1>6 DEF segments

LEMMA AtTwo ==
  ASSUME NEW Atoms, "/" \in Atoms, NEW a \in Atoms, NEW b \in Atoms
  PROVE  /\ At(<<a, b>>) \in Seq(Atoms) /\ Len(At(<<a, b>>)) = 4
         /\ At(<<a, b>>)[1] = "/" /\ At(<<a, b>>)[2] = a
         /\ At(<<a, b>>)[3] = "/" /\ At(<<a, b>>)[4] = b
<1> DEFINE segments == <<a, b>>
           piece(i) == IF i % 2 = 1 THEN "/" ELSE segments[i \div 2]
<1>1. segments \in Seq(Atoms) /\ Len(segments) = 2 /\ segments[1] = a /\ segments[2] = b
  OBVIOUS
<1>2. piece(1) = "/" /\ piece(3) = "/"
  BY <1>1, 1 % 2 = 1, 3 % 2 = 1
<1>3. piece(2) = a /\ piece(4) = b
  BY <1>1, 2 % 2 = 0, 2 \div 2 = 1, 4 % 2 = 0, 4 \div 2 = 2
<1> HIDE DEF piece
<1>4. \A i \in 1..4 : piece(i) \in Atoms
  BY <1>2, <1>3
<1>5. At(segments) = [i \in 1..4 |-> piece(i)]
  <2> HIDE DEF segments
  <2>1. 2 * Len(segments) = 4
    BY <1>1
  <2> QED BY <2>1 DEF At, piece
<1> HIDE DEF segments
<1>6. At(segments) \in Seq(Atoms) /\ Len(At(segments)) = 4
  BY <1>4, <1>5
<1> QED BY <1>2, <1>3, <1>5, <1>6 DEF segments

(* One sequence after another.                                             *)
LEMMA Joining ==
  ASSUME NEW S, NEW s \in Seq(S), NEW t \in Seq(S)
  PROVE  /\ s \o t \in Seq(S) /\ Len(s \o t) = Len(s) + Len(t)
         /\ \A i \in 1..Len(s) : (s \o t)[i] = s[i]
         /\ Len(t) > 0 => (s \o t)[Len(s) + 1] = t[1]
OBVIOUS

(* A parameter is appended behind a slash, whatever is escaped in it: what *)
(* is before it stays as it is.                                            *)
LEMMA PathToKeepsPlace ==
  ASSUME NEW Atoms, NEW place \in Seq(Atoms), NEW Letters, NEW parameter \in Seq(Letters)
  PROVE  LET path == PathTo(place, parameter)
         IN \E atoms :
              /\ path \in Seq(atoms)
              /\ Len(path) = Len(place) + 1 + Len(parameter)
              /\ \A i \in 1..Len(place) : path[i] = place[i]
              /\ path[Len(place) + 1] = "/"
<1> DEFINE coded == encode_component(parameter)
           atoms == Atoms \union {"/"} \union {coded[i] : i \in 1..Len(parameter)}
<1>1. coded \in Seq(atoms) /\ Len(coded) = Len(parameter)
  <2>1. \A i \in 1..Len(parameter) : coded[i] \in atoms
    OBVIOUS
  <2>2. coded = [i \in 1..Len(parameter) |-> coded[i]]
    BY DEF encode_component
  <2>3. Len(parameter) \in Nat
    OBVIOUS
  <2> HIDE DEF coded, atoms
  <2> QED BY <2>1, <2>2, <2>3
<1>2. PathTo(place, parameter) = place \o <<"/">> \o coded
  BY DEF PathTo, coded
<1>3. Atoms \subseteq atoms /\ "/" \in atoms
  OBVIOUS
<1> HIDE DEF coded, atoms
<1>4. place \in Seq(atoms) /\ <<"/">> \in Seq(atoms)
  BY <1>3
<1>5. Len(<<"/">>) = 1 /\ <<"/">>[1] = "/"
  OBVIOUS
<1>6. /\ PathTo(place, parameter) \in Seq(atoms)
      /\ Len(PathTo(place, parameter)) = Len(place) + 1 + Len(parameter)
      /\ \A i \in 1..Len(place) : PathTo(place, parameter)[i] = place[i]
      /\ PathTo(place, parameter)[Len(place) + 1] = "/"
  <2> DEFINE slash == <<"/">>
  <2>1. slash \in Seq(atoms) /\ Len(slash) = 1 /\ slash[1] = "/"
    BY <1>4, <1>5
  <2>2. PathTo(place, parameter) = place \o slash \o coded
    BY <1>2
  <2> HIDE DEF slash
  <2> DEFINE whole == place \o slash \o coded
  <2>3. /\ whole \in Seq(atoms)
        /\ Len(whole) = Len(place) + Len(slash) + Len(coded)
        /\ \A i \in 1..Len(place) : whole[i] = place[i]
        /\ whole[Len(place) + 1] = slash[1]
    <3> DEFINE front == place \o slash
    <3>1. front \in Seq(atoms) /\ Len(front) = Len(place) + 1
      <4>1. front \in Seq(atoms) /\ Len(front) = Len(place) + Len(slash)
        BY <1>4, <2>1, Joining
      <4> QED BY <4>1, <2>1
    <3>2. /\ \A i \in 1..Len(place) : front[i] = place[i]
          /\ front[Len(place) + 1] = slash[1]
      BY <1>4, <2>1, Joining, 1 > 0
    <3> HIDE DEF front
    <3>3. /\ front \o coded \in Seq(atoms) /\ Len(front \o coded) = Len(front) + Len(coded)
          /\ \A i \in 1..Len(front) : (front \o coded)[i] = front[i]
      BY <1>1, <3>1
    <3>4. whole = front \o coded
      BY DEF front
    <3>5. Len(place) \in Nat
      BY <1>4
    <3> QED BY <2>1, <3>1, <3>2, <3>3, <3>4, <3>5
  <2> HIDE DEF whole
  <2> QED BY <1>1, <2>1, <2>2, <2>3 DEF whole
<1> QED BY <1>6


(* What Place makes of a path, by its first segments.                      *)
LEMMA TradesPrefix ==
  ASSUME NEW Atoms, NEW path \in Seq(Atoms), Len(path) > 4
  PROVE  SubSeq(path, 2, 5) = <<"trades", "/", "all", "/">> <=>
           path[2] = "trades" /\ path[3] = "/" /\ path[4] = "all" /\ path[5] = "/"
<1>1. /\ SubSeq(path, 2, 5) \in Seq(Atoms) /\ Len(SubSeq(path, 2, 5)) = 4
      /\ SubSeq(path, 2, 5)[1] = path[2] /\ SubSeq(path, 2, 5)[2] = path[3]
      /\ SubSeq(path, 2, 5)[3] = path[4] /\ SubSeq(path, 2, 5)[4] = path[5]
  OBVIOUS
<1>2. \A s \in Seq(Atoms) : Len(s) = 4 => s = <<s[1], s[2], s[3], s[4]>>
  OBVIOUS
<1>3. SubSeq(path, 2, 5) = <<path[2], path[3], path[4], path[5]>>
  BY <1>1, <1>2
<1>4. \A a, b, c, d, e, f, g, h : <<a, b, c, d>> = <<e, f, g, h>> <=> a = e /\ b = f /\ c = g /\ d = h
  OBVIOUS
<1> QED BY <1>3, <1>4

LEMMA PlaceIsFirstSegment ==
  ASSUME NEW Atoms, NEW path \in Seq(Atoms), Len(path) > 2,
         path[2] \in PublicPaths \ {"tickers", "trades/all"}, path[3] = "/"
  PROVE  Place(path) = path[2]
<1>1. path # <<"/", "tickers">>
  OBVIOUS
<1>2. ~(Len(path) > 4 /\ SubSeq(path, 2, 5) = <<"trades", "/", "all", "/">>)
  BY TradesPrefix DEF PublicPaths
<1> QED BY <1>1, <1>2, Zenon DEF Place

LEMMA PublicPlace ==
  ASSUME NEW Atoms, NEW path \in Seq(Atoms), Len(path) > 2,
         path[2] \in PublicPaths \ {"tickers", "trades/all"}, path[3] = "/"
  PROVE  Place(path) \in PublicPaths
BY PlaceIsFirstSegment

LEMMA AllTradesPlace ==
  ASSUME NEW Atoms, NEW path \in Seq(Atoms), Len(path) > 4,
         path[2] = "trades", path[3] = "/", path[4] = "all", path[5] = "/"
  PROVE  Place(path) \in PublicPaths
<1>1. path # <<"/", "tickers">>
  OBVIOUS
<1>2. SubSeq(path, 2, 5) = <<"trades", "/", "all", "/">>
  BY TradesPrefix
<1>3. path[2] \notin PublicPaths
  BY DEF PublicPaths
<1>4. "trades/all" \in PublicPaths
  BY DEF PublicPaths
<1> QED BY <1>1, <1>2, <1>3, <1>4 DEF Place

LEMMA PrivatePlace ==
  ASSUME NEW Atoms, NEW path \in Seq(Atoms), Len(path) >= 2,
         \/ path[2] \in {"balances", "orders"}
         \/ path[2] = "trades" /\ Len(path) >= 4 /\ path[4] = "private"
  PROVE  Place(path) \notin PublicPaths
<1>1. path # <<"/", "tickers">>
  OBVIOUS
<1>2. path[2] \notin PublicPaths
  BY DEF PublicPaths
<1>3. ~(Len(path) > 4 /\ SubSeq(path, 2, 5) = <<"trades", "/", "all", "/">>)
  BY TradesPrefix
<1>4. "" \notin PublicPaths
  BY DEF PublicPaths
<1> QED BY <1>1, <1>2, <1>3, <1>4 DEF Place

-----------------------------------------------------------------------------
(* Which request a command becomes.                                        *)

Ops == MarketOps \union ViewOps \union TradingOps \union LibraryOps

LEMMA RequestByOp ==
  ASSUME NEW command, NEW fresh
  PROVE  /\ command.op \in {"Balances", "Currencies", "Pairs"} =>
              RequestOf(command, fresh) = ReferenceRequest(command)
         /\ command.op \in {"AllTrades", "PrivateTrades"} =>
              RequestOf(command, fresh) = TradesRequest(command)
         /\ command.op \in {"Tickers", "OrderBook", "PublicOrderBook", "Candles", "LastTrades"} =>
              RequestOf(command, fresh) = MarketDataRequest(command)
         /\ command.op \in (ViewOps \ {"Balances", "PrivateTrades"}) \union TradingOps \union LibraryOps =>
              RequestOf(command, fresh) = OrdersRequest(command, fresh)
<1> DEFINE one == command.op \in {"Balances", "Currencies", "Pairs"}
           two == command.op \in {"AllTrades", "PrivateTrades"}
           three == command.op \in MarketOps \ {"AllTrades", "Currencies", "Pairs"}
<1>1. RequestOf(command, fresh) =
        CASE one -> ReferenceRequest(command) [] two -> TradesRequest(command)
          [] three -> MarketDataRequest(command) [] OTHER -> OrdersRequest(command, fresh)
  BY DEF RequestOf
<1>2. command.op \in {"Balances", "Currencies", "Pairs"} => one /\ ~two /\ ~three
  BY DEF MarketOps
<1>3. command.op \in {"AllTrades", "PrivateTrades"} => ~one /\ two /\ ~three
  BY DEF MarketOps
<1>4. command.op \in {"Tickers", "OrderBook", "PublicOrderBook", "Candles", "LastTrades"} =>
        ~one /\ ~two /\ three
  BY DEF MarketOps
<1>5. command.op \in (ViewOps \ {"Balances", "PrivateTrades"}) \union TradingOps \union LibraryOps =>
        ~one /\ ~two /\ ~three
  BY DEF MarketOps, ViewOps, TradingOps, LibraryOps
<1> HIDE DEF one, two, three
<1>6. one /\ ~two /\ ~three => RequestOf(command, fresh) = ReferenceRequest(command)
  BY <1>1, Zenon
<1>7. ~one /\ two /\ ~three => RequestOf(command, fresh) = TradesRequest(command)
  BY <1>1, Zenon
<1>8. ~one /\ ~two /\ three => RequestOf(command, fresh) = MarketDataRequest(command)
  BY <1>1, Zenon
<1>9. ~one /\ ~two /\ ~three => RequestOf(command, fresh) = OrdersRequest(command, fresh)
  BY <1>1, Zenon
<1> QED BY <1>2, <1>3, <1>4, <1>5, <1>6, <1>7, <1>8, <1>9, Zenon

(* The methods and paths: a query, and leaving out the signature, touch    *)
(* neither.                                                                *)
LEMMA MethodAndPath ==
  ASSUME NEW path, NEW body, NEW query
  PROVE  /\ get(path).method = "GET" /\ get(path).path = path
         /\ with_query(get(path), query).method = "GET" /\ with_query(get(path), query).path = path
         /\ public(get(path)).method = "GET" /\ public(get(path)).path = path
         /\ delete(path).method = "DELETE" /\ delete(path).path = path
         /\ post_json(path, body).method = "POST" /\ post_json(path, body).path = path
         /\ put_json(path, body).method = "PUT" /\ put_json(path, body).path = path
BY DEF get, delete, post_json, put_json, with_query, public, Request

(* What is not read is not asked for with GET.                             *)
LEMMA MutationsAreNotGets ==
  ASSUME NEW command, NEW fresh, command.op \in TradingOps \union LibraryOps
  PROVE  RequestOf(command, fresh).method # "GET"
<1>1. RequestOf(command, fresh) = OrdersRequest(command, fresh)
  BY RequestByOp
<1>2. CASE command.op \in {"PlaceLimit", "PlaceMarket"}
  BY <1>1, <1>2, MethodAndPath DEF OrdersRequest, LibraryOps
<1>3. CASE command.op \in LibraryOps
  BY <1>1, <1>3, MethodAndPath DEF OrdersRequest, LibraryOps
<1>4. CASE command.op \in {"Replace", "Cancel", "CancelAll"}
  BY <1>1, <1>4, MethodAndPath DEF OrdersRequest, LibraryOps
<1> QED BY <1>2, <1>3, <1>4 DEF TradingOps

(* A path that is literal, and one with a parameter behind one or two      *)
(* segments.                                                               *)
LEMMA PathOfOne ==
  ASSUME NEW a, NEW Letters, NEW parameter \in Seq(Letters)
  PROVE  LET path == PathTo(At(<<a>>), parameter)
         IN \E atoms : /\ path \in Seq(atoms) /\ Len(path) > 2
                       /\ path[2] = a /\ path[3] = "/"
<1> DEFINE Atoms == {"/", a}
           place == At(<<a>>)
<1>1. place \in Seq(Atoms) /\ Len(place) = 2 /\ place[2] = a
  BY AtOne
<1>2. Len(parameter) \in Nat
  OBVIOUS
<1> HIDE DEF place, Atoms
<1>3. PICK atoms : LET path == PathTo(place, parameter)
                   IN /\ path \in Seq(atoms)
                      /\ Len(path) = Len(place) + 1 + Len(parameter)
                      /\ \A i \in 1..Len(place) : path[i] = place[i]
                      /\ path[Len(place) + 1] = "/"
  BY <1>1, PathToKeepsPlace
<1> DEFINE path == PathTo(place, parameter)
<1>4. path \in Seq(atoms) /\ Len(path) > 2 /\ path[2] = a /\ path[3] = "/"
  BY <1>1, <1>2, <1>3
<1> QED BY <1>4 DEF place

LEMMA PathOfTwo ==
  ASSUME NEW a, NEW b, NEW Letters, NEW parameter \in Seq(Letters)
  PROVE  LET path == PathTo(At(<<a, b>>), parameter)
         IN \E atoms : /\ path \in Seq(atoms) /\ Len(path) > 4
                       /\ path[2] = a /\ path[3] = "/" /\ path[4] = b /\ path[5] = "/"
<1> DEFINE Atoms == {"/", a, b}
           place == At(<<a, b>>)
<1>1. place \in Seq(Atoms) /\ Len(place) = 4 /\ place[2] = a /\ place[3] = "/" /\ place[4] = b
  BY AtTwo
<1>2. Len(parameter) \in Nat
  OBVIOUS
<1> HIDE DEF place, Atoms
<1>3. PICK atoms : LET path == PathTo(place, parameter)
                   IN /\ path \in Seq(atoms)
                      /\ Len(path) = Len(place) + 1 + Len(parameter)
                      /\ \A i \in 1..Len(place) : path[i] = place[i]
                      /\ path[Len(place) + 1] = "/"
  BY <1>1, PathToKeepsPlace
<1> DEFINE path == PathTo(place, parameter)
<1>4. /\ path \in Seq(atoms) /\ Len(path) > 4
      /\ path[2] = a /\ path[3] = "/" /\ path[4] = b /\ path[5] = "/"
  BY <1>1, <1>2, <1>3
<1> QED BY <1>4 DEF place

(* The symbol as it stands in a path, its slash a dash, is a sequence too. *)
LEMMA DashedText ==
  ASSUME NEW symbol \in Text
  PROVE  dash_symbol(symbol) \in Seq(STRING \union {"-"})
<1>1. \A i \in 1..Len(symbol) : (IF symbol[i] = "/" THEN "-" ELSE symbol[i]) \in STRING \union {"-"}
  BY DEF Text
<1>2. Len(symbol) \in Nat /\ DOMAIN symbol = 1..Len(symbol)
  BY DEF Text
<1> QED BY <1>1, <1>2 DEF dash_symbol

(* Every market command reads a public place.                              *)
LEMMA MarketRequests ==
  ASSUME NEW command, NEW fresh, WellTyped(command), command.op \in MarketOps
  PROVE  /\ RequestOf(command, fresh).method = "GET"
         /\ Place(RequestOf(command, fresh).path) \in PublicPaths
<1> DEFINE request == RequestOf(command, fresh)
           symbol == dash_symbol(command.symbol)
<1>1. command.op \in SymbolOps => symbol \in Seq(STRING \union {"-"})
  BY DashedText DEF WellTyped
<1> DEFINE Public(path) ==
             \E atoms : /\ path \in Seq(atoms) /\ Len(path) > 2
                        /\ path[2] \in PublicPaths \ {"tickers", "trades/all"} /\ path[3] = "/"
<1>2. \A path : Public(path) => Place(path) \in PublicPaths
  BY PublicPlace
<1>3. "order-book" \in PublicPaths \ {"tickers", "trades/all"}
      /\ "public" \in PublicPaths \ {"tickers", "trades/all"}
      /\ "candles" \in PublicPaths \ {"tickers", "trades/all"}
      /\ "configuration" \in PublicPaths \ {"tickers", "trades/all"}
      /\ "tickers" \in PublicPaths
  BY DEF PublicPaths
<1> HIDE DEF symbol
<1>4. CASE command.op \in {"Currencies", "Pairs"}
  <2>1. PICK b : request = get(At(<<"configuration", b>>))
    BY <1>4, RequestByOp DEF ReferenceRequest
  <2>2. Public(At(<<"configuration", b>>))
    <3>1. /\ At(<<"configuration", b>>) \in Seq({"/", "configuration", b})
          /\ Len(At(<<"configuration", b>>)) = 4
          /\ At(<<"configuration", b>>)[2] = "configuration" /\ At(<<"configuration", b>>)[3] = "/"
      BY AtTwo
    <3> QED BY <3>1, <1>3
  <2> QED BY <2>1, <2>2, <1>2, MethodAndPath
<1>5. CASE command.op = "Tickers"
  <2>1. PICK query : request = with_query(get(At(<<"tickers">>)), query)
    BY <1>5, RequestByOp DEF MarketDataRequest
  <2>2. At(<<"tickers">>) = <<"/", "tickers">>
    <3>1. \A s : s \in Seq({"/", "tickers"}) /\ Len(s) = 2 => s = <<s[1], s[2]>>
      OBVIOUS
    <3> QED BY <3>1, AtOne
  <2>3. Place(<<"/", "tickers">>) = "tickers"
    <3>1. Len(<<"/", "tickers">>) = 2
      OBVIOUS
    <3>2. ~(Len(<<"/", "tickers">>) > 2) /\ ~(Len(<<"/", "tickers">>) > 4)
      BY <3>1
    <3> QED BY <3>2, Zenon DEF Place
  <2> QED BY <2>1, <2>2, <2>3, <1>3, MethodAndPath
<1>6. CASE command.op \in {"OrderBook", "Candles"}
  <2> DEFINE a == IF command.op = "OrderBook" THEN "order-book" ELSE "candles"
  <2>1. PICK query : request = with_query(get(PathTo(At(<<a>>), symbol)), query)
    BY <1>6, RequestByOp DEF MarketDataRequest, SymbolAt, symbol
  <2> HIDE DEF a
  <2>2. symbol \in Seq(STRING \union {"-"})
    BY <1>1, <1>6 DEF SymbolOps
  <2>3. Public(PathTo(At(<<a>>), symbol))
    <3>1. a \in PublicPaths \ {"tickers", "trades/all"}
      BY <1>3, <1>6 DEF a
    <3>2. PICK atoms : LET path == PathTo(At(<<a>>), symbol)
                       IN path \in Seq(atoms) /\ Len(path) > 2 /\ path[2] = a /\ path[3] = "/"
      BY <2>2, PathOfOne
    <3> QED BY <3>1, <3>2
  <2> QED BY <2>1, <2>3, <1>2, MethodAndPath
<1>7. CASE command.op = "PublicOrderBook"
  <2>1. request = public(get(PathTo(At(<<"public", "order-book">>), symbol)))
    BY <1>7, RequestByOp DEF MarketDataRequest, SymbolAt, symbol
  <2>2. symbol \in Seq(STRING \union {"-"})
    BY <1>1, <1>7 DEF SymbolOps
  <2>3. Public(PathTo(At(<<"public", "order-book">>), symbol))
    <3>1. PICK atoms : LET path == PathTo(At(<<"public", "order-book">>), symbol)
                       IN path \in Seq(atoms) /\ Len(path) > 4 /\ path[2] = "public" /\ path[3] = "/"
      BY <2>2, PathOfTwo
    <3> QED BY <3>1, <1>3
  <2> QED BY <2>1, <2>3, <1>2, MethodAndPath
<1>8. CASE command.op = "LastTrades"
  <2>1. request = public(get(At(<<"public", "last-trades">>)))
    BY <1>8, RequestByOp DEF MarketDataRequest
  <2>2. Public(At(<<"public", "last-trades">>))
    <3>1. /\ At(<<"public", "last-trades">>) \in Seq({"/", "public", "last-trades"})
          /\ Len(At(<<"public", "last-trades">>)) = 4
          /\ At(<<"public", "last-trades">>)[2] = "public" /\ At(<<"public", "last-trades">>)[3] = "/"
      BY AtTwo
    <3> QED BY <3>1, <1>3
  <2> QED BY <2>1, <2>2, <1>2, MethodAndPath
<1>9. CASE command.op = "AllTrades"
  <2>1. PICK query : request = with_query(get(PathTo(At(<<"trades", "all">>), symbol)), query)
    BY <1>9, RequestByOp DEF TradesRequest, SymbolAt, symbol
  <2>2. symbol \in Seq(STRING \union {"-"})
    BY <1>1, <1>9 DEF SymbolOps
  <2>3. Place(PathTo(At(<<"trades", "all">>), symbol)) \in PublicPaths
    <3>1. PICK atoms : LET path == PathTo(At(<<"trades", "all">>), symbol)
                       IN /\ path \in Seq(atoms) /\ Len(path) > 4
                          /\ path[2] = "trades" /\ path[3] = "/" /\ path[4] = "all" /\ path[5] = "/"
      BY <2>2, PathOfTwo, SMTT(30)
    <3> QED BY <3>1, AllTradesPlace
  <2> QED BY <2>1, <2>3, MethodAndPath
<1> QED BY <1>4, <1>5, <1>6, <1>7, <1>8, <1>9 DEF MarketOps

(* Every view command reads account data.                                  *)
LEMMA ViewRequests ==
  ASSUME NEW command, NEW fresh, WellTyped(command), command.op \in ViewOps
  PROVE  /\ RequestOf(command, fresh).method = "GET"
         /\ Place(RequestOf(command, fresh).path) \notin PublicPaths
<1> DEFINE request == RequestOf(command, fresh)
           symbol == dash_symbol(command.symbol)
           Private(path) ==
             \E atoms : /\ path \in Seq(atoms) /\ Len(path) >= 2
                        /\ path[2] \in {"balances", "orders"}
<1>1. \A path : Private(path) => Place(path) \notin PublicPaths
  BY PrivatePlace
<1>2. CASE command.op = "Balances"
  <2>1. request = get(At(<<"balances">>))
    BY <1>2, RequestByOp DEF ReferenceRequest
  <2>2. Private(At(<<"balances">>))
    <3>1. /\ At(<<"balances">>) \in Seq({"/", "balances"})
          /\ Len(At(<<"balances">>)) = 2 /\ At(<<"balances">>)[2] = "balances"
      BY AtOne
    <3> QED BY <3>1
  <2> QED BY <2>1, <2>2, <1>1, MethodAndPath
<1>3. CASE command.op \in {"ActiveOrders", "HistoricalOrders"}
  <2>1. PICK b, query : request = with_query(get(At(<<"orders", b>>)), query)
    <3>1. request = OrdersRequest(command, fresh)
      BY <1>3, RequestByOp DEF ViewOps
    <3>2. \/ request = with_query(get(At(<<"orders", "active">>)), ActivePairs(command.query))
          \/ request = with_query(get(At(<<"orders", "historical">>)),
                                  HistoricalPairs(FirstWindow(command.query)))
      BY <1>3, <3>1 DEF OrdersRequest, LibraryOps
    <3> HIDE DEF request
    <3> QED BY <3>2
  <2>2. Private(At(<<"orders", b>>))
    <3>1. /\ At(<<"orders", b>>) \in Seq({"/", "orders", b})
          /\ Len(At(<<"orders", b>>)) = 4 /\ At(<<"orders", b>>)[2] = "orders"
      <4> DEFINE Atoms == {"/", "orders", b}
      <4>1. "/" \in Atoms /\ "orders" \in Atoms /\ b \in Atoms
        OBVIOUS
      <4> HIDE DEF Atoms
      <4>2. /\ At(<<"orders", b>>) \in Seq(Atoms)
            /\ Len(At(<<"orders", b>>)) = 4 /\ At(<<"orders", b>>)[2] = "orders"
        BY <4>1, AtTwo
      <4> QED BY <4>2 DEF Atoms
    <3> QED BY <3>1
  <2> QED BY <2>1, <2>2, <1>1, MethodAndPath
<1>4. CASE command.op = "GetOrder"
  <2>1. request = get(PathTo(At(<<"orders">>), command.id))
    BY <1>4, RequestByOp DEF OrdersRequest, ViewOps, LibraryOps
  <2>2. command.id \in Seq(STRING)
    BY <1>4 DEF WellTyped, IdOps, Text
  <2>3. Private(PathTo(At(<<"orders">>), command.id))
    BY <2>2, PathOfOne
  <2> QED BY <2>1, <2>3, <1>1, MethodAndPath
<1>5. CASE command.op = "OrderFills"
  <2>1. request = get(PathTo(At(<<"orders", "fills">>), command.id))
    BY <1>5, RequestByOp DEF OrdersRequest, ViewOps, LibraryOps
  <2>2. command.id \in Seq(STRING)
    BY <1>5 DEF WellTyped, IdOps, Text
  <2>3. Private(PathTo(At(<<"orders", "fills">>), command.id))
    <3> HIDE DEF Private
    <3>1. \A path, atoms : path \in Seq(atoms) /\ Len(path) > 4 /\ path[2] = "orders" => Private(path)
      BY DEF Private
    <3> QED BY <2>2, <3>1, PathOfTwo, SMTT(30)
  <2> QED BY <2>1, <2>3, <1>1, MethodAndPath
<1>6. CASE command.op = "PrivateTrades"
  <2>1. PICK query : request = with_query(get(PathTo(At(<<"trades", "private">>), symbol)), query)
    BY <1>6, RequestByOp DEF TradesRequest, SymbolAt
  <2>2. symbol \in Seq(STRING \union {"-"})
    BY <1>6, DashedText DEF WellTyped, SymbolOps
  <2> HIDE DEF symbol
  <2>3. Place(PathTo(At(<<"trades", "private">>), symbol)) \notin PublicPaths
    <3>1. PICK atoms : LET path == PathTo(At(<<"trades", "private">>), symbol)
                       IN /\ path \in Seq(atoms) /\ Len(path) > 4
                          /\ path[2] = "trades" /\ path[3] = "/" /\ path[4] = "private" /\ path[5] = "/"
      BY <2>2, PathOfTwo
    <3> QED BY <3>1, PrivatePlace
  <2> QED BY <2>1, <2>3, MethodAndPath
<1> QED BY <1>2, <1>3, <1>4, <1>5, <1>6 DEF ViewOps

(* The tier by which the agent judges a request, and the gateway the place *)
(* it is sent to, is the tier by which the surfaces judge the command: for *)
(* every command, whatever symbol or order id it names.                    *)
THEOREM RequestTier ==
  ASSUME NEW command, NEW fresh, WellTyped(command)
  PROVE  TierOf(RequestOf(command, fresh)) = min_access(command)
<1> DEFINE request == RequestOf(command, fresh)
<1>1. CASE command.op \in MarketOps
  <2>1. min_access(command) = Market
    BY <1>1 DEF min_access, MarketOps, ViewOps, TradingOps, LibraryOps
  <2>2. request.method = "GET" /\ Place(request.path) \in PublicPaths
    BY <1>1, MarketRequests
  <2> QED BY <2>1, <2>2 DEF TierOf, required_access_for
<1>2. CASE command.op \in ViewOps
  <2>1. min_access(command) = View
    BY <1>2 DEF min_access, MarketOps, ViewOps, TradingOps, LibraryOps
  <2>2. request.method = "GET" /\ Place(request.path) \notin PublicPaths
    BY <1>2, ViewRequests
  <2> QED BY <2>1, <2>2 DEF TierOf, required_access_for
<1>3. CASE command.op \in TradingOps \union LibraryOps
  <2>1. min_access(command) = Trading
    BY <1>3 DEF min_access, MarketOps, ViewOps, TradingOps, LibraryOps
  <2>2. request.method # "GET"
    BY <1>3, MutationsAreNotGets
  <2> QED BY <2>1, <2>2 DEF TierOf, required_access_for
<1> QED BY <1>1, <1>2, <1>3 DEF WellTyped

-----------------------------------------------------------------------------
(* What an input means: commands of one variant, each well typed.          *)

Meaning(commands) ==
  \E op : \A command \in commands : WellTyped(command) /\ command.op = op

LEMMA OneMeaning ==
  ASSUME NEW command, WellTyped(command)
  PROVE  Meaning({command})
BY DEF Meaning

LEMMA MarketWords ==
  ASSUME NEW verb \in MarketVerbs, NEW w, verb \in SymbolVerbs => w.symbol \in Text
  PROVE  Meaning({a.command : a \in market(verb, w)})
<1> DEFINE commands == {a.command : a \in market(verb, w)}
<1>1. CASE verb \in {"order-book", "watch"}
  <2>1. \A a \in market(verb, w) : a.command.op = "OrderBook" /\ a.command.symbol = w.symbol
    BY <1>1 DEF market, run, Action
  <2> QED BY <1>1, <2>1 DEF Meaning, WellTyped, SymbolVerbs, MarketOps, IdOps
<1>2. CASE verb = "public-order-book"
  <2>1. \A a \in market(verb, w) : a.command.op = "PublicOrderBook" /\ a.command.symbol = w.symbol
    BY <1>2 DEF market, run, Action
  <2> QED BY <1>2, <2>1 DEF Meaning, WellTyped, SymbolVerbs, MarketOps, IdOps
<1>3. CASE verb = "tickers"
  <2>1. \A a \in market(verb, w) : a.command.op = "Tickers"
    BY <1>3 DEF market, run, Action
  <2> QED BY <2>1 DEF Meaning, WellTyped, SymbolOps, MarketOps, IdOps
<1>4. CASE verb = "candles"
  <2>1. \A a \in market(verb, w) : a.command.op = "Candles" /\ a.command.symbol = w.symbol
    BY <1>4 DEF market, run, Action
  <2> QED BY <1>4, <2>1 DEF Meaning, WellTyped, SymbolVerbs, MarketOps, IdOps
<1>5. CASE verb = "last-trades"
  <2>1. \A a \in market(verb, w) : a.command.op = "LastTrades"
    BY <1>5 DEF market, run, Action
  <2> QED BY <2>1 DEF Meaning, WellTyped, SymbolOps, MarketOps, IdOps
<1> QED BY <1>1, <1>2, <1>3, <1>4, <1>5 DEF MarketVerbs

LEMMA OrderWords ==
  ASSUME NEW verb \in {"active", "historical", "get", "fills", "limit", "market", "replace",
                       "cancel", "cancel-all"},
         NEW w, verb \in IdVerbs => w.id \in Text
  PROVE  Meaning({a.command : a \in orders(verb, w)})
<1>1. CASE verb \in {"active", "historical"}
  <2> DEFINE op == IF verb = "active" THEN "ActiveOrders" ELSE "HistoricalOrders"
  <2>1. \A a \in orders(verb, w) : a.command.op = op
    BY <1>1 DEF orders, run, Action
  <2> QED BY <2>1 DEF Meaning, WellTyped, SymbolOps, ViewOps, IdOps
<1>2. CASE verb \in {"get", "fills"}
  <2> DEFINE op == IF verb = "get" THEN "GetOrder" ELSE "OrderFills"
  <2>1. \A a \in orders(verb, w) : a.command.op = op /\ a.command.id = w.id
    BY <1>2 DEF orders, run, Action
  <2> QED BY <1>2, <2>1 DEF Meaning, WellTyped, SymbolOps, ViewOps, IdVerbs
<1>3. CASE verb = "limit"
  <2>1. \A a \in orders(verb, w) : a.command.op = "PlaceLimit"
    BY <1>3 DEF orders, Action
  <2> QED BY <2>1 DEF Meaning, WellTyped, SymbolOps, TradingOps, IdOps
<1>4. CASE verb = "market"
  <2>1. \A a \in orders(verb, w) : a.command.op = "PlaceMarket"
    BY <1>4 DEF orders, Action
  <2> QED BY <2>1 DEF Meaning, WellTyped, SymbolOps, TradingOps, IdOps
<1>5. CASE verb = "replace"
  <2>1. \A a \in orders(verb, w) : a.command.op = "Replace" /\ a.command.id = w.id
    BY <1>5 DEF orders, Action
  <2> QED BY <1>5, <2>1 DEF Meaning, WellTyped, SymbolOps, TradingOps, IdVerbs
<1>6. CASE verb = "cancel"
  <2>1. \A a \in orders(verb, w) : a.command.op = "Cancel" /\ a.command.id = w.id
    BY <1>6 DEF orders, Action
  <2> QED BY <1>6, <2>1 DEF Meaning, WellTyped, SymbolOps, TradingOps, IdVerbs
<1>7. CASE verb = "cancel-all"
  <2>1. \A a \in orders(verb, w) : a.command.op = "CancelAll"
    BY <1>7 DEF orders, Action
  <2> QED BY <2>1 DEF Meaning, WellTyped, SymbolOps, TradingOps, IdOps
<1> QED BY <1>1, <1>2, <1>3, <1>4, <1>5, <1>6, <1>7

(* The words of the command line.                                          *)
LEMMA WordsMean ==
  ASSUME NEW verb \in Verbs, NEW w, verb \in SymbolVerbs => w.symbol \in Text,
         verb \in IdVerbs => w.id \in Text
  PROVE  Meaning({a.command : a \in adapt(verb, w)})
<1>1. CASE verb \in {"balances", "currencies", "pairs"}
  <2> DEFINE op == CASE verb = "balances" -> "Balances" [] verb = "currencies" -> "Currencies"
                     [] verb = "pairs" -> "Pairs"
  <2>1. op \in MarketOps \union ViewOps /\ op \notin SymbolOps /\ op \notin IdOps
    BY <1>1 DEF MarketOps, ViewOps, SymbolOps, IdOps
  <2>2. verb = "balances" => adapt(verb, w) = Some(run([op |-> "Balances"]))
    BY Zenon DEF adapt, MarketVerbs
  <2>3. verb = "currencies" => adapt(verb, w) = Some(run([op |-> "Currencies"]))
    BY Zenon DEF adapt, MarketVerbs
  <2>4. verb = "pairs" => adapt(verb, w) = Some(run([op |-> "Pairs"]))
    BY Zenon DEF adapt, MarketVerbs
  <2>5. \A a \in adapt(verb, w) : a.command.op = op
    BY <1>1, <2>2, <2>3, <2>4 DEF run, Action
  <2> HIDE DEF op
  <2> QED BY <2>1, <2>5 DEF Meaning, WellTyped
<1>2. CASE verb \in MarketVerbs
  <2>1. adapt(verb, w) = market(verb, w)
    BY <1>2, Zenon DEF adapt, MarketVerbs
  <2> QED BY <1>2, <2>1, MarketWords
<1>3. CASE verb \in {"all", "mine"}
  <2>1. adapt(verb, w) = Some(trades(verb, w))
    BY <1>3, Zenon DEF adapt, MarketVerbs
  <2>2. \A a \in adapt(verb, w) : /\ a.command.op = IF verb = "all" THEN "AllTrades" ELSE "PrivateTrades"
                                  /\ a.command.symbol = w.symbol
    BY <2>1 DEF trades, run, Action
  <2> QED BY <1>3, <2>2 DEF Meaning, WellTyped, SymbolVerbs, MarketOps, ViewOps, IdOps
<1>4. CASE verb \in {"active", "historical", "get", "fills", "limit", "market", "replace",
                     "cancel", "cancel-all"}
  <2>1. adapt(verb, w) = orders(verb, w)
    BY <1>4, Zenon DEF adapt, MarketVerbs
  <2> QED BY <1>4, <2>1, OrderWords
<1> QED BY <1>1, <1>2, <1>3, <1>4 DEF Verbs

LEMMA PlainOps ==
  \A name \in DOMAIN Plain : Plain[name] \in {"Balances", "Currencies", "Pairs", "LastTrades", "CancelAll"}
BY DEF Plain

LEMMA ByIdOps ==
  \A name \in DOMAIN ById : ById[name] \in {"GetOrder", "OrderFills", "Cancel"}
BY DEF ById

LEMMA TradesOps ==
  \A name \in DOMAIN Trades : Trades[name] \in {"AllTrades", "PrivateTrades"}
BY DEF Trades

LEMMA StringArguments ==
  ASSUME NEW args, \A key \in DOMAIN args : args[key][1] = "string" => args[key][2] \in Text, NEW key
  PROVE  req_str(args, key) \subseteq Text
BY DEF req_str, Typed

(* The name and arguments of a tool call.                                  *)
LEMMA CallsMean ==
  ASSUME NEW name, NEW args,
         \A key \in DOMAIN args : args[key][1] = "string" => args[key][2] \in Text
  PROVE  Meaning(to_command(name, args))
<1> DEFINE
      symbols == req_str(args, "symbol")
      ids == req_str(args, "order_id")
      plain == name \in DOMAIN Plain
      by_id == name \in DOMAIN ById
      trade == name \in DOMAIN Trades
      plain_commands == {[op |-> Plain[name]]}
      id_commands == {[op |-> ById[name], id |-> id] : id \in ids}
      trade_commands == {[op |-> Trades[name], symbol |-> symbol, query |-> query] :
                           symbol \in symbols, query \in trades_query(args)}
      tickers == {[op |-> "Tickers", symbols |-> list] : list \in opt_str_vec(args, "symbols")}
      book == {[op |-> "OrderBook", symbol |-> symbol, limit |-> limit] :
                 symbol \in symbols, limit \in opt_u32(args, "limit")}
      public_book == {[op |-> "PublicOrderBook", symbol |-> symbol] : symbol \in symbols}
      candles == {[op |-> "Candles", symbol |-> symbol, query |-> query] :
                    symbol \in symbols, query \in candles_query(args)}
      active == {[op |-> "ActiveOrders", query |-> query] : query \in active_query(args)}
      historical == {[op |-> "HistoricalOrders", query |-> query] : query \in historical_query(args)}
      limit == limit_order(args)
      at_market == market_order(args)
      replace == replacement(args)
<1>1. symbols \subseteq Text /\ ids \subseteq Text
  BY StringArguments
<1>2. to_command(name, args) =
        CASE plain -> plain_commands [] by_id -> id_commands [] trade -> trade_commands
          [] name = "get_tickers" -> tickers
          [] name = "get_order_book" -> book
          [] name = "get_public_order_book" -> public_book
          [] name = "get_candles" -> candles
          [] name = "get_active_orders" -> active
          [] name = "get_historical_orders" -> historical
          [] name = "place_limit_order" -> limit
          [] name = "place_market_order" -> at_market
          [] name = "replace_order" -> replace
          [] OTHER -> None
  BY DEF to_command
<1>3. /\ plain <=> name \in {"get_balances", "get_currencies", "get_pairs", "get_last_trades",
                            "cancel_all_orders"}
      /\ by_id <=> name \in {"get_order", "get_order_fills", "cancel_order"}
      /\ trade <=> name \in {"get_all_trades", "get_private_trades"}
  BY DEF Plain, ById, Trades
<1>4. Meaning(None)
  BY DEF Meaning
<1>5. plain => Meaning(plain_commands)
  BY PlainOps DEF Meaning, WellTyped, MarketOps, ViewOps, TradingOps, SymbolOps, IdOps
<1>6. by_id => Meaning(id_commands)
  <2> SUFFICES ASSUME by_id PROVE Meaning(id_commands)
    OBVIOUS
  <2>1. ById[name] \in (ViewOps \union TradingOps) \ SymbolOps
    BY ByIdOps DEF ViewOps, TradingOps, SymbolOps
  <2> QED BY <1>1, <2>1 DEF Meaning, WellTyped
<1>7. trade => Meaning(trade_commands)
  <2> SUFFICES ASSUME trade PROVE Meaning(trade_commands)
    OBVIOUS
  <2>1. Trades[name] \in (MarketOps \union ViewOps) \ IdOps
    BY TradesOps DEF MarketOps, ViewOps, IdOps
  <2> QED BY <1>1, <2>1 DEF Meaning, WellTyped
<1>8. /\ Meaning(tickers) /\ Meaning(book) /\ Meaning(public_book) /\ Meaning(candles)
      /\ Meaning(active) /\ Meaning(historical)
  BY <1>1 DEF Meaning, WellTyped, MarketOps, ViewOps, SymbolOps, IdOps
<1>9. Meaning(limit) /\ Meaning(at_market) /\ Meaning(replace)
  BY <1>1 DEF Meaning, WellTyped, TradingOps, SymbolOps, IdOps, limit_order, market_order, replacement, ids
<1> HIDE DEF plain, by_id, trade, plain_commands, id_commands, trade_commands, tickers, book,
             public_book, candles, active, historical, limit, at_market, replace
<1>10. CASE plain
  BY <1>2, <1>3, <1>5, <1>10, Zenon
<1>11. CASE by_id
  BY <1>2, <1>3, <1>6, <1>11, Zenon
<1>12. CASE trade
  BY <1>2, <1>3, <1>7, <1>12, Zenon
<1>13. CASE name = "get_tickers"
  BY <1>2, <1>3, <1>8, <1>13, Zenon
<1>14. CASE name = "get_order_book"
  BY <1>2, <1>3, <1>8, <1>14, Zenon
<1>15. CASE name = "get_public_order_book"
  BY <1>2, <1>3, <1>8, <1>15, Zenon
<1>16. CASE name = "get_candles"
  BY <1>2, <1>3, <1>8, <1>16, Zenon
<1>17. CASE name = "get_active_orders"
  BY <1>2, <1>3, <1>8, <1>17, Zenon
<1>18. CASE name = "get_historical_orders"
  BY <1>2, <1>3, <1>8, <1>18, Zenon
<1>19. CASE name = "place_limit_order"
  BY <1>2, <1>3, <1>9, <1>19, Zenon
<1>20. CASE name = "place_market_order"
  BY <1>2, <1>3, <1>9, <1>20, Zenon
<1>21. CASE name = "replace_order"
  BY <1>2, <1>3, <1>9, <1>21, Zenon
<1>22. CASE /\ ~plain /\ ~by_id /\ ~trade
           /\ name \notin {"get_tickers", "get_order_book", "get_public_order_book",
                          "get_candles", "get_active_orders", "get_historical_orders",
                          "place_limit_order", "place_market_order", "replace_order"}
  BY <1>2, <1>4, <1>22, Zenon
<1> QED BY <1>10, <1>11, <1>12, <1>13, <1>14, <1>15, <1>16, <1>17, <1>18, <1>19, <1>20, <1>21, <1>22


-----------------------------------------------------------------------------
(* Which requests carry no signature: those of the two commands that read  *)
(* below "/public/".                                                       *)

PublicOps == {"PublicOrderBook", "LastTrades"}

LEMMA QueriesAreSigned ==
  ASSUME NEW path, NEW body, NEW query
  PROVE  /\ get(path).requires_auth = TRUE /\ with_query(get(path), query).requires_auth = TRUE
         /\ delete(path).requires_auth = TRUE /\ public(get(path)).requires_auth = FALSE
         /\ post_json(path, body).requires_auth = TRUE /\ put_json(path, body).requires_auth = TRUE
BY DEF get, delete, post_json, put_json, with_query, public, Request

LEMMA OtherOpsSign ==
  ASSUME NEW command, NEW fresh, WellTyped(command), command.op \notin PublicOps
  PROVE  RequestOf(command, fresh).requires_auth = TRUE
<1> DEFINE request == RequestOf(command, fresh)
<1>1. CASE command.op \in {"Balances", "Currencies", "Pairs"}
  <2>1. PICK path : request = get(path)
    BY <1>1, RequestByOp DEF ReferenceRequest
  <2> QED BY <2>1, QueriesAreSigned
<1>2. CASE command.op \in {"AllTrades", "PrivateTrades"}
  <2>1. PICK path, query : request = with_query(get(path), query)
    BY <1>2, RequestByOp DEF TradesRequest
  <2> QED BY <2>1, QueriesAreSigned
<1>3. CASE command.op \in {"Tickers", "OrderBook", "Candles"}
  <2>1. PICK path, query : request = with_query(get(path), query)
    BY <1>3, RequestByOp DEF MarketDataRequest
  <2> QED BY <2>1, QueriesAreSigned
<1>4. CASE command.op \in {"ActiveOrders", "HistoricalOrders"}
  <2>1. PICK path, query : request = with_query(get(path), query)
    BY <1>4, RequestByOp DEF OrdersRequest, ViewOps, LibraryOps
  <2> QED BY <2>1, QueriesAreSigned
<1>5. CASE command.op \in {"GetOrder", "OrderFills"}
  <2>1. PICK path : request = get(path)
    BY <1>5, RequestByOp DEF OrdersRequest, ViewOps, LibraryOps
  <2> QED BY <2>1, QueriesAreSigned
<1>6. CASE command.op \in TradingOps \union LibraryOps
  <2>1. PICK path, body : request \in {post_json(path, body), put_json(path, body), delete(path)}
    <3>1. request = OrdersRequest(command, fresh)
      BY <1>6, RequestByOp
    <3> QED BY <1>6, <3>1 DEF OrdersRequest, TradingOps, LibraryOps
  <2> QED BY <2>1, QueriesAreSigned
<1> QED BY <1>1, <1>2, <1>3, <1>4, <1>5, <1>6
        DEF WellTyped, PublicOps, MarketOps, ViewOps

LEMMA PublicRequests ==
  ASSUME NEW command, NEW fresh, WellTyped(command), command.op \in PublicOps
  PROVE  /\ RequestOf(command, fresh).requires_auth = FALSE
         /\ Place(RequestOf(command, fresh).path) = "public"
<1> DEFINE request == RequestOf(command, fresh)
<1>1. PICK path, atoms :
        /\ request = public(get(path)) /\ path \in Seq(atoms) /\ Len(path) > 2
        /\ path[2] = "public" /\ path[3] = "/"
  <2>1. CASE command.op = "PublicOrderBook"
    <3> DEFINE symbol == dash_symbol(command.symbol)
               path == PathTo(At(<<"public", "order-book">>), symbol)
    <3>1. request = public(get(path))
      BY <2>1, RequestByOp DEF MarketDataRequest, SymbolAt
    <3>2. symbol \in Seq(STRING \union {"-"})
      BY <2>1, DashedText DEF WellTyped, SymbolOps
    <3> HIDE DEF symbol
    <3>3. PICK atoms : path \in Seq(atoms) /\ Len(path) > 4 /\ path[2] = "public" /\ path[3] = "/"
      BY <3>2, PathOfTwo
    <3>4. Len(path) > 2
      BY <3>3
    <3> HIDE DEF path
    <3> QED BY <3>1, <3>3, <3>4
  <2>2. CASE command.op = "LastTrades"
    <3> DEFINE path == At(<<"public", "last-trades">>)
    <3>1. request = public(get(path))
      BY <2>2, RequestByOp DEF MarketDataRequest
    <3>2. /\ path \in Seq({"/", "public", "last-trades"}) /\ Len(path) = 4
          /\ path[2] = "public" /\ path[3] = "/"
      BY AtTwo
    <3> HIDE DEF path
    <3> QED BY <3>1, <3>2
  <2> QED BY <2>1, <2>2 DEF PublicOps
<1>2. Place(path) = "public"
  <2>1. "public" \in PublicPaths \ {"tickers", "trades/all"}
    BY DEF PublicPaths
  <2> QED BY <1>1, <2>1, PlaceIsFirstSegment
<1>3. public(get(path)).path = path /\ public(get(path)).requires_auth = FALSE
  BY MethodAndPath, QueriesAreSigned
<1>4. request.requires_auth = FALSE /\ request.path = path
  BY <1>1, <1>3
<1> HIDE DEF request
<1>5. request.requires_auth = FALSE /\ Place(request.path) = "public"
  BY <1>2, <1>4
<1> QED BY <1>5 DEF request
=============================================================================
