----------------------------- MODULE DeskProofs -----------------------------
(***************************************************************************)
(* CommandPath implements OrderDesk: whatever the installation, the input  *)
(* and the network, what happens to the account is what was asked for and  *)
(* approved, once, and what the user is told of it is true.                *)
(***************************************************************************)
EXTENDS CommandPathProofs, FiniteSetTheorems

USE DEF None, Some

-----------------------------------------------------------------------------
(* What the exchange reads from a request is what its command wishes for.  *)

(* Each character has an escape of its own.                                *)
LEMMA Escapes ==
  /\ Escaped("/") = "%2F" /\ Escaped(" ") = "%20" /\ Escaped("%") = "%25"
  /\ Escaped("?") = "%3F" /\ Escaped("=") = "%3D" /\ Escaped("+") = "%2B"
BY DEF Escaped

LEMMA EscapesDiffer ==
  \A one, other \in Reserved : Escaped(one) = Escaped(other) => one = other
BY Escapes DEF Reserved

(* Escaping and reading it back gives the text again.                      *)
LEMMA ReadBack ==
  ASSUME NEW text \in Text
  PROVE  Unescaped(encode_component(text)) = text
<1> DEFINE codes == {Escaped(r) : r \in Reserved}
           coded == [i \in DOMAIN text |-> IF text[i] \in Reserved THEN Escaped(text[i]) ELSE text[i]]
<1>1. \A i \in DOMAIN text : text[i] \notin codes
  BY DEF Text
<1>2. ASSUME NEW i \in DOMAIN text
      PROVE  (IF coded[i] \in codes THEN CHOOSE r \in Reserved : coded[i] = Escaped(r) ELSE coded[i]) = text[i]
  <2>1. CASE text[i] \in Reserved
    <3>1. coded[i] = Escaped(text[i]) /\ coded[i] \in codes
      BY <2>1
    <3>2. \A r \in Reserved : coded[i] = Escaped(r) => r = text[i]
      BY <2>1, <3>1, EscapesDiffer
    <3> HIDE DEF coded, codes
    <3>3. (CHOOSE r \in Reserved : coded[i] = Escaped(r)) = text[i]
      BY <2>1, <3>1, <3>2
    <3> QED BY <3>1, <3>3
  <2>2. CASE text[i] \notin Reserved
    BY <1>1, <2>2
  <2> QED BY <2>1, <2>2
<1>3. encode_component(text) = coded
  BY DEF encode_component
<1>4. Unescaped(coded) =
        [i \in DOMAIN text |-> IF coded[i] \in codes THEN CHOOSE r \in Reserved : coded[i] = Escaped(r)
                               ELSE coded[i]]
  BY DEF Unescaped
<1>5. text = [i \in DOMAIN text |-> text[i]]
  BY DEF Text
<1> HIDE DEF coded, codes
<1>6. Unescaped(coded) = text
  BY <1>2, <1>4, <1>5
<1> QED BY <1>3, <1>6

LEMMA OrdersAt ==
  At(<<"orders">>) = OrdersPath
<1>1. \A s : s \in Seq({"/", "orders"}) /\ Len(s) = 2 => s = <<s[1], s[2]>>
  OBVIOUS
<1> QED BY <1>1, AtOne DEF OrdersPath

(* A sequence behind another.                                              *)
LEMMA Behind ==
  ASSUME NEW Atoms, NEW front \in Seq(Atoms), NEW back \in Seq(Atoms)
  PROVE  /\ front \o back \in Seq(Atoms) /\ Len(front \o back) = Len(front) + Len(back)
         /\ \A i \in 1..Len(front) : (front \o back)[i] = front[i]
         /\ \A i \in 1..Len(back) : (front \o back)[Len(front) + i] = back[i]
         /\ SubSeq(front \o back, 1, Len(front)) = front
         /\ SubSeq(front \o back, Len(front) + 1, Len(front \o back)) = back
<1> DEFINE both == front \o back
<1>1. /\ both \in Seq(Atoms) /\ Len(both) = Len(front) + Len(back)
      /\ \A i \in 1..Len(front) : both[i] = front[i]
      /\ \A i \in 1..Len(back) : both[Len(front) + i] = back[i]
  OBVIOUS
<1> HIDE DEF both
<1>2. SubSeq(both, 1, Len(front)) = front
  BY <1>1
<1>3. SubSeq(both, Len(front) + 1, Len(both)) = back
  <2>1. Len(front) \in Nat /\ Len(back) \in Nat
    OBVIOUS
  <2>2. SubSeq(both, Len(front) + 1, Len(both)) = [i \in 1..Len(back) |-> both[Len(front) + i]]
    BY <1>1, <2>1
  <2>3. back = [i \in 1..Len(back) |-> back[i]]
    OBVIOUS
  <2> QED BY <1>1, <2>2, <2>3
<1> QED BY <1>1, <1>2, <1>3 DEF both


(* The path of one order, and the id in it: the command's.                 *)
LEMMA IdRead ==
  ASSUME NEW id \in Text
  PROVE  /\ Len(PathTo(OrdersPath, id)) = 3 + Len(id)
         /\ IdIn(PathTo(OrdersPath, id)) = id
<1> DEFINE coded == encode_component(id)
           front == <<"/", "orders", "/">>
           Atoms == {"/", "orders"} \union {coded[i] : i \in DOMAIN id}
<1>1. coded \in Seq(Atoms) /\ Len(coded) = Len(id)
  <2>1. \A i \in DOMAIN id : coded[i] \in Atoms
    OBVIOUS
  <2>2. coded = [i \in DOMAIN id |-> coded[i]] /\ DOMAIN id = 1..Len(id) /\ Len(id) \in Nat
    BY DEF encode_component, Text
  <2> HIDE DEF coded, Atoms
  <2> QED BY <2>1, <2>2
<1>2. front \in Seq(Atoms) /\ Len(front) = 3
  OBVIOUS
<1>3. PathTo(OrdersPath, id) = front \o coded
  BY DEF PathTo, OrdersPath
<1>4. Unescaped(coded) = id
  BY ReadBack
<1> DEFINE both == front \o coded
<1> HIDE DEF coded, Atoms, front
<1>5. Len(both) = Len(front) + Len(coded) /\ SubSeq(both, Len(front) + 1, Len(both)) = coded
  <2>1. front \in Seq(Atoms) /\ coded \in Seq(Atoms)
    BY <1>1, <1>2
  <2>2. /\ Len(front \o coded) = Len(front) + Len(coded)
        /\ SubSeq(front \o coded, Len(front) + 1, Len(front \o coded)) = coded
    BY <2>1, Behind
  <2> QED BY <2>2
<1> HIDE DEF both
<1>6. Len(both) = 3 + Len(id) /\ SubSeq(both, 4, Len(both)) = coded
  BY <1>1, <1>2, <1>5
<1>7. PathTo(OrdersPath, id) = both
  BY <1>3 DEF both
<1> QED BY <1>4, <1>6, <1>7 DEF IdIn

(* It is not the path of all orders.                                       *)
LEMMA OneIsNotAll ==
  ASSUME NEW id \in Text
  PROVE  PathTo(OrdersPath, id) # OrdersPath
<1>1. Len(id) \in Nat
  BY DEF Text
<1>2. Len(OrdersPath) = 2
  BY DEF OrdersPath
<1>3. Len(PathTo(OrdersPath, id)) = 3 + Len(id)
  BY IdRead
<1>4. 3 + Len(id) # 2
  BY <1>1
<1> QED BY <1>2, <1>3, <1>4

-----------------------------------------------------------------------------
(* The exchange's reading, and the SDK's request, by kind.                 *)
LEMMA Readings ==
  ASSUME NEW wire
  PROVE  /\ wire.method = "GET" => Reading(wire) = None
         /\ wire.method = "POST" /\ wire.path = OrdersPath =>
              Reading(wire) = UNION {Placement(p) : p \in wire.body}
         /\ wire.method = "PUT" =>
              \/ Reading(wire) = None
              \/ Reading(wire) =
                   {Replacement(IdIn(wire.path), SizeOf(r.sizes), UnitOf(r.sizes), r.price,
                                r.execution_instructions) : r \in wire.body}
         /\ wire.method = "DELETE" /\ wire.path = OrdersPath =>
              Reading(wire) = Some([kind |-> "cancel all"])
         /\ wire.method = "DELETE" /\ wire.path # OrdersPath =>
              \/ Reading(wire) = None
              \/ Reading(wire) = Some([kind |-> "cancel", id |-> IdIn(wire.path)])
<1>1. ~OneOrder(OrdersPath)
  <2>1. Len(OrdersPath) = 2
    BY DEF OrdersPath
  <2> QED BY <2>1 DEF OneOrder
<1>2. wire.method = "GET" => Reading(wire) = None
  BY DEF Reading
<1>3. wire.method = "POST" /\ wire.path = OrdersPath =>
        Reading(wire) = UNION {Placement(p) : p \in wire.body}
  BY DEF Reading
<1>4. wire.method = "PUT" =>
        \/ Reading(wire) = None
        \/ Reading(wire) =
             {Replacement(IdIn(wire.path), SizeOf(r.sizes), UnitOf(r.sizes), r.price,
                          r.execution_instructions) : r \in wire.body}
  BY DEF Reading
<1>5. wire.method = "DELETE" /\ wire.path = OrdersPath =>
        Reading(wire) = Some([kind |-> "cancel all"])
  BY <1>1 DEF Reading
<1>6. wire.method = "DELETE" /\ wire.path # OrdersPath =>
        \/ Reading(wire) = None
        \/ Reading(wire) = Some([kind |-> "cancel", id |-> IdIn(wire.path)])
  BY DEF Reading
<1> QED BY <1>2, <1>3, <1>4, <1>5, <1>6

LEMMA OrderRequests ==
  ASSUME NEW command, NEW fresh
  PROVE  /\ command.op = "PlaceLimit" =>
              RequestOf(command, fresh) = post_json(OrdersPath, LimitPlacement(command, fresh))
         /\ command.op = "PlaceMarket" =>
              RequestOf(command, fresh) = post_json(OrdersPath, MarketPlacement(command, fresh))
         /\ command.op \in LibraryOps =>
              RequestOf(command, fresh) = post_json(OrdersPath, command.request)
         /\ command.op = "Replace" =>
              RequestOf(command, fresh) =
                put_json(PathTo(OrdersPath, command.id), build_replacement(command, fresh))
         /\ command.op = "Cancel" => RequestOf(command, fresh) = delete(PathTo(OrdersPath, command.id))
         /\ command.op = "CancelAll" => RequestOf(command, fresh) = delete(OrdersPath)
<1>1. command.op \in TradingOps \union LibraryOps =>
        RequestOf(command, fresh) = OrdersRequest(command, fresh)
  BY RequestByOp
<1>2. {"PlaceLimit", "PlaceMarket", "Replace", "Cancel", "CancelAll"} = TradingOps
  BY DEF TradingOps
<1>3. command.op = "PlaceLimit" =>
        OrdersRequest(command, fresh) = post_json(OrdersPath, LimitPlacement(command, fresh))
  BY OrdersAt DEF OrdersRequest, LibraryOps
<1>4. command.op = "PlaceMarket" =>
        OrdersRequest(command, fresh) = post_json(OrdersPath, MarketPlacement(command, fresh))
  BY OrdersAt DEF OrdersRequest, LibraryOps
<1>5. command.op \in LibraryOps =>
        OrdersRequest(command, fresh) = post_json(OrdersPath, command.request)
  BY OrdersAt DEF OrdersRequest, LibraryOps
<1>6. command.op = "Replace" =>
        OrdersRequest(command, fresh) =
          put_json(PathTo(OrdersPath, command.id), build_replacement(command, fresh))
  BY OrdersAt DEF OrdersRequest, LibraryOps
<1>7. command.op = "Cancel" => OrdersRequest(command, fresh) = delete(PathTo(OrdersPath, command.id))
  BY OrdersAt DEF OrdersRequest, LibraryOps
<1>8. command.op = "CancelAll" => OrdersRequest(command, fresh) = delete(OrdersPath)
  BY OrdersAt DEF OrdersRequest, LibraryOps
<1> QED BY <1>1, <1>2, <1>3, <1>4, <1>5, <1>6, <1>7, <1>8

(* What each kind of command wishes for.                                   *)
LEMMA Wishes ==
  ASSUME NEW command
  PROVE  LET symbol == dash_symbol(command.symbol)
             unit   == Unit(command.in_quote)
             post   == PostOnly(command.post_only)
         IN  /\ command.op = "PlaceLimit" =>
                  Wish(command) = Some(Order(symbol, command.side, Some(command.size), unit,
                                             Some(command.price), post))
             /\ command.op = "PlaceMarket" =>
                  Wish(command) = Some(Order(symbol, command.side, Some(command.size), unit, None, None))
             /\ command.op = "Replace" =>
                  Wish(command) = Some(Replacement(command.id, command.size,
                                                   IF command.size = None THEN "base" ELSE unit,
                                                   command.price, post))
             /\ command.op = "Cancel" => Wish(command) = Some([kind |-> "cancel", id |-> command.id])
             /\ command.op = "CancelAll" => Wish(command) = Some([kind |-> "cancel all"])
             /\ command.op \in LibraryOps => Wish(command) = Placement(command.request)
             /\ command.op \notin TradingOps \union LibraryOps => Wish(command) = None
<1>2. PostOnly(command.post_only) = IF command.post_only THEN Some(<<"post_only">>) ELSE None
  BY DEF PostOnly
<1>3. command.op = "PlaceLimit" =>
        Wish(command) = Some(Order(dash_symbol(command.symbol), command.side, Some(command.size),
                                   Unit(command.in_quote), Some(command.price),
                                   PostOnly(command.post_only)))
  BY <1>2 DEF Wish, LibraryOps
<1>4. command.op = "PlaceMarket" =>
        Wish(command) = Some(Order(dash_symbol(command.symbol), command.side, Some(command.size),
                                   Unit(command.in_quote), None, None))
  BY DEF Wish, LibraryOps
<1>5. command.op = "Replace" =>
        Wish(command) = Some(Replacement(command.id, command.size,
                               IF command.size = None THEN "base" ELSE Unit(command.in_quote),
                               command.price, PostOnly(command.post_only)))
  BY <1>2 DEF Wish, LibraryOps
<1>6. command.op = "Cancel" => Wish(command) = Some([kind |-> "cancel", id |-> command.id])
  BY DEF Wish, LibraryOps
<1>7. command.op = "CancelAll" => Wish(command) = Some([kind |-> "cancel all"])
  BY DEF Wish, LibraryOps
<1>8. command.op \in LibraryOps => Wish(command) = Placement(command.request)
  BY DEF Wish, LibraryOps
<1>9. command.op \notin TradingOps \union LibraryOps => Wish(command) = None
  BY DEF Wish, TradingOps, LibraryOps
<1> QED BY <1>3, <1>4, <1>5, <1>6, <1>7, <1>8, <1>9

LEMMA OneIsSome ==
  \A x : {x} # {}
OBVIOUS

(* What the exchange makes of a size.                                      *)
LEMMA SizesRead ==
  ASSUME NEW size, NEW in_quote
  PROVE  /\ SizeOf(Sized(size, in_quote)) = Some(size)
         /\ UnitOf(Sized(size, in_quote)) = Unit(in_quote)
         /\ validate_one_size(Sized(size, in_quote))
<1>1. CASE in_quote
  <2>1. Sized(size, in_quote) = [base_size |-> None, quote_size |-> Some(size)]
    BY <1>1 DEF Sized
  <2>2. Sized(size, in_quote).base_size = {} /\ Sized(size, in_quote).quote_size = {size}
    BY <2>1
  <2> QED BY <1>1, <2>2, OneIsSome DEF SizeOf, UnitOf, Unit, validate_one_size
<1>2. CASE ~in_quote
  <2>1. Sized(size, in_quote) = [base_size |-> Some(size), quote_size |-> None]
    BY <1>2 DEF Sized
  <2>2. Sized(size, in_quote).base_size = {size} /\ Sized(size, in_quote).quote_size = {}
    BY <2>1
  <2> QED BY <1>2, <2>2, OneIsSome DEF SizeOf, UnitOf, Unit, validate_one_size
<1> QED BY <1>1, <1>2

(* A client order id goes with the order it names, or a fresh one goes.    *)
LEMMA Naming ==
  ASSUME NEW id, IsOption(id), NEW fresh
  PROVE  \/ id = {OrFresh(id, fresh)}
         \/ id = {} /\ OrFresh(id, fresh) = fresh
<1>1. CASE id = {}
  BY <1>1 DEF OrFresh, OrElse
<1>2. CASE id # {}
  <2>1. PICK x \in id : TRUE
    BY <1>2
  <2>2. id = {x}
    BY <2>1 DEF IsOption
  <2>3. (CHOOSE y \in {x} : TRUE) = x
    OBVIOUS
  <2> QED BY <1>2, <2>2, <2>3 DEF OrFresh, OrElse
<1> QED BY <1>1, <1>2

-----------------------------------------------------------------------------
(* Every request carries its command's wish, or nothing, and its name.     *)
Carries(request, command, fresh) ==
  /\ Reading(request) \subseteq Wish(command)
  /\ \/ NameIn(request) = NameOf(command)
     \/ NameOf(command) = {} /\ NameIn(request) \in {{}, {fresh}}

(* A placement read back.                                                  *)
LEMMA PlacementRead ==
  ASSUME NEW request, IsOption(request.order_configuration.limit),
         IsOption(request.order_configuration.market)
  PROVE  IsOption(Placement(request))
<1> DEFINE configuration == request.order_configuration
           limits == {Order(request.symbol, request.side, SizeOf(c.sizes), UnitOf(c.sizes), Some(c.price),
                            c.execution_instructions) : c \in configuration.limit}
           markets == {Order(request.symbol, request.side, SizeOf(c.sizes), UnitOf(c.sizes), None, None) :
                         c \in configuration.market}
<1>1. Placement(request) = IF validate_placement(configuration) THEN limits \union markets ELSE None
  BY DEF Placement
<1>2. IsOption(limits)
  BY DEF IsOption
<1>3. IsOption(markets)
  BY DEF IsOption
<1>4. configuration.limit = None => limits = {}
  OBVIOUS
<1>5. configuration.market = None => markets = {}
  OBVIOUS
<1>6. validate_placement(configuration) => (configuration.limit = None) \/ (configuration.market = None)
  BY DEF validate_placement
<1> HIDE DEF limits, markets, configuration
<1> QED BY <1>1, <1>2, <1>3, <1>4, <1>5, <1>6 DEF IsOption

LEMMA LimitCarries ==
  ASSUME NEW command, NEW fresh, NEW wire, command.op = "PlaceLimit", IsOption(command.client_order_id),
         wire.method = "POST", wire.path = OrdersPath, wire.body = Some(LimitPlacement(command, fresh))
  PROVE  Carries(wire, command, fresh)
<1> DEFINE p == LimitPlacement(command, fresh)
           sizes == Sized(command.size, command.in_quote)
           post == PostOnly(command.post_only)
           c == [sizes |-> sizes, price |-> command.price, execution_instructions |-> post]
           order == Order(dash_symbol(command.symbol), command.side, SizeOf(sizes), UnitOf(sizes),
                          Some(command.price), post)
<1>1. /\ p.symbol = dash_symbol(command.symbol) /\ p.side = command.side
      /\ p.order_configuration.limit = {c} /\ p.order_configuration.market = {}
      /\ p.client_order_id = OrFresh(command.client_order_id, fresh)
  BY DEF LimitPlacement, OrderPlacementRequest
<1>2. c.sizes = sizes /\ c.price = command.price /\ c.execution_instructions = post
  OBVIOUS
<1> HIDE DEF p, c
<1>3. validate_placement(p.order_configuration)
  <2>1. validate_one_size(sizes)
    BY SizesRead
  <2> HIDE DEF sizes
  <2> QED BY <1>1, <1>2, <2>1, OneIsSome DEF validate_placement
<1> HIDE DEF sizes, post
<1>4. Placement(p) = {order}
  BY <1>1, <1>2, <1>3 DEF Placement
<1>5. Wish(command) = {order}
  <2>1. Wish(command) = {Order(dash_symbol(command.symbol), command.side, {command.size},
                               Unit(command.in_quote), {command.price}, PostOnly(command.post_only))}
    BY Wishes
  <2>2. SizeOf(sizes) = {command.size} /\ UnitOf(sizes) = Unit(command.in_quote)
    BY SizesRead DEF sizes
  <2> QED BY <2>1, <2>2 DEF post
<1> HIDE DEF order
<1>6. Reading(wire) = {order}
  <2>1. Reading(wire) = UNION {Placement(q) : q \in {p}}
    BY Readings DEF p
  <2> QED BY <1>4, <2>1
<1>7. NameOf(command) = command.client_order_id
  BY DEF NameOf, LibraryOps
<1>8. NameIn(wire) = {OrFresh(command.client_order_id, fresh)}
  <2>1. NameIn(wire) = {q.client_order_id : q \in {p}}
    BY DEF NameIn, p
  <2> QED BY <1>1, <2>1
<1>9. \/ command.client_order_id = {OrFresh(command.client_order_id, fresh)}
      \/ command.client_order_id = {} /\ OrFresh(command.client_order_id, fresh) = fresh
  BY Naming
<1> QED BY <1>5, <1>6, <1>7, <1>8, <1>9 DEF Carries

LEMMA MarketCarries ==
  ASSUME NEW command, NEW fresh, NEW wire, command.op = "PlaceMarket", IsOption(command.client_order_id),
         wire.method = "POST", wire.path = OrdersPath, wire.body = Some(MarketPlacement(command, fresh))
  PROVE  Carries(wire, command, fresh)
<1> DEFINE p == MarketPlacement(command, fresh)
           sizes == Sized(command.size, command.in_quote)
           c == [sizes |-> sizes]
           order == Order(dash_symbol(command.symbol), command.side, SizeOf(sizes), UnitOf(sizes),
                          None, None)
<1>1. /\ p.symbol = dash_symbol(command.symbol) /\ p.side = command.side
      /\ p.order_configuration.limit = {} /\ p.order_configuration.market = {c}
      /\ p.client_order_id = OrFresh(command.client_order_id, fresh)
  BY DEF MarketPlacement, OrderPlacementRequest
<1>2. c.sizes = sizes
  OBVIOUS
<1> HIDE DEF p, c
<1>3. validate_placement(p.order_configuration)
  <2>1. validate_one_size(sizes)
    BY SizesRead
  <2> HIDE DEF sizes
  <2> QED BY <1>1, <1>2, <2>1, OneIsSome DEF validate_placement
<1> HIDE DEF sizes
<1>4. Placement(p) = {order}
  BY <1>1, <1>2, <1>3 DEF Placement
<1>5. Wish(command) = {order}
  <2>1. Wish(command) = {Order(dash_symbol(command.symbol), command.side, {command.size},
                               Unit(command.in_quote), {}, {})}
    BY Wishes
  <2>2. SizeOf(sizes) = {command.size} /\ UnitOf(sizes) = Unit(command.in_quote)
    BY SizesRead DEF sizes
  <2> QED BY <2>1, <2>2
<1> HIDE DEF order
<1>6. Reading(wire) = {order}
  <2>1. Reading(wire) = UNION {Placement(q) : q \in {p}}
    BY Readings DEF p
  <2> QED BY <1>4, <2>1
<1>7. NameOf(command) = command.client_order_id
  BY DEF NameOf, LibraryOps
<1>8. NameIn(wire) = {OrFresh(command.client_order_id, fresh)}
  <2>1. NameIn(wire) = {q.client_order_id : q \in {p}}
    BY DEF NameIn, p
  <2> QED BY <1>1, <2>1
<1>9. \/ command.client_order_id = {OrFresh(command.client_order_id, fresh)}
      \/ command.client_order_id = {} /\ OrFresh(command.client_order_id, fresh) = fresh
  BY Naming
<1> QED BY <1>5, <1>6, <1>7, <1>8, <1>9 DEF Carries

LEMMA ReplacementCarries ==
  ASSUME NEW command, NEW fresh, NEW wire, command.op = "Replace", command.id \in Text,
         IsOption(command.client_order_id), IsOption(command.size),
         wire.method = "PUT", wire.path = PathTo(OrdersPath, command.id),
         wire.body = Some(build_replacement(command, fresh))
  PROVE  Carries(wire, command, fresh)
<1> DEFINE r == build_replacement(command, fresh)
           unit == IF command.size = None THEN "base" ELSE Unit(command.in_quote)
           post == PostOnly(command.post_only)
           act == Replacement(command.id, command.size, unit, command.price, post)
<1>1. /\ r.price = command.price /\ r.execution_instructions = post
      /\ r.client_order_id = OrFresh(command.client_order_id, fresh)
      /\ r.sizes = IF command.size = None THEN [base_size |-> None, quote_size |-> None]
                   ELSE Sized(OrElse(command.size, 0), command.in_quote)
  BY DEF build_replacement
<1> HIDE DEF r
<1>2. SizeOf(r.sizes) = command.size /\ UnitOf(r.sizes) = unit
  <2>1. CASE command.size = {}
    <3>1. r.sizes.base_size = {} /\ r.sizes.quote_size = {}
      BY <1>1, <2>1
    <3> QED BY <2>1, <3>1 DEF SizeOf, UnitOf, Unit
  <2>2. CASE command.size # {}
    <3>1. PICK size \in command.size : TRUE
      BY <2>2
    <3>2. command.size = {size} /\ OrElse(command.size, 0) = size
      <4>1. command.size = {size}
        BY <3>1 DEF IsOption
      <4>2. (CHOOSE x \in {size} : TRUE) = size
        OBVIOUS
      <4> QED BY <2>2, <4>1, <4>2 DEF OrElse
    <3>3. r.sizes = Sized(size, command.in_quote)
      BY <1>1, <2>2, <3>2
    <3> QED BY <2>2, <3>2, <3>3, SizesRead
  <2> QED BY <2>1, <2>2
<1> HIDE DEF unit, post
<1>3. Wish(command) = {act}
  BY Wishes DEF unit, post
<1>4. Reading(wire) \subseteq {act}
  <2>1. {Replacement(IdIn(wire.path), SizeOf(q.sizes), UnitOf(q.sizes), q.price,
                     q.execution_instructions) : q \in {r}} = {act}
    BY <1>1, <1>2, IdRead
  <2>2. \/ Reading(wire) = {}
        \/ Reading(wire) = {Replacement(IdIn(wire.path), SizeOf(q.sizes), UnitOf(q.sizes), q.price,
                                        q.execution_instructions) : q \in {r}}
    BY Readings DEF r
  <2> QED BY <2>1, <2>2
<1>5. NameOf(command) = command.client_order_id
  BY DEF NameOf, LibraryOps
<1>6. NameIn(wire) = {OrFresh(command.client_order_id, fresh)}
  <2>1. NameIn(wire) = {q.client_order_id : q \in {r}}
    BY DEF NameIn, r
  <2> QED BY <1>1, <2>1
<1>7. \/ command.client_order_id = {OrFresh(command.client_order_id, fresh)}
      \/ command.client_order_id = {} /\ OrFresh(command.client_order_id, fresh) = fresh
  BY Naming
<1> QED BY <1>3, <1>4, <1>5, <1>6, <1>7 DEF Carries

LEMMA CancelCarries ==
  ASSUME NEW command, NEW fresh, NEW wire, wire.method = "DELETE", wire.body = None,
         \/ command.op = "Cancel" /\ command.id \in Text /\ wire.path = PathTo(OrdersPath, command.id)
         \/ command.op = "CancelAll" /\ wire.path = OrdersPath
  PROVE  Carries(wire, command, fresh)
<1>1. NameOf(command) = {}
  BY DEF NameOf, LibraryOps
<1>2. NameIn(wire) = {}
  BY DEF NameIn
<1>3. CASE command.op = "Cancel"
  <2>1. command.id \in Text /\ wire.path = PathTo(OrdersPath, command.id)
    BY <1>3
  <2>2. wire.path # OrdersPath /\ IdIn(wire.path) = command.id
    BY <2>1, IdRead, OneIsNotAll
  <2>3. Reading(wire) \subseteq {[kind |-> "cancel", id |-> command.id]}
    BY <2>2, Readings
  <2>4. Wish(command) = {[kind |-> "cancel", id |-> command.id]}
    BY <1>3, Wishes
  <2> QED BY <1>1, <1>2, <2>3, <2>4 DEF Carries
<1>4. CASE command.op = "CancelAll"
  <2>1. Reading(wire) = {[kind |-> "cancel all"]}
    BY <1>4, Readings
  <2>2. Wish(command) = {[kind |-> "cancel all"]}
    BY <1>4, Wishes
  <2> QED BY <1>1, <1>2, <2>1, <2>2 DEF Carries
<1> QED BY <1>3, <1>4

LEMMA ProgramCarries ==
  ASSUME NEW command, NEW fresh, NEW wire, command.op \in LibraryOps,
         wire.method = "POST", wire.path = OrdersPath, wire.body = Some(command.request)
  PROVE  Carries(wire, command, fresh)
<1> DEFINE p == command.request
<1>1. Reading(wire) = Placement(p)
  <2>1. Reading(wire) = UNION {Placement(q) : q \in {p}}
    BY Readings
  <2> QED BY <2>1
<1>2. Wish(command) = Placement(p)
  BY Wishes
<1>3. NameOf(command) = {p.client_order_id}
  BY DEF NameOf, LibraryOps
<1>4. NameIn(wire) = {p.client_order_id}
  BY DEF NameIn
<1> QED BY <1>1, <1>2, <1>3, <1>4 DEF Carries

(* The commands that trade are those the account can be changed by.        *)
LEMMA RealTrading ==
  ASSUME NEW command, command.op \in Ops
  PROVE  is_real_trading(command) <=> command.op \in TradingOps \union LibraryOps
<1>1. command.op \in MarketOps => min_access(command) = Market
  BY DEF min_access, MarketOps, ViewOps, TradingOps, LibraryOps
<1>2. command.op \in ViewOps => min_access(command) = View
  BY DEF min_access, MarketOps, ViewOps, TradingOps, LibraryOps
<1>3. command.op \in TradingOps \union LibraryOps => min_access(command) = Trading
  BY DEF min_access, MarketOps, ViewOps, TradingOps, LibraryOps
<1>4. Market # Trading /\ View # Trading
  BY DEF Market, View, Trading
<1> QED BY <1>1, <1>2, <1>3, <1>4 DEF is_real_trading, Ops, MarketOps, ViewOps, TradingOps, LibraryOps

(* A command wishes for one thing at most.                                 *)
LEMMA OneWish ==
  ASSUME NEW command, Formed(command)
  PROVE  IsOption(Wish(command))
<1>1. \A x : IsOption({x})
  BY DEF IsOption
<1>2. IsOption({})
  BY DEF IsOption
<1>3. command.op \in LibraryOps => IsOption(Placement(command.request))
  BY PlacementRead DEF Formed
<1>4. command.op \in TradingOps => \E x : Wish(command) = {x}
  <2>1. command.op \in {"PlaceLimit", "PlaceMarket", "Replace"} => \E x : Wish(command) = {x}
    BY Wishes
  <2>2. command.op \in {"Cancel", "CancelAll"} => \E x : Wish(command) = {x}
    BY Wishes
  <2> QED BY <2>1, <2>2 DEF TradingOps
<1>5. command.op \in LibraryOps => Wish(command) = Placement(command.request)
  BY Wishes
<1>6. command.op \notin TradingOps \union LibraryOps => Wish(command) = {}
  BY Wishes
<1> QED BY <1>1, <1>2, <1>3, <1>4, <1>5, <1>6

(* What goes out for a command: it trades if the command does, and then    *)
(* carries its wish and its name.                                          *)
LEMMA SentWire ==
  ASSUME NEW command, NEW fresh, NEW signer, WellTyped(command), Formed(command),
         UrlSafe(RequestOf(command, fresh).path)
  PROVE  LET wire == Wire(RequestOf(command, fresh), signer)
         IN  /\ is_real_trading(command) => wire.method # "GET" /\ Carries(wire, command, fresh)
             /\ ~is_real_trading(command) => wire.method = "GET" /\ Reading(wire) = {} /\ Wish(command) = {}
<1> DEFINE request == RequestOf(command, fresh)
           wire == Wire(request, signer)
<1>1. wire.method = request.method /\ wire.path = request.path /\ wire.body = request.body
  BY DEF Wire, UrlSafe
<1>2. command.op \in Ops
  BY DEF WellTyped, Ops
<1>3. ASSUME ~is_real_trading(command)
      PROVE  wire.method = "GET" /\ Reading(wire) = {} /\ Wish(command) = {}
  <2>1. command.op \notin TradingOps \union LibraryOps
    BY <1>2, <1>3, RealTrading
  <2>2. command.op \in MarketOps \/ command.op \in ViewOps
    BY <1>2, <2>1 DEF Ops
  <2>3. request.method = "GET"
    BY <2>2, MarketRequests, ViewRequests
  <2>4. Wish(command) = {}
    BY <2>1, Wishes
  <2> HIDE DEF wire
  <2> QED BY <1>1, <2>3, <2>4, Readings
<1>4. ASSUME is_real_trading(command)
      PROVE  wire.method # "GET" /\ Carries(wire, command, fresh)
  <2>1. command.op \in TradingOps \union LibraryOps
    BY <1>2, <1>4, RealTrading
  <2>2. request.method # "GET"
    BY <2>1, MutationsAreNotGets
  <2> HIDE DEF wire, request
  <2>3. CASE command.op = "PlaceLimit"
    <3>1. request = post_json(OrdersPath, LimitPlacement(command, fresh))
      BY <2>3, OrderRequests DEF request
    <3>2. wire.method = "POST" /\ wire.path = OrdersPath /\ wire.body = Some(LimitPlacement(command, fresh))
      BY <1>1, <3>1 DEF post_json, Request
    <3>3. IsOption(command.client_order_id)
      BY <2>3 DEF Formed, NameOf, LibraryOps
    <3> QED BY <1>1, <2>2, <2>3, <3>2, <3>3, LimitCarries
  <2>4. CASE command.op = "PlaceMarket"
    <3>1. request = post_json(OrdersPath, MarketPlacement(command, fresh))
      BY <2>4, OrderRequests DEF request
    <3>2. wire.method = "POST" /\ wire.path = OrdersPath /\ wire.body = Some(MarketPlacement(command, fresh))
      BY <1>1, <3>1 DEF post_json, Request
    <3>3. IsOption(command.client_order_id)
      BY <2>4 DEF Formed, NameOf, LibraryOps
    <3> QED BY <1>1, <2>2, <2>4, <3>2, <3>3, MarketCarries
  <2>5. CASE command.op = "Replace"
    <3>1. request = put_json(PathTo(OrdersPath, command.id), build_replacement(command, fresh))
      BY <2>5, OrderRequests DEF request
    <3>2. /\ wire.method = "PUT" /\ wire.path = PathTo(OrdersPath, command.id)
          /\ wire.body = Some(build_replacement(command, fresh))
      BY <1>1, <3>1 DEF put_json, Request
    <3>3. IsOption(command.client_order_id) /\ IsOption(command.size)
      BY <2>5 DEF Formed, NameOf, LibraryOps
    <3>4. command.id \in Text
      BY <2>5 DEF WellTyped, IdOps
    <3> QED BY <1>1, <2>2, <2>5, <3>2, <3>3, <3>4, ReplacementCarries
  <2>6. CASE command.op \in {"Cancel", "CancelAll"}
    <3>1. /\ command.op = "Cancel" => request = delete(PathTo(OrdersPath, command.id))
          /\ command.op = "CancelAll" => request = delete(OrdersPath)
      BY OrderRequests DEF request
    <3>2. /\ wire.method = "DELETE" /\ wire.body = None
          /\ command.op = "Cancel" => wire.path = PathTo(OrdersPath, command.id)
          /\ command.op = "CancelAll" => wire.path = OrdersPath
      BY <1>1, <2>6, <3>1 DEF delete, Request
    <3>3. command.op = "Cancel" => command.id \in Text
      BY DEF WellTyped, IdOps
    <3> QED BY <1>1, <2>2, <2>6, <3>2, <3>3, CancelCarries
  <2>7. CASE command.op \in LibraryOps
    <3>1. request = post_json(OrdersPath, command.request)
      BY <2>7, OrderRequests DEF request
    <3>2. wire.method = "POST" /\ wire.path = OrdersPath /\ wire.body = Some(command.request)
      BY <1>1, <3>1 DEF post_json, Request
    <3> QED BY <1>1, <2>2, <2>7, <3>2, ProgramCarries
  <2> QED BY <2>1, <2>3, <2>4, <2>5, <2>6, <2>7 DEF TradingOps
<1> QED BY <1>3, <1>4

-----------------------------------------------------------------------------
(* What an input names: one client order id at most, whatever command it   *)
(* is taken for; and only reads of the order book are polled.              *)
Placements == {"PlaceLimit", "PlaceMarket", "Replace"}

Sound(commands) ==
  /\ \A command \in commands : Formed(command)
  /\ \A one, other \in commands : NameOf(one) = NameOf(other)

PolledReads(action) == \A a \in action : a.watch => a.command.op \in MarketOps

LEMMA NamelessOp ==
  ASSUME NEW command, command.op \notin Placements \union LibraryOps
  PROVE  NameOf(command) = None /\ Formed(command)
<1>1. NameOf(command) = None
  BY DEF NameOf, Placements
<1> QED BY <1>1 DEF Formed, IsOption, Placements

LEMMA Nameless ==
  ASSUME NEW commands, \A command \in commands : command.op \notin Placements \union LibraryOps
  PROVE  Sound(commands)
BY NamelessOp DEF Sound

LEMMA PlacementFormed ==
  ASSUME NEW command, command.op \in Placements,
         IsOption(command.client_order_id), command.client_order_id \subseteq Uuids,
         command.op = "Replace" => IsOption(command.size)
  PROVE  NameOf(command) = command.client_order_id /\ Formed(command)
<1>1. NameOf(command) = command.client_order_id
  BY DEF NameOf, Placements, LibraryOps
<1>2. command.op \notin LibraryOps
  BY DEF LibraryOps, Placements
<1> QED BY <1>1, <1>2 DEF Formed

LEMMA MarketWordsSound ==
  ASSUME NEW verb \in MarketVerbs, NEW w
  PROVE  \A a \in market(verb, w) : a.command.op \in MarketOps
<1>1. CASE verb = "order-book"
  BY <1>1 DEF market, run, Action, MarketOps
<1>2. CASE verb = "public-order-book"
  BY <1>2 DEF market, run, Action, MarketOps
<1>3. CASE verb = "tickers"
  BY <1>3 DEF market, run, Action, MarketOps
<1>4. CASE verb = "candles"
  BY <1>4 DEF market, run, Action, MarketOps
<1>5. CASE verb = "last-trades"
  BY <1>5 DEF market, run, Action, MarketOps
<1>6. CASE verb = "watch"
  BY <1>6 DEF market, run, Action, MarketOps
<1> QED BY <1>1, <1>2, <1>3, <1>4, <1>5, <1>6 DEF MarketVerbs

LEMMA ParsedOnce ==
  /\ \A text : IsOption(parse_decimal(text))
  /\ \A text : \A n \in parse_optional(text) : IsOption(n)
  /\ \A id : \A parsed \in parse_client_order_id(id) : parsed = id /\ parsed \subseteq Uuids
BY DEF IsOption, parse_decimal, parse_optional, parse_client_order_id

LEMMA OrderWordsSound ==
  ASSUME NEW verb \in {"active", "historical", "get", "fills", "limit", "market", "replace",
                       "cancel", "cancel-all"},
         NEW w, verb \in {"limit", "market"} => IsOption(w.client_order_id)
  PROVE  Sound({a.command : a \in orders(verb, w)}) /\ \A a \in orders(verb, w) : a.watch = FALSE
<1>1. CASE verb \in {"active", "historical", "get", "fills"}
  <2>1. \A a \in orders(verb, w) :
          /\ a.command.op \in {"ActiveOrders", "HistoricalOrders", "GetOrder", "OrderFills"}
          /\ a.watch = FALSE
    BY <1>1 DEF orders, run, Action
  <2>2. \A command \in {a.command : a \in orders(verb, w)} :
          command.op \notin Placements \union LibraryOps
    BY <2>1 DEF Placements, LibraryOps
  <2> QED BY <2>1, <2>2, Nameless
<1>2. CASE verb \in {"cancel", "cancel-all"}
  <2>1. \A a \in orders(verb, w) : a.command.op \in {"Cancel", "CancelAll"} /\ a.watch = FALSE
    BY <1>2 DEF orders, run, Action
  <2>2. \A command \in {a.command : a \in orders(verb, w)} :
          command.op \notin Placements \union LibraryOps
    BY <2>1 DEF Placements, LibraryOps
  <2> QED BY <2>1, <2>2, Nameless
<1>3. CASE verb = "limit"
  <2>1. \A a \in orders(verb, w) : /\ a.command.op = "PlaceLimit" /\ a.watch = FALSE
                                   /\ a.command.client_order_id = w.client_order_id
                                   /\ a.command.client_order_id \subseteq Uuids
    BY <1>3, ParsedOnce DEF orders, Action
  <2> QED BY <1>3, <2>1, PlacementFormed DEF Sound, Placements
<1>4. CASE verb = "market"
  <2>1. \A a \in orders(verb, w) : /\ a.command.op = "PlaceMarket" /\ a.watch = FALSE
                                   /\ a.command.client_order_id = w.client_order_id
                                   /\ a.command.client_order_id \subseteq Uuids
    BY <1>4, ParsedOnce DEF orders, Action
  <2> QED BY <1>4, <2>1, PlacementFormed DEF Sound, Placements
<1>5. CASE verb = "replace"
  <2>1. \A a \in orders(verb, w) : /\ a.command.op = "Replace" /\ a.watch = FALSE
                                   /\ a.command.client_order_id = {}
                                   /\ IsOption(a.command.size)
    BY <1>5, ParsedOnce DEF orders, Action
  <2>2. IsOption({}) /\ {} \subseteq Uuids
    BY DEF IsOption
  <2> DEFINE commands == {a.command : a \in orders(verb, w)}
  <2>3. \A command \in commands : /\ command.op \in Placements
                                  /\ command.client_order_id = {} /\ IsOption(command.size)
    BY <2>1 DEF Placements
  <2>4. \A a \in orders(verb, w) : a.watch = FALSE
    BY <2>1
  <2> HIDE DEF commands
  <2>5. \A command \in commands : NameOf(command) = {} /\ Formed(command)
    <3> TAKE command \in commands
    <3>1. /\ command.op \in Placements /\ IsOption(command.client_order_id)
          /\ command.client_order_id \subseteq Uuids /\ IsOption(command.size)
      BY <2>2, <2>3
    <3> QED BY <2>3, <3>1, PlacementFormed
  <2>6. Sound(commands)
    BY <2>5 DEF Sound
  <2> QED BY <2>4, <2>6 DEF commands
<1> QED BY <1>1, <1>2, <1>3, <1>4, <1>5

LEMMA WordsSound ==
  ASSUME NEW verb \in Verbs, NEW w, verb \in {"limit", "market"} => IsOption(w.client_order_id)
  PROVE  Sound({a.command : a \in adapt(verb, w)}) /\ PolledReads(adapt(verb, w))
<1>1. CASE verb \in {"balances", "currencies", "pairs"}
  <2>1. verb = "balances" => adapt(verb, w) = Some(run([op |-> "Balances"]))
    BY Zenon DEF adapt, MarketVerbs
  <2>2. verb = "currencies" => adapt(verb, w) = Some(run([op |-> "Currencies"]))
    BY Zenon DEF adapt, MarketVerbs
  <2>3. verb = "pairs" => adapt(verb, w) = Some(run([op |-> "Pairs"]))
    BY Zenon DEF adapt, MarketVerbs
  <2>4. \A a \in adapt(verb, w) : a.command.op \in {"Balances", "Currencies", "Pairs"} /\ a.watch = FALSE
    BY <1>1, <2>1, <2>2, <2>3 DEF run, Action
  <2>5. \A command \in {a.command : a \in adapt(verb, w)} : command.op \notin Placements \union LibraryOps
    BY <2>4 DEF Placements, LibraryOps
  <2> QED BY <2>4, <2>5, Nameless DEF PolledReads
<1>2. CASE verb \in MarketVerbs
  <2>1. adapt(verb, w) = market(verb, w)
    BY <1>2, Zenon DEF adapt, MarketVerbs
  <2>2. \A a \in market(verb, w) : a.command.op \in MarketOps
    BY <1>2, MarketWordsSound
  <2>3. \A command \in {a.command : a \in market(verb, w)} : command.op \notin Placements \union LibraryOps
    BY <2>2 DEF Placements, LibraryOps, MarketOps
  <2> QED BY <2>1, <2>2, <2>3, Nameless DEF PolledReads
<1>3. CASE verb \in {"all", "mine"}
  <2>1. adapt(verb, w) = Some(trades(verb, w))
    BY <1>3, Zenon DEF adapt, MarketVerbs
  <2>2. \A a \in adapt(verb, w) : a.command.op \in {"AllTrades", "PrivateTrades"} /\ a.watch = FALSE
    BY <2>1 DEF trades, run, Action
  <2>3. \A command \in {a.command : a \in adapt(verb, w)} : command.op \notin Placements \union LibraryOps
    BY <2>2 DEF Placements, LibraryOps
  <2> QED BY <2>2, <2>3, Nameless DEF PolledReads
<1>4. CASE verb \in {"active", "historical", "get", "fills", "limit", "market", "replace",
                     "cancel", "cancel-all"}
  <2>1. adapt(verb, w) = orders(verb, w)
    BY <1>4, Zenon DEF adapt, MarketVerbs
  <2>2. Sound({a.command : a \in orders(verb, w)}) /\ \A a \in orders(verb, w) : a.watch = FALSE
    BY <1>4, OrderWordsSound
  <2> QED BY <2>1, <2>2 DEF PolledReads
<1> QED BY <1>1, <1>2, <1>3, <1>4 DEF Verbs

(* The arguments of a tool call: each is one value, or none.               *)
LEMMA ArgumentsOnce ==
  ASSUME NEW args, NEW key
  PROVE  /\ \A id \in opt_client_order_id(args) : IsOption(id) /\ id \subseteq Uuids
         /\ \A one, other \in opt_client_order_id(args) : one = other
         /\ \A n \in opt_decimal(args, key) : IsOption(n)
<1>1. \A k, type : IsOption(Typed(args, k, type))
  BY DEF IsOption, Typed
<1>2. \A k, values : \A o \in Optional(args, k, values) : IsOption(o)
  BY DEF IsOption, Optional
<1>3. \A k, values : IsOption(values) => \A one, other \in Optional(args, k, values) : one = other
  BY DEF IsOption, Optional
<1>4. \A id \in opt_client_order_id(args) : id \in opt_str(args, "client_order_id") /\ id \subseteq Uuids
  BY DEF opt_client_order_id
<1>5. /\ \A id \in opt_str(args, "client_order_id") : IsOption(id)
      /\ \A one, other \in opt_str(args, "client_order_id") : one = other
  BY <1>1, <1>2, <1>3 DEF opt_str, req_str
<1>6. \A n \in opt_decimal(args, key) : IsOption(n)
  BY <1>2 DEF opt_decimal
<1> QED BY <1>4, <1>5, <1>6

LEMMA CallOrdersSound ==
  ASSUME NEW args
  PROVE  Sound(limit_order(args)) /\ Sound(market_order(args)) /\ Sound(replacement(args))
<1>1. \A command \in limit_order(args) :
        command.op = "PlaceLimit" /\ command.client_order_id \in opt_client_order_id(args)
  BY DEF limit_order
<1>2. \A command \in market_order(args) :
        command.op = "PlaceMarket" /\ command.client_order_id \in opt_client_order_id(args)
  BY DEF market_order
<1>3. \A command \in replacement(args) :
        /\ command.op = "Replace" /\ command.client_order_id \in opt_client_order_id(args)
        /\ command.size \in opt_decimal(args, "size")
  BY DEF replacement
<1>4. ASSUME NEW commands,
             \A command \in commands :
               /\ command.op \in Placements /\ command.client_order_id \in opt_client_order_id(args)
               /\ command.op = "Replace" => command.size \in opt_decimal(args, "size")
      PROVE  Sound(commands)
  <2>1. \A command \in commands : NameOf(command) = command.client_order_id /\ Formed(command)
    <3> TAKE command \in commands
    <3>1. /\ command.op \in Placements /\ IsOption(command.client_order_id)
          /\ command.client_order_id \subseteq Uuids
          /\ command.op = "Replace" => IsOption(command.size)
      BY <1>4, ArgumentsOnce
    <3> QED BY <3>1, PlacementFormed
  <2>2. \A one, other \in commands : one.client_order_id = other.client_order_id
    BY <1>4, ArgumentsOnce
  <2> QED BY <2>1, <2>2 DEF Sound
<1> QED BY <1>1, <1>2, <1>3, <1>4 DEF Placements

LEMMA CallsSound ==
  ASSUME NEW name, NEW args
  PROVE  Sound(to_command(name, args))
<1> DEFINE
      symbols == req_str(args, "symbol")
      ids == req_str(args, "order_id")
      plain == name \in DOMAIN Plain
      by_id == name \in DOMAIN ById
      trade == name \in DOMAIN Trades
      plain_commands == {[op |-> Plain[name]]}
      id_commands == {[op |-> ById[name], id |-> id] : id \in ids}
      trade_commands == {[op |-> Trades[name], symbol |-> symbol, query |-> query] :
                           symbol \in symbols, query \in trades_query(args)}
      tickers == {[op |-> "Tickers", symbols |-> list] : list \in opt_str_vec(args, "symbols")}
      book == {[op |-> "OrderBook", symbol |-> symbol, limit |-> limit] :
                 symbol \in symbols, limit \in opt_u32(args, "limit")}
      public_book == {[op |-> "PublicOrderBook", symbol |-> symbol] : symbol \in symbols}
      candles == {[op |-> "Candles", symbol |-> symbol, query |-> query] :
                    symbol \in symbols, query \in candles_query(args)}
      active == {[op |-> "ActiveOrders", query |-> query] : query \in active_query(args)}
      historical == {[op |-> "HistoricalOrders", query |-> query] : query \in historical_query(args)}
      limit == limit_order(args)
      at_market == market_order(args)
      replace == replacement(args)
<1>2. to_command(name, args) =
        CASE plain -> plain_commands [] by_id -> id_commands [] trade -> trade_commands
          [] name = "get_tickers" -> tickers
          [] name = "get_order_book" -> book
          [] name = "get_public_order_book" -> public_book
          [] name = "get_candles" -> candles
          [] name = "get_active_orders" -> active
          [] name = "get_historical_orders" -> historical
          [] name = "place_limit_order" -> limit
          [] name = "place_market_order" -> at_market
          [] name = "replace_order" -> replace
          [] OTHER -> None
  BY DEF to_command
<1>3. /\ plain <=> name \in {"get_balances", "get_currencies", "get_pairs", "get_last_trades",
                            "cancel_all_orders"}
      /\ by_id <=> name \in {"get_order", "get_order_fills", "cancel_order"}
      /\ trade <=> name \in {"get_all_trades", "get_private_trades"}
  BY DEF Plain, ById, Trades
<1>4. Sound(None)
  BY DEF Sound
<1>5. plain => Sound(plain_commands)
  <2>1. plain => \A command \in plain_commands : command.op \notin Placements \union LibraryOps
    BY PlainOps DEF Placements, LibraryOps
  <2> QED BY <2>1, Nameless
<1>6. by_id => Sound(id_commands)
  <2>1. by_id => \A command \in id_commands : command.op \notin Placements \union LibraryOps
    BY ByIdOps DEF Placements, LibraryOps
  <2> QED BY <2>1, Nameless
<1>7. trade => Sound(trade_commands)
  <2>1. trade => \A command \in trade_commands : command.op \notin Placements \union LibraryOps
    BY TradesOps DEF Placements, LibraryOps
  <2> QED BY <2>1, Nameless
<1>8. /\ Sound(tickers) /\ Sound(book) /\ Sound(public_book) /\ Sound(candles)
      /\ Sound(active) /\ Sound(historical)
  <2>1. \A command \in tickers \union book \union public_book \union candles \union active \union historical :
          command.op \notin Placements \union LibraryOps
    BY DEF Placements, LibraryOps
  <2> HIDE DEF tickers, book, public_book, candles, active, historical
  <2> QED BY <2>1, Nameless
<1>9. Sound(limit) /\ Sound(at_market) /\ Sound(replace)
  BY CallOrdersSound
<1> HIDE DEF plain, by_id, trade, plain_commands, id_commands, trade_commands, tickers, book,
             public_book, candles, active, historical, limit, at_market, replace
<1>10. CASE plain
  BY <1>2, <1>3, <1>5, <1>10, Zenon
<1>11. CASE by_id
  BY <1>2, <1>3, <1>6, <1>11, Zenon
<1>12. CASE trade
  BY <1>2, <1>3, <1>7, <1>12, Zenon
<1>13. CASE name = "get_tickers"
  BY <1>2, <1>3, <1>8, <1>13, Zenon
<1>14. CASE name = "get_order_book"
  BY <1>2, <1>3, <1>8, <1>14, Zenon
<1>15. CASE name = "get_public_order_book"
  BY <1>2, <1>3, <1>8, <1>15, Zenon
<1>16. CASE name = "get_candles"
  BY <1>2, <1>3, <1>8, <1>16, Zenon
<1>17. CASE name = "get_active_orders"
  BY <1>2, <1>3, <1>8, <1>17, Zenon
<1>18. CASE name = "get_historical_orders"
  BY <1>2, <1>3, <1>8, <1>18, Zenon
<1>19. CASE name = "place_limit_order"
  BY <1>2, <1>3, <1>9, <1>19, Zenon
<1>20. CASE name = "place_market_order"
  BY <1>2, <1>3, <1>9, <1>20, Zenon
<1>21. CASE name = "replace_order"
  BY <1>2, <1>3, <1>9, <1>21, Zenon
<1>22. CASE /\ ~plain /\ ~by_id /\ ~trade
           /\ name \notin {"get_tickers", "get_order_book", "get_public_order_book",
                          "get_candles", "get_active_orders", "get_historical_orders",
                          "place_limit_order", "place_market_order", "replace_order"}
  BY <1>2, <1>4, <1>22, Zenon
<1> QED BY <1>10, <1>11, <1>12, <1>13, <1>14, <1>15, <1>16, <1>17, <1>18, <1>19, <1>20, <1>21, <1>22

-----------------------------------------------------------------------------
(* A client sends to the environment that was chosen.                      *)
MadeFor(made, target) == IsOption(made.client) /\ \A c \in made.client : c.environment = target

LEMMA BuildsFor ==
  ASSUME NEW b
  PROVE  MadeFor(build(b), OrElse(b.base_url, OrElse(b.environment, Production)))
<1> DEFINE target == OrElse(b.base_url, OrElse(b.environment, Production))
<1>1. \A v : MadeFor(Failed(v), target)
  BY DEF MadeFor, Failed, IsOption
<1>2. \A signer : MadeFor(Made(target, signer), target)
  BY DEF MadeFor, Made, IsOption
<1> QED BY <1>1, <1>2 DEF build

LEMMA ElseSome ==
  ASSUME NEW x, NEW default
  PROVE  OrElse(Some(x), default) = x /\ OrElse(None, default) = default
<1>1. (CHOOSE y \in {x} : TRUE) = x
  OBVIOUS
<1> QED BY <1>1 DEF OrElse

LEMMA BuildsFromConfigFor ==
  ASSUME NEW config, NEW files
  PROVE  MadeFor(build_config(config, files), OrElse(config.environment, Production))
<1> DEFINE pem == IF config.private_key_pem # None THEN config.private_key_pem
                  ELSE UNION {files[path] : path \in config.private_key_path}
           target == OrElse(config.environment, Production)
           b == [builder EXCEPT !.environment = Some(target), !.api_key = config.api_key, !.key = pem]
<1>1. \/ build_config(config, files) = build(b)
      \/ \E v \in {"KeyFile", "MissingPrivateKey", "MissingApiKey"} : build_config(config, files) = Failed(v)
  BY DEF build_config
<1>2. b.base_url = None /\ b.environment = Some(target)
  BY DEF builder
<1> HIDE DEF b, target
<1>3. OrElse(b.base_url, OrElse(b.environment, Production)) = target
  BY <1>2, ElseSome
<1>4. MadeFor(build(b), target)
  BY <1>3, BuildsFor
<1>5. \A v : MadeFor(Failed(v), target)
  BY DEF MadeFor, Failed, IsOption
<1> QED BY <1>1, <1>4, <1>5 DEF target

LEMMA OneWord ==
  ASSUME NEW word
  PROVE  word \in Range(<<word>>)
<1> DEFINE s == <<word>>
<1>1. s[1] = word /\ 1 \in DOMAIN s
  OBVIOUS
<1> HIDE DEF s
<1>2. word \in Range(s)
  BY <1>1 DEF Range
<1> QED BY <1>2 DEF s

(* The environment that REVOLUTX_ENVIRONMENT names; blank, it names none.  *)
LEMMA NamedByVariable ==
  ASSUME NEW variables
  PROVE  from_env(variables).environment = UNION {parse_environment(v) : v \in variables.environment}
<1>1. \A text : Blank(text) => parse_environment(text) = {}
  <2> SUFFICES ASSUME NEW text, Blank(text) PROVE parse_environment(text) = {}
    OBVIOUS
  <2>1. text \notin {Dev, <<"development">>, Production, <<"prod">>}
    <3>1. \A word : word \notin {" "} => ~Blank(<<word>>)
      BY OneWord, Zenon DEF Blank
    <3>2. /\ "dev" \notin {" "} /\ "development" \notin {" "}
          /\ "production" \notin {" "} /\ "prod" \notin {" "}
      BY Zenon
    <3>3. ~Blank(<<"dev">>) /\ ~Blank(<<"development">>) /\ ~Blank(<<"production">>) /\ ~Blank(<<"prod">>)
      BY <3>1, <3>2, Zenon
    <3> QED BY <3>3, Zenon DEF Dev, Production
  <2> QED BY <2>1 DEF parse_environment
<1>2. from_env(variables).environment = UNION {parse_environment(v) : v \in env_var(variables.environment)}
  BY DEF from_env
<1>3. env_var(variables.environment) = {v \in variables.environment : ~Blank(v)}
  BY DEF env_var
<1> QED BY <1>1, <1>2, <1>3

LEMMA ClientsFor ==
  ASSUME setup \in Setups, setup.base_url = None
  PROVE  /\ MadeFor(client_for(setup, TRUE), Chosen)
         /\ IsOption(client_for(setup, FALSE).client)
<1>1. ~setup.insecure_env => OrElse(setup.env, Production) = Chosen
  BY DEF Chosen, OrElse
<1>2. setup.insecure_env =>
        OrElse(FlagWins(setup.env, from_env(setup.variables)).environment, Production) = Chosen
  <2>1. CASE setup.env = None
    BY <2>1, NamedByVariable DEF FlagWins, Chosen
  <2>2. CASE setup.env # None
    <3>1. FlagWins(setup.env, from_env(setup.variables)).environment = setup.env
      BY <2>2 DEF FlagWins, from_env
    <3> QED BY <2>2, <3>1 DEF Chosen
  <2> QED BY <2>1, <2>2
<1>3. setup.insecure_env =>
        client_for(setup, TRUE) = build_config(FlagWins(setup.env, from_env(setup.variables)), setup.files)
  BY DEF client_for
<1>4. \A v : MadeFor(Failed(v), Chosen)
  BY DEF MadeFor, Failed, IsOption
<1>5. ASSUME ~setup.insecure_env
      PROVE  MadeFor(client_for(setup, TRUE), Chosen)
  <2> DEFINE b == [builder EXCEPT !.environment = Some(environment(setup)), !.signer = setup.vault]
  <2>1. client_for(setup, TRUE) \in {Failed("NoVault"), Failed("Locked"), build(b)}
    BY <1>5 DEF client_for
  <2>2. b.base_url = None /\ b.environment = Some(environment(setup))
    BY DEF builder
  <2> HIDE DEF b
  <2>3. OrElse(b.base_url, OrElse(b.environment, Production)) = environment(setup)
    BY <2>2, ElseSome
  <2>4. MadeFor(build(b), environment(setup))
    BY <2>3, BuildsFor
  <2> QED BY <1>1, <1>4, <1>5, <2>1, <2>4 DEF environment
<1>6. MadeFor(client_for(setup, TRUE), Chosen)
  BY <1>2, <1>3, <1>5, BuildsFromConfigFor
<1>7. IsOption(client_for(setup, FALSE).client)
  <2>1. client_for(setup, FALSE) = build([builder EXCEPT !.environment = Some(environment(setup))])
    BY DEF client_for
  <2> QED BY <2>1, BuildsFor DEF MadeFor
<1> QED BY <1>6, <1>7

LEMMA KeptFor ==
  ASSUME setup \in Setups
  PROVE  MadeFor(KeptClient, Chosen)
<1>1. CASE setup.surface # "library"
  <2>1. setup.base_url = None
    BY <1>1, CommandPathAssumption
  <2> QED BY <1>1, <2>1, ClientsFor DEF KeptClient
<1>2. CASE setup.surface = "library" /\ setup.base_url # None
  <2> DEFINE b == [builder EXCEPT !.environment = setup.env, !.base_url = setup.base_url,
                                  !.signer = setup.vault]
  <2>1. KeptClient = build(b)
    BY <1>2 DEF KeptClient, LibraryClient
  <2>2. b.base_url = setup.base_url
    BY DEF builder
  <2> HIDE DEF b
  <2>3. OrElse(b.base_url, OrElse(b.environment, Production)) = Chosen
    BY <1>2, <2>2 DEF Chosen, OrElse
  <2> QED BY <2>1, <2>3, BuildsFor
<1>3. CASE setup.surface = "library" /\ setup.base_url = None
  <2> DEFINE config == or_env([environment |-> setup.env, api_key |-> None, private_key_pem |-> None,
                               private_key_path |-> None], setup.variables)
  <2>1. KeptClient = build_config(config, setup.files)
    BY <1>3 DEF KeptClient, LibraryClient
  <2>2. config.environment = IF setup.env = None THEN from_env(setup.variables).environment ELSE setup.env
    BY DEF or_env
  <2> HIDE DEF config
  <2>3. setup.insecure_env
    BY <1>3, CommandPathAssumption
  <2>4. OrElse(config.environment, Production) = Chosen
    BY <1>3, <2>2, <2>3, NamedByVariable DEF Chosen
  <2> QED BY <2>1, <2>4, BuildsFromConfigFor
<1> QED BY <1>1, <1>2, <1>3

(* Of the same words, what was confirmed of one command was of all.        *)
LEMMA ConfirmedAlike ==
  ASSUME NEW verb \in Verbs, NEW w
  PROVE  NeedsConfirming(adapt(verb, w)) => ~Confirmed(adapt(verb, w))
<1>1. CASE verb \in {"balances", "currencies", "pairs"}
  <2>1. verb = "balances" => adapt(verb, w) = Some(run([op |-> "Balances"]))
    BY Zenon DEF adapt, MarketVerbs
  <2>2. verb = "currencies" => adapt(verb, w) = Some(run([op |-> "Currencies"]))
    BY Zenon DEF adapt, MarketVerbs
  <2>3. verb = "pairs" => adapt(verb, w) = Some(run([op |-> "Pairs"]))
    BY Zenon DEF adapt, MarketVerbs
  <2>4. \A a \in adapt(verb, w) : a.confirmed = TRUE
    BY <1>1, <2>1, <2>2, <2>3 DEF run, Action
  <2> QED BY <2>4 DEF NeedsConfirming
<1>2. CASE verb \in MarketVerbs
  <2>1. adapt(verb, w) = market(verb, w)
    BY <1>2, Zenon DEF adapt, MarketVerbs
  <2>2. \A a \in market(verb, w) : a.command.op \in MarketOps
    BY <1>2, MarketWordsSound
  <2>3. \A command : command.op \in MarketOps => ~is_real_trading(command)
    BY RealTrading DEF Ops, MarketOps, TradingOps, LibraryOps
  <2> QED BY <2>1, <2>2, <2>3 DEF NeedsConfirming
<1>3. CASE verb \in {"all", "mine"}
  <2>1. adapt(verb, w) = Some(trades(verb, w))
    BY <1>3, Zenon DEF adapt, MarketVerbs
  <2>2. \A a \in adapt(verb, w) : a.confirmed = TRUE
    BY <2>1 DEF trades, run, Action
  <2> QED BY <2>2 DEF NeedsConfirming
<1>4. CASE verb \in {"active", "historical", "get", "fills", "limit", "market", "replace",
                     "cancel", "cancel-all"}
  <2>1. adapt(verb, w) = orders(verb, w)
    BY <1>4, Zenon DEF adapt, MarketVerbs
  <2>2. CASE verb \in {"active", "historical", "get", "fills"}
    <3>1. \A a \in orders(verb, w) : a.confirmed = TRUE
      BY <2>2 DEF orders, run, Action
    <3> QED BY <2>1, <3>1 DEF NeedsConfirming
  <2>3. CASE verb \in {"limit", "market", "replace", "cancel", "cancel-all"}
    <3>1. \A a \in orders(verb, w) : a.confirmed = w.yes
      BY <2>3 DEF orders, Action
    <3> QED BY <2>1, <3>1 DEF NeedsConfirming, Confirmed
  <2> QED BY <1>4, <2>2, <2>3
<1> QED BY <1>1, <1>2, <1>3, <1>4 DEF Verbs

-----------------------------------------------------------------------------
(* What an ask comes to at the desk.                                       *)

LEMMA AskedOf ==
  ASSUME NEW ask, Sound(ask.command), NEW command \in ask.command
  PROVE  /\ Asked(ask).name = NameOf(command)
         /\ \A order \in Wish(command) : [environment |-> Chosen, order |-> order] \in Asked(ask).wish
         /\ Asked(ask).approved = ask.approved
<1>1. UNION {NameOf(c) : c \in ask.command} = NameOf(command)
  BY DEF Sound
<1> QED BY <1>1 DEF Asked

(* Whatever is wished for is wished for in the environment chosen, and     *)
(* reading wishes for nothing.                                             *)
LEMMA WishesOf ==
  ASSUME NEW ask, Meaning(ask.command)
  PROVE  /\ \A act \in Asked(ask).wish : act.environment = Chosen
         /\ (\A command \in ask.command : ~is_real_trading(command)) => Asked(ask).wish = {}
<1>1. \A act \in Asked(ask).wish : act.environment = Chosen
  BY DEF Asked
<1>2. ASSUME NEW command \in ask.command, ~is_real_trading(command)
      PROVE  Wish(command) = {}
  <2>1. command.op \in Ops
    BY DEF Meaning, WellTyped, Ops
  <2>2. command.op \notin TradingOps \union LibraryOps
    BY <1>2, <2>1, RealTrading
  <2> QED BY <2>2, Zenon DEF Wish, TradingOps, LibraryOps
<1> QED BY <1>1, <1>2 DEF Asked

(* A name is one of the user's, if there is one.                           *)
LEMMA NamesOf ==
  ASSUME NEW ask, Sound(ask.command)
  PROVE  Asked(ask).name \in Option(Uuids)
<1>1. CASE ask.command = {}
  BY <1>1 DEF Asked, Option
<1>2. ASSUME NEW command \in ask.command
      PROVE  Asked(ask).name \in Option(Uuids)
  <2>1. Asked(ask).name = NameOf(command) /\ Formed(command)
    BY AskedOf DEF Sound
  <2> QED BY <2>1 DEF Formed, IsOption, Option
<1> QED BY <1>1, <1>2

-----------------------------------------------------------------------------
(* What the desk says of an outcome.                                       *)

LEMMA Verdicts ==
  /\ Verdict(Open) = "Open" /\ Verdict(Ok) = "Done"
  /\ \A v \in LocalVariants \union SurfaceVariants : Verdict(Error(v)) = "NotDone"
  /\ \A v \in RemoteVariants \union {"Stopped"} : Verdict(Error(v)) = "Unknown"
  /\ \A kind : Verdict(ApiError(kind)) \in {"NotDone", "Unknown"}
  /\ Verdict(ApiError("Server")) = "Unknown"
<1>1. Verdict(Open) = "Open"
  <2>1. Open # Ok /\ Open.variant = "Open" /\ Open.kind = "None"
    BY DEF Open, Ok, Error
  <2>2. Open.variant \notin LocalVariants \union SurfaceVariants
    BY <2>1 DEF LocalVariants, SurfaceVariants
  <2>3. Open.kind \notin {"BadRequest", "Unauthorized", "Forbidden", "NotFound", "Conflict", "RateLimited"}
    BY <2>1
  <2> QED BY <2>1, <2>2, <2>3, Zenon DEF Verdict
<1>2. Verdict(Ok) = "Done"
  <2>1. Open # Ok /\ Ok.variant = "Ok" /\ Ok.kind = "None"
    BY DEF Open, Ok, Error
  <2>2. Ok.variant \notin LocalVariants \union SurfaceVariants
    BY <2>1 DEF LocalVariants, SurfaceVariants
  <2>3. Ok.kind \notin {"BadRequest", "Unauthorized", "Forbidden", "NotFound", "Conflict", "RateLimited"}
    BY <2>1
  <2> QED BY <2>1, <2>2, <2>3, Zenon DEF Verdict
<1>3. ASSUME NEW v \in LocalVariants \union SurfaceVariants
      PROVE  Verdict(Error(v)) = "NotDone"
  <2>1. v \notin {"Open", "Ok"}
    BY DEF LocalVariants, SurfaceVariants
  <2>2. Error(v) # Open /\ Error(v) # Ok
    BY <2>1 DEF Open, Ok, Error
  <2>3. Error(v).variant \in LocalVariants \union SurfaceVariants /\ Error(v).kind = "None"
    BY DEF Error
  <2> QED BY <2>2, <2>3 DEF Verdict
<1>4. ASSUME NEW v \in RemoteVariants \union {"Stopped"}
      PROVE  Verdict(Error(v)) = "Unknown"
  <2>1. v \notin {"Open", "Ok"} \union LocalVariants \union SurfaceVariants
    BY DEF LocalVariants, SurfaceVariants, RemoteVariants
  <2>2. Error(v) # Open /\ Error(v) # Ok
    BY <2>1 DEF Open, Ok, Error
  <2>3. Error(v).variant \notin LocalVariants \union SurfaceVariants
    BY <2>1 DEF Error
  <2>4. Error(v).kind \notin {"BadRequest", "Unauthorized", "Forbidden", "NotFound", "Conflict", "RateLimited"}
    BY DEF Error
  <2> QED BY <2>2, <2>3, <2>4, Zenon DEF Verdict
<1>5. ASSUME NEW kind
      PROVE  /\ Verdict(ApiError(kind)) \in {"NotDone", "Unknown"}
             /\ kind = "Server" => Verdict(ApiError(kind)) = "Unknown"
  <2>1. ApiError(kind) # Open /\ ApiError(kind) # Ok
    BY DEF Open, Ok, Error, ApiError
  <2>2. ApiError(kind).variant \notin LocalVariants \union SurfaceVariants
    BY DEF ApiError, LocalVariants, SurfaceVariants
  <2>3. ApiError(kind).kind = kind
    BY DEF ApiError
  <2>4. CASE kind \in {"BadRequest", "Unauthorized", "Forbidden", "NotFound", "Conflict", "RateLimited"}
    BY <2>1, <2>2, <2>3, <2>4 DEF Verdict
  <2>5. CASE kind \notin {"BadRequest", "Unauthorized", "Forbidden", "NotFound", "Conflict", "RateLimited"}
    BY <2>1, <2>2, <2>3, <2>5, Zenon DEF Verdict
  <2> QED BY <2>4, <2>5
<1> QED BY <1>1, <1>2, <1>3, <1>4, <1>5

(* What comes of an answer.                                                *)
LEMMA AnswerVerdicts ==
  ASSUME NEW answer \in Answers
  PROVE  \/ Verdict(Result(answer)) = "Unknown"
         \/ Verdict(Result(answer)) = "Done" /\ answer \in Successes
         \/ Verdict(Result(answer)) = "NotDone" /\ answer \in Refusals \union {Unattributed}
<1>1. CASE answer \in Successes
  <2>1. answer.status = 200
    BY <1>1 DEF Successes, Answer
  <2>2. Result(answer) \in {Ok, Error("Unexpected"), Error("Deserialize")}
    BY <2>1 DEF Result, send_json, send_no_content
  <2> QED BY <1>1, <2>2, Verdicts DEF RemoteVariants
<1>2. CASE answer \in Refusals \union {Unattributed}
  <2>1. answer.status \in {400, 401, 404, 405, 409, 429}
    BY <1>2 DEF Refusals, Unattributed, Answer
  <2>2. \/ Result(answer) = Error("Unexpected")
        \/ Result(answer) = ApiError(from_status(answer.status))
    BY <2>1 DEF Result, send_json, send_no_content, classify_error_response
  <2> QED BY <1>2, <2>2, Verdicts DEF RemoteVariants
<1>3. CASE answer = Breakdown
  <2>1. answer.status = 502
    BY <1>3 DEF Breakdown, Answer
  <2>2. from_status(502) = "Server"
    BY DEF from_status
  <2>3. Result(answer) = ApiError("Server")
    BY <2>1, <2>2 DEF Result, send_json, send_no_content, classify_error_response
  <2> QED BY <2>3, Verdicts
<1> QED BY <1>1, <1>2, <1>3 DEF Answers

-----------------------------------------------------------------------------
(* The desk that is there at any moment.                                   *)

AtDesk == [n \in DOMAIN asks |-> Asked(asks[n])]

ToldAtDesk == [n \in DOMAIN told |-> Verdict(told[n])]

LEMMA DeskStutters ==
  ASSUME UNCHANGED <<setup, asks, told, effects>>
  PROVE  UNCHANGED Desk!vars
<1>1. AtDesk' = AtDesk
  BY DEF AtDesk, Asked, Chosen
<1>2. ToldAtDesk' = ToldAtDesk
  BY DEF ToldAtDesk
<1> QED BY <1>1, <1>2 DEF Desk!vars, AtDesk, ToldAtDesk

LEMMA DeskStarts ==
  ASSUME Init
  PROVE  Desk!Init
<1>1. asks = <<>> /\ told = <<>> /\ effects = {}
  BY DEF Init
<1>2. AtDesk = <<>>
  BY <1>1 DEF AtDesk
<1>3. ToldAtDesk = <<>>
  BY <1>1 DEF ToldAtDesk
<1> QED BY <1>1, <1>2, <1>3 DEF Desk!Init, AtDesk, ToldAtDesk

(* What ask n comes to stays as it is.                                     *)
LEMMA AskedStays ==
  ASSUME UNCHANGED setup, NEW n, asks'[n] = asks[n]
  PROVE  Asked(asks[n])' = Asked(asks[n])
BY DEF Asked, Chosen

(* A sequence that is another with one more at its end.                    *)
LEMMA OneMore ==
  ASSUME NEW N \in Nat, NEW S, NEW s \in [1..N -> S], NEW t \in [1..(N + 1) -> S],
         \A i \in 1..N : t[i] = s[i]
  PROVE  /\ Len(s) = N /\ Len(t) = N + 1
         /\ SubSeq(t, 1, N) = s /\ t = Append(s, t[N + 1])
<1>1. s \in Seq(S) /\ Len(s) = N
  OBVIOUS
<1>2. t \in Seq(S) /\ Len(t) = N + 1 /\ t[N + 1] \in S
  OBVIOUS
<1> DEFINE front == SubSeq(t, 1, N)
           more == Append(s, t[N + 1])
<1>3. front \in Seq(S) /\ Len(front) = N /\ \A i \in 1..N : front[i] = t[i]
  BY <1>2
<1>4. more \in Seq(S) /\ Len(more) = N + 1 /\ more[N + 1] = t[N + 1] /\ \A i \in 1..N : more[i] = s[i]
  BY <1>1, <1>2
<1> HIDE DEF front, more
<1>5. \A i \in 1..N : front[i] = s[i]
  BY <1>3
<1>6. front = s
  BY <1>1, <1>3, <1>5
<1>7. \A i \in 1..(N + 1) : i \in 1..N \/ i = N + 1
  OBVIOUS
<1>8. \A i \in 1..(N + 1) : more[i] = t[i]
  BY <1>4, <1>7
<1>9. t = more
  BY <1>2, <1>4, <1>8
<1> QED BY <1>1, <1>2, <1>6, <1>9 DEF front, more

LEMMA DeskTakesAsk ==
  ASSUME TInv, UNCHANGED <<setup, effects>>, NEW ask, asks' = Append(asks, ask),
         NEW outcome, told' = Append(told, outcome), Verdict(outcome) \in {"Open", "NotDone"}
  PROVE  Desk!Ask
<1> DEFINE N == Len(asks)
<1>1. asks \in Seq(Asks) /\ told \in Seq(Outcomes) /\ Len(told) = N
  BY DEF TInv, IInv, ToldTyped
<1>2. N \in Nat /\ DOMAIN asks = 1..N /\ DOMAIN told = 1..N
  BY <1>1
<1>3. DOMAIN asks' = 1..(N + 1) /\ \A n \in 1..N : asks'[n] = asks[n]
  BY <1>1, <1>2
<1>4. DOMAIN told' = 1..(N + 1) /\ told'[N + 1] = outcome /\ \A n \in 1..N : told'[n] = told[n]
  BY <1>1, <1>2
<1> DEFINE asked == [n \in DOMAIN asks' |-> Asked(asks[n])']
           tells == [n \in DOMAIN told' |-> Verdict(told'[n])]
<1>5. AtDesk' = asked /\ ToldAtDesk' = tells
  BY DEF AtDesk, ToldAtDesk
<1>6. \A n \in 1..N : asked[n] = AtDesk[n]
  BY <1>2, <1>3, AskedStays DEF AtDesk
<1>7. \A n \in 1..N : tells[n] = ToldAtDesk[n]
  BY <1>2, <1>4 DEF ToldAtDesk
<1> DEFINE wishes == {asked[n] : n \in 1..(N + 1)}
           verdicts == {tells[n] : n \in 1..(N + 1)}
<1>8. asked \in [1..(N + 1) -> wishes] /\ AtDesk \in [1..N -> wishes]
  <2>1. asked \in [1..(N + 1) -> wishes]
    BY <1>3
  <2>2. \A n \in 1..N : AtDesk[n] \in wishes
    <3> HIDE DEF N, asked, wishes
    <3> QED BY <1>2, <1>6, <2>1
  <2>3. AtDesk = [n \in 1..N |-> AtDesk[n]]
    BY <1>2 DEF AtDesk
  <2> HIDE DEF wishes
  <2> QED BY <2>1, <2>2, <2>3
<1>9. tells \in [1..(N + 1) -> verdicts] /\ ToldAtDesk \in [1..N -> verdicts]
  <2>1. tells \in [1..(N + 1) -> verdicts]
    BY <1>4
  <2>2. \A n \in 1..N : ToldAtDesk[n] \in verdicts
    <3> HIDE DEF N, tells, verdicts
    <3> QED BY <1>2, <1>7, <2>1
  <2>3. ToldAtDesk = [n \in 1..N |-> ToldAtDesk[n]]
    BY <1>2 DEF ToldAtDesk
  <2> HIDE DEF verdicts
  <2> QED BY <2>1, <2>2, <2>3
<1>10. tells[N + 1] = Verdict(outcome)
  BY <1>2, <1>4
<1> HIDE DEF N, asked, tells, wishes, verdicts
<1>11. Len(AtDesk) = N /\ Len(asked) = N + 1 /\ SubSeq(asked, 1, N) = AtDesk
  BY <1>2, <1>6, <1>8, OneMore
<1>12. tells = Append(ToldAtDesk, Verdict(outcome))
  BY <1>2, <1>7, <1>9, <1>10, OneMore
<1>13. /\ Len(AtDesk') = Len(AtDesk) + 1 /\ SubSeq(AtDesk', 1, Len(AtDesk)) = AtDesk
       /\ ToldAtDesk' = Append(ToldAtDesk, Verdict(outcome)) /\ effects' = effects
  BY <1>5, <1>11, <1>12
<1> QED BY <1>13 DEF Desk!Ask, AtDesk, ToldAtDesk

-----------------------------------------------------------------------------
(* The invariant: what asks, requests under way, effects and answers have  *)
(* to do with each other.                                                  *)

Wished(n) == Asked(asks[n]).wish

Named(n) == Asked(asks[n]).name

Happened(n) == \E effect \in effects : effect.ask = n

Mutates(m) == m.wire.method # "GET"

Reads(commands) == \A command \in commands : ~is_real_trading(command)

(* The name on a request or an effect of ask n: the one the user gave, or  *)
(* else one drawn for it, or none where orders have no name.               *)
NamedFor(n, name) ==
  \/ name = Named(n)
  \/ Named(n) = {} /\ name \in {{}, {Drawn(n)}}

(* What the desk may say of ask n is done: nothing was wished for, or it   *)
(* happened, or an order of its name did.                                  *)
Done(n) ==
  \/ Wished(n) = {} \/ Happened(n)
  \/ Named(n) # {} /\ \E effect \in effects : effect.name = Named(n)

(* What the desk may say of ask n after it was open.                       *)
Rightly(n, outcome) ==
  \/ outcome = Open \/ Verdict(outcome) = "Unknown"
  \/ Verdict(outcome) = "NotDone" /\ ~Happened(n)
  \/ Verdict(outcome) = "Done" /\ Done(n)

(* What is entered means one thing at most, as far as orders go.           *)
AsksSound == \A n \in DOMAIN asks : Sound(asks[n].command)

(* The shell's own ask comes first; all others count against the bound.    *)
AsksBounded ==
  /\ Len(asks) <= MaxAsks + 1
  /\ \A n \in DOMAIN asks : n > 1 => asks[n].entered

(* Who may execute was approved: by flag, prompt, program or grant.        *)
Approvals ==
  /\ pc \in {"Ready", "Sent", "Paused"} /\ setup.surface # "mcp" =>
       Reads(asks[Current].command) \/ asks[Current].approved
  /\ setup.surface = "mcp" => \A n \in DOMAIN asks : asks[n].approved = permits(setup.access, Trading)
  /\ pc = "Confirming" => setup.surface = "shell" /\ ~asks[Current].approved

(* Only reading is polled.                                                 *)
WatchedReads == Busy /\ watching => Reads(asks[Current].command)

(* Whatever trades goes through a client of the chosen environment.        *)
ClientChosen ==
  /\ IsOption(client)
  /\ \A c \in client :
       \/ c.environment = Chosen
       \/ /\ setup.surface = "oneshot"
          /\ Busy => \A command \in asks[Current].command : command.op \in PublicOps

(* What a request on its way would do is what its ask wished, was approved *)
(* for, and has neither happened yet nor been denied.                      *)
Honest(m) ==
  /\ ~Reads(asks[m.ask].command) /\ asks[m.ask].approved
  /\ Verdict(told[m.ask]) \in {"Open", "Unknown"}
  /\ ~Happened(m.ask)
  /\ m.environment = Chosen
  /\ IsOption(Reading(m.wire))
  /\ \A order \in Reading(m.wire) : [environment |-> Chosen, order |-> order] \in Wished(m.ask)
  /\ NamedFor(m.ask, NameIn(m.wire))

RequestsHonest == \A m \in network : Mutates(m) => Honest(m)

OneRequestEach ==
  \A m, other \in network : Mutates(m) /\ Mutates(other) /\ m.ask = other.ask => m = other

NoneMutates(n) == \A m \in network : m.ask = n => ~Mutates(m)

NotYetSent ==
  pc \in {"Confirming", "Ready", "Paused"} => ~Happened(Current) /\ NoneMutates(Current)

EffectsHonest ==
  \A effect \in effects :
    /\ effect.ask \in DOMAIN asks
    /\ effect.act \in Wished(effect.ask)
    /\ NamedFor(effect.ask, effect.name)

AnswersHonest ==
  \A answer \in answers :
    /\ NoneMutates(Current)
    /\ answer \in Successes => Done(Current)
    /\ answer \in Refusals \union {Unattributed} => ~Happened(Current)

NothingAskedYet == pc = "Closed" => asks = <<>>

DInv ==
  /\ AsksSound /\ AsksBounded /\ Approvals /\ WatchedReads /\ ClientChosen
  /\ RequestsHonest /\ OneRequestEach /\ NotYetSent
  /\ EffectsHonest /\ AnswersHonest /\ NothingAskedYet

(* An ask that only reads has no more to it.                               *)
LEMMA ReadersOnlyRead ==
  ASSUME TInv, RequestsHonest, EffectsHonest, NEW n \in DOMAIN asks, Reads(asks[n].command)
  PROVE  Wished(n) = {} /\ NoneMutates(n) /\ ~Happened(n)
<1>1. Meaning(asks[n].command)
  BY DEF TInv, IInv, AsksMean
<1>2. Wished(n) = {}
  BY <1>1, WishesOf DEF Wished, Reads
<1>3. NoneMutates(n)
  BY DEF NoneMutates, RequestsHonest, Honest
<1> QED BY <1>2, <1>3 DEF Happened, EffectsHonest

(* A request that changes nothing is of an ask that only reads.            *)
LEMMA GetsRead ==
  ASSUME TInv, NEW m \in network, ~Mutates(m)
  PROVE  /\ m.ask \in DOMAIN asks /\ Reads(asks[m.ask].command) /\ Reading(m.wire) = {}
<1>1. m.ask \in DOMAIN asks /\ \A command \in asks[m.ask].command : TierOf(m.wire) = min_access(command)
  BY DEF TInv, IInv, SentForAsks, SentWithinAuthority
<1>2. TierOf(m.wire) # Trading
  BY DEF Mutates, TierOf, required_access_for, Market, View, Trading
<1>3. Reading(m.wire) = {}
  BY Readings DEF Mutates
<1> QED BY <1>1, <1>2, <1>3 DEF Reads, is_real_trading

(* The asks staying, what they come to stays.                              *)
LEMMA AsksStay ==
  ASSUME UNCHANGED <<setup, asks>>
  PROVE  /\ \A n : Wished(n)' = Wished(n) /\ Named(n)' = Named(n)
         /\ \A n, name : NamedFor(n, name)' <=> NamedFor(n, name)
         /\ Chosen' = Chosen
<1>1. ASSUME NEW n PROVE Wished(n)' = Wished(n) /\ Named(n)' = Named(n)
  BY DEF Wished, Named, Asked, Chosen
<1>2. Chosen' = Chosen
  BY DEF Chosen
<1> QED BY <1>1, <1>2 DEF NamedFor

-----------------------------------------------------------------------------
(* The steps of the desk.                                                  *)

LEMMA DeskTells ==
  ASSUME TInv, Busy, UNCHANGED <<setup, asks, effects>>,
         NEW outcome, told' = [told EXCEPT ![Current] = outcome], Rightly(Current, outcome)
  PROVE  Desk!Next \/ UNCHANGED Desk!vars
<1> DEFINE n == Current
<1>1. told \in Seq(Outcomes) /\ Len(told) = Len(asks) /\ n \in DOMAIN told /\ n \in DOMAIN asks
  BY BusyHasAsk DEF TInv, IInv, Current
<1>2. told[n] = Open
  BY DEF TInv, BusyOpen
<1>3. CASE outcome = Open
  <2>1. told' = told
    BY <1>1, <1>2, <1>3
  <2> QED BY <2>1, DeskStutters
<1>4. CASE outcome # Open
  <2>1. AtDesk' = AtDesk
    BY DEF AtDesk, Asked, Chosen
  <2>2. ToldAtDesk' = [ToldAtDesk EXCEPT ![n] = Verdict(outcome)]
    <3>1. DOMAIN told' = DOMAIN told /\ \A i \in DOMAIN told : told'[i] = IF i = n THEN outcome ELSE told[i]
      BY <1>1
    <3> HIDE DEF n
    <3>2. ToldAtDesk' = [i \in DOMAIN told |-> IF i = n THEN Verdict(outcome) ELSE Verdict(told[i])]
      BY <3>1 DEF ToldAtDesk
    <3> QED BY <1>1, <3>2 DEF ToldAtDesk
  <2>3. ToldAtDesk[n] = "Open"
    BY <1>1, <1>2, Verdicts DEF ToldAtDesk
  <2>4. AtDesk[n] = Asked(asks[n]) /\ n \in DOMAIN AtDesk
    BY <1>1 DEF AtDesk
  <2> HIDE DEF n
  <2>5. \/ Verdict(outcome) = "Unknown"
        \/ Verdict(outcome) = "NotDone" /\ \A effect \in effects : effect.ask # n
        \/ /\ Verdict(outcome) = "Done"
           /\ \/ AtDesk[n].wish = {}
              \/ \E effect \in effects : effect.ask = n \/ (AtDesk[n].name # {} /\ effect.name = AtDesk[n].name)
    BY <1>4, <2>4 DEF Rightly, Done, Happened, Wished, Named, n
  <2>6. Desk!Tell(n)
    BY <2>1, <2>2, <2>3, <2>5 DEF Desk!Tell, AtDesk, ToldAtDesk
  <2> QED BY <2>4, <2>6 DEF Desk!Next, AtDesk
<1> QED BY <1>3, <1>4

LEMMA DeskApproves ==
  ASSUME TInv, Busy, UNCHANGED <<setup, told, effects>>, asks' = [asks EXCEPT ![Current].approved = TRUE]
  PROVE  Desk!Next
<1>0. PICK n : n = Current
  OBVIOUS
<1>1. asks \in Seq(Asks) /\ n \in DOMAIN told /\ n \in DOMAIN asks
  BY <1>0, BusyHasAsk DEF TInv, IInv, Current
<1>2. told[n] = Open
  BY <1>0 DEF TInv, BusyOpen
<1>3. ToldAtDesk' = ToldAtDesk
  BY DEF ToldAtDesk
<1>4. ToldAtDesk[n] = "Open"
  BY <1>1, <1>2, Verdicts DEF ToldAtDesk
<1>5. n \in DOMAIN AtDesk
  BY <1>1 DEF AtDesk
<1>6. AtDesk' = [AtDesk EXCEPT ![n].approved = TRUE]
  <2>1. DOMAIN asks' = DOMAIN asks /\ \A i \in DOMAIN asks : i # n => asks'[i] = asks[i]
    BY <1>0, <1>1
  <2>2. asks'[n].command = asks[n].command /\ asks'[n].approved = TRUE
    <3> DEFINE old == asks[n]
               new == [old EXCEPT !.approved = TRUE]
    <3>1. asks'[n] = new
      BY <1>0, <1>1
    <3>2. old \in Asks
      BY <1>1
    <3> HIDE DEF old
    <3>3. new.command = old.command /\ new.approved = TRUE
      BY <3>2 DEF Asks
    <3> QED BY <3>1, <3>3 DEF old
  <2>3. \A i \in DOMAIN asks : i # n => Asked(asks[i])' = Asked(asks[i])
    BY <2>1, AskedStays
  <2> DEFINE wish == Asked(asks[n]).wish
             name == Asked(asks[n]).name
             After(approved) == [wish |-> wish, name |-> name, approved |-> approved]
  <2>4. Asked(asks[n]) = After(asks[n].approved)
    BY DEF Asked
  <2>5. Asked(asks[n])' = After(asks'[n].approved)
    <3>1. Chosen' = Chosen /\ asks'[n].command = asks[n].command
      BY <2>2 DEF Chosen
    <3>2. Asked(asks[n])'.wish = wish /\ Asked(asks[n])'.name = name
      BY <3>1 DEF Asked
    <3> QED BY <3>2 DEF Asked
  <2> HIDE DEF wish, name
  <2>6. ASSUME NEW t
        PROVE  [AtDesk EXCEPT ![n].approved = t] =
                 [i \in DOMAIN asks |-> IF i = n THEN After(t) ELSE AtDesk[i]]
    <3>1. AtDesk[n] = After(asks[n].approved) /\ DOMAIN AtDesk = DOMAIN asks
      BY <1>1, <2>4 DEF AtDesk
    <3>2. [AtDesk[n] EXCEPT !.approved = t] = After(t)
      BY <3>1
    <3> QED BY <1>1, <3>1, <3>2 DEF AtDesk
  <2>7. After(asks'[n].approved) = After(TRUE)
    BY <2>2, Zenon
  <2>8. \A i \in DOMAIN asks : i # n => Asked(asks[i])' = AtDesk[i]
    BY <2>3 DEF AtDesk
  <2> DEFINE after == After(TRUE)
  <2>9. Asked(asks[n])' = after
    BY <2>5, <2>7, Zenon
  <2> HIDE DEF after, After
  <2>10. AtDesk' = [i \in DOMAIN asks |-> IF i = n THEN after ELSE AtDesk[i]]
    <3>1. AtDesk' = [i \in DOMAIN asks |-> Asked(asks[i])']
      BY <2>1 DEF AtDesk
    <3> QED BY <2>8, <2>9, <3>1
  <2> QED BY <2>6, <2>10, Zenon DEF after
<1>7. Desk!Approve(n)
  BY <1>3, <1>4, <1>6 DEF Desk!Approve, AtDesk, ToldAtDesk
<1> QED BY <1>5, <1>7 DEF Desk!Next, AtDesk

(* The exchange takes an order.                                            *)
LEMMA DeskTakes ==
  ASSUME TInv, DInv, NEW m \in network, ExchangeTakes(m)
  PROVE  Desk!Next
<1> DEFINE n == m.ask
           name == NameIn(m.wire)
<1>1. Mutates(m) /\ Reading(m.wire) # {}
  BY GetsRead DEF ExchangeTakes
<1>2. Honest(m)
  BY <1>1 DEF DInv, RequestsHonest
<1>3. n \in DOMAIN asks /\ n \in DOMAIN told
  BY DEF TInv, IInv, SentForAsks, ToldTyped
<1>4. AtDesk[n] = Asked(asks[n]) /\ ToldAtDesk[n] = Verdict(told[n]) /\ n \in DOMAIN AtDesk
  BY <1>3 DEF AtDesk, ToldAtDesk
<1>5. UNCHANGED <<setup, asks, told>> /\ effects' = effects \union Effects(m) /\ ~Duplicate(m)
  BY DEF ExchangeTakes, Respond
<1>6. AtDesk' = AtDesk /\ ToldAtDesk' = ToldAtDesk
  BY <1>5 DEF AtDesk, ToldAtDesk, Asked, Chosen
<1>7. PICK order : Reading(m.wire) = {order}
  BY <1>1, <1>2 DEF Honest, IsOption
<1> DEFINE wish == [environment |-> Chosen, order |-> order]
<1>8. effects' = effects \union {[ask |-> n, name |-> name, act |-> wish]}
  BY <1>2, <1>5, <1>7 DEF Effects, Honest
<1>9. wish \in Wished(n) /\ wish \in AtDesk[n].wish
  BY <1>2, <1>4, <1>7 DEF Honest, Wished
<1>10. ASSUME NEW effect \in effects
       PROVE  effect.ask # n /\ (name = {} \/ effect.name # name)
  <2>1. effect.ask # n
    BY <1>2 DEF Honest, Happened
  <2>2. effect.ask \in DOMAIN asks /\ effect.act \in Wished(effect.ask)
    BY DEF DInv, EffectsHonest
  <2>3. effect.act.environment = Chosen
    BY <2>2, WishesOf DEF Wished, TInv, IInv, AsksMean
  <2>4. m.environment = Chosen
    BY <1>2 DEF Honest
  <2> QED BY <1>5, <2>1, <2>3, <2>4 DEF Duplicate
<1>11. Named(n) \in Option(Uuids)
  BY <1>3, NamesOf DEF DInv, AsksSound, Named
<1>12. n \in 1..(MaxAsks + 1)
  BY <1>3, CommandPathAssumption DEF DInv, AsksBounded, TInv, IInv
<1>13. name \in Option(Uuids \union {Drawn(i) : i \in 1..(MaxAsks + 1)})
  BY <1>2, <1>11, <1>12 DEF Honest, NamedFor, Option
<1>14. AtDesk[n].name = {} \/ AtDesk[n].name = name
  BY <1>2, <1>4 DEF Honest, NamedFor, Named
<1>15. AtDesk[n].approved /\ ToldAtDesk[n] \in {"Open", "Unknown"}
  BY <1>2, <1>4 DEF Honest, Asked
<1> HIDE DEF n, name, wish
<1>16. Desk!Take(n, name)
  BY <1>6, <1>8, <1>9, <1>10, <1>14, <1>15 DEF Desk!Take, AtDesk, ToldAtDesk
<1> QED BY <1>4, <1>13, <1>16 DEF Desk!Next, AtDesk

-----------------------------------------------------------------------------
(* The invariant is kept.                                                  *)

(* A step that leaves asks and effects alone, and sends nothing.           *)
LEMMA Unheard ==
  ASSUME TInv, DInv, UNCHANGED <<setup, asks, effects>>, network' \subseteq network,
         \A n \in DOMAIN asks : \/ told'[n] = told[n]
                                \/ Verdict(told'[n]) \in {"Open", "Unknown"}
                                \/ NoneMutates(n)
  PROVE  AsksSound' /\ AsksBounded' /\ RequestsHonest' /\ OneRequestEach' /\ EffectsHonest'
<1>1. AsksSound' /\ AsksBounded'
  BY DEF DInv, AsksSound, AsksBounded
<1>2. ASSUME NEW m \in network', Mutates(m)
      PROVE  Honest(m)'
  <2>1. m \in network /\ Honest(m)
    BY <1>2 DEF DInv, RequestsHonest
  <2>2. m.ask \in DOMAIN asks
    BY <2>1 DEF TInv, IInv, SentForAsks
  <2>3. ~NoneMutates(m.ask)
    BY <1>2, <2>1 DEF NoneMutates
  <2>4. Verdict(told'[m.ask]) \in {"Open", "Unknown"}
    BY <2>1, <2>2, <2>3 DEF Honest
  <2>5. Happened(m.ask)' <=> Happened(m.ask)
    BY DEF Happened
  <2> QED BY <2>1, <2>4, <2>5, AsksStay DEF Honest
<1>3. RequestsHonest'
  BY <1>2 DEF RequestsHonest, Mutates
<1>4. OneRequestEach'
  BY DEF DInv, OneRequestEach, Mutates
<1>5. EffectsHonest'
  BY AsksStay DEF DInv, EffectsHonest
<1> QED BY <1>1, <1>3, <1>4, <1>5

(* The user is told something of the current ask.                          *)
LEMMA ReportKept ==
  ASSUME TInv, DInv, pc \in {"Ready", "Sent", "Paused"}, UNCHANGED <<setup, client, asks, effects>>,
         network' \subseteq network, answers' = {},
         pc' = "Idle" \/ (pc' = "Paused" /\ watching), watching' => watching,
         NEW outcome, told' = [told EXCEPT ![Current] = outcome],
         Verdict(outcome) \in {"Open", "Unknown"} \/ NoneMutates(Current)
  PROVE  DInv'
<1>1. told \in Seq(Outcomes) /\ Len(told) = Len(asks) /\ Current \in DOMAIN told /\ Current \in DOMAIN asks
  BY BusyHasAsk DEF Busy, TInv, IInv, Current
<1>2. Current' = Current
  BY DEF Current
<1>3. \A n \in DOMAIN asks : told'[n] = IF n = Current THEN outcome ELSE told[n]
  <2>1. DOMAIN asks = DOMAIN told
    BY <1>1 DEF TInv, IInv
  <2> QED BY <1>1, <2>1
<1>4. AsksSound' /\ AsksBounded' /\ RequestsHonest' /\ OneRequestEach' /\ EffectsHonest'
  BY <1>3, Unheard
<1>5. Approvals'
  BY <1>2 DEF DInv, Approvals
<1>6. WatchedReads'
  BY <1>2 DEF DInv, WatchedReads, Busy
<1>7. ClientChosen'
  BY <1>2, AsksStay DEF DInv, ClientChosen, Busy
<1>8. NotYetSent'
  <2>1. CASE pc' = "Idle"
    BY <2>1 DEF NotYetSent
  <2>2. CASE pc' = "Paused" /\ watching
    <3>1. Reads(asks[Current].command)
      BY <2>2 DEF DInv, WatchedReads, Busy
    <3>2. NoneMutates(Current) /\ ~Happened(Current)
      BY <1>1, <3>1, ReadersOnlyRead DEF DInv
    <3> QED BY <1>2, <3>2 DEF NotYetSent, NoneMutates, Happened, Mutates
  <2> QED BY <2>1, <2>2
<1>9. AnswersHonest' /\ NothingAskedYet'
  BY DEF AnswersHonest, NothingAskedYet
<1> QED BY <1>4, <1>5, <1>6, <1>7, <1>8, <1>9 DEF DInv

LEMMA ReportAtDesk ==
  ASSUME TInv, DInv, pc \in {"Ready", "Sent"}, NEW outcome, Report(outcome), network' \subseteq network,
         Rightly(Current, outcome),
         Verdict(outcome) \in {"Open", "Unknown"} \/ NoneMutates(Current)
  PROVE  DInv' /\ (Desk!Next \/ UNCHANGED Desk!vars)
<1> DEFINE final == IF watching THEN Open ELSE outcome
<1>1. told' = [told EXCEPT ![Current] = final]
  BY DEF Report
<1>2. /\ UNCHANGED <<setup, client, watching, asks, effects>> /\ answers' = {}
      /\ pc' = IF watching THEN "Paused" ELSE "Idle"
  BY DEF Report
<1>3. Rightly(Current, final) /\ (Verdict(final) \in {"Open", "Unknown"} \/ NoneMutates(Current))
  BY Verdicts DEF Rightly
<1> HIDE DEF final
<1>4. DInv'
  BY <1>1, <1>2, <1>3, ReportKept
<1>5. Desk!Next \/ UNCHANGED Desk!vars
  BY <1>1, <1>2, <1>3, DeskTells DEF Busy
<1> QED BY <1>4, <1>5

LEMMA ExecuteFailsAtDesk ==
  ASSUME TInv, DInv, ExecuteFails
  PROVE  DInv' /\ (Desk!Next \/ UNCHANGED Desk!vars)
<1>1. PICK outcome : /\ Report(outcome)
                     /\ \/ outcome \in {Error("InvalidRequest"), Error("Agent")}
                        \/ outcome \in Unsendable
  BY DEF ExecuteFails, Executor
<1>2. \A error \in Unsendable :
        error \in {Error("InvalidRequest"), Error("MissingCredentials"), Error("Signing"), Error("Key")}
  BY DEF Unsendable, SendError, SigningError
<1>3. Verdict(outcome) \in {"NotDone", "Unknown"}
  BY <1>1, <1>2, Verdicts DEF LocalVariants, RemoteVariants
<1>4. ~Happened(Current) /\ NoneMutates(Current)
  BY DEF ExecuteFails, DInv, NotYetSent
<1>5. pc = "Ready" /\ network' \subseteq network
  BY DEF ExecuteFails
<1>6. Rightly(Current, outcome)
  BY <1>3, <1>4 DEF Rightly
<1> QED BY <1>1, <1>4, <1>5, <1>6, ReportAtDesk

LEMMA ReceiveAtDesk ==
  ASSUME TInv, DInv, Receive
  PROVE  DInv' /\ (Desk!Next \/ UNCHANGED Desk!vars)
<1>1. PICK answer \in answers : Report(Result(answer))
  BY DEF Receive
<1>2. answer \in Answers
  BY DEF TInv, AnswersTyped, Option
<1>3. /\ NoneMutates(Current)
      /\ answer \in Successes => Done(Current)
      /\ answer \in Refusals \union {Unattributed} => ~Happened(Current)
  BY DEF DInv, AnswersHonest
<1>4. Rightly(Current, Result(answer))
  BY <1>2, <1>3, AnswerVerdicts DEF Rightly
<1>5. pc = "Sent" /\ network' \subseteq network
  BY DEF Receive, Waiting
<1> QED BY <1>1, <1>3, <1>4, <1>5, ReportAtDesk

LEMMA LossAtDesk ==
  ASSUME TInv, DInv, GiveUp \/ AgentLost
  PROVE  DInv' /\ (Desk!Next \/ UNCHANGED Desk!vars)
<1>1. PICK outcome \in {Error("Transport"), Error("Agent"), Error("AgentUnusable")} : Report(outcome)
  BY DEF GiveUp, AgentLost, Executor
<1>2. pc \in {"Ready", "Sent"} /\ network' \subseteq network
  BY DEF GiveUp, AgentLost, TimesOut, Waiting, Forgotten
<1>3. Verdict(outcome) = "Unknown"
  BY <1>1, Verdicts DEF RemoteVariants
<1> QED BY <1>1, <1>2, <1>3, ReportAtDesk DEF Rightly

LEMMA EnterPressedAtDesk ==
  ASSUME TInv, DInv, EnterPressed
  PROVE  DInv' /\ (Desk!Next \/ UNCHANGED Desk!vars)
<1> DEFINE outcome == Error("Stopped")
<1>1. /\ pc \in {"Ready", "Sent", "Paused"} /\ pc' = "Idle" /\ watching' = FALSE /\ answers' = {}
      /\ UNCHANGED <<setup, client, asks, effects>>
      /\ told' = [told EXCEPT ![Current] = outcome]
  BY DEF EnterPressed
<1>2. network' \subseteq network
  BY DEF EnterPressed, Forgotten
<1>3. Verdict(outcome) = "Unknown"
  BY Verdicts
<1> HIDE DEF outcome
<1>4. DInv'
  BY <1>1, <1>2, <1>3, ReportKept
<1>5. Desk!Next \/ UNCHANGED Desk!vars
  BY <1>1, <1>3, DeskTells DEF Busy, Rightly
<1> QED BY <1>4, <1>5

(* Steps that neither ask, nor tell, nor send anything.                    *)
LEMMA QuietAtDesk ==
  ASSUME TInv, DInv, Poll \/ OpenFails \/ OpenOther
  PROVE  DInv' /\ (Desk!Next \/ UNCHANGED Desk!vars)
<1>1. UNCHANGED <<setup, watching, asks, told, network, answers, effects>>
  BY DEF Poll, OpenFails, OpenOther
<1>2. AsksSound' /\ AsksBounded' /\ RequestsHonest' /\ OneRequestEach' /\ EffectsHonest'
  BY <1>1, Unheard
<1>3. Current' = Current /\ Chosen' = Chosen
  BY <1>1, AsksStay DEF Current
<1>4. pc \in {"Ready", "Sent", "Paused", "Confirming"} <=> pc' \in {"Ready", "Sent", "Paused", "Confirming"}
  BY DEF Poll, OpenFails, OpenOther
<1>5. pc' # "Confirming" /\ pc' # "Closed" /\ (pc' \in {"Ready", "Sent", "Paused"} => pc = "Paused")
  BY DEF Poll, OpenFails, OpenOther
<1>6. Approvals'
  BY <1>1, <1>3, <1>4, <1>5 DEF DInv, Approvals
<1>7. WatchedReads'
  BY <1>1, <1>3, <1>4 DEF DInv, WatchedReads, Busy
<1>8. ClientChosen'
  <2>1. CASE UNCHANGED client
    BY <1>1, <1>3, <1>4, <2>1 DEF DInv, ClientChosen, Busy
  <2>2. CASE client' = KeptClient.client
    <3>1. MadeFor(KeptClient, Chosen)
      BY KeptFor DEF TInv, IInv
    <3> QED BY <1>3, <2>2, <3>1 DEF ClientChosen, MadeFor
  <2> QED BY <2>1, <2>2 DEF Poll, OpenFails, OpenOther
<1>9. NotYetSent'
  BY <1>1, <1>3, <1>5 DEF DInv, NotYetSent, Happened, NoneMutates, Mutates
<1>10. AnswersHonest'
  <2>1. \A n : Done(n)' <=> Done(n)
    BY <1>1, AsksStay DEF Done, Happened
  <2> QED BY <1>1, <1>3, <2>1 DEF DInv, AnswersHonest, NoneMutates, Mutates, Happened
<1>11. NothingAskedYet'
  BY <1>5 DEF NothingAskedYet
<1> QED BY <1>1, <1>2, <1>6, <1>7, <1>8, <1>9, <1>10, <1>11, DeskStutters DEF DInv

(* A request that trades leaves as its ask says.                           *)
LEMMA SentHonestly ==
  ASSUME TInv, DInv, Send, NEW c \in client,
         NEW m, m = [ask |-> Current, environment |-> c.environment, wire |-> Wire(Requested, c.signer)],
         Mutates(m)
  PROVE  Honest(m)
<1> DEFINE commands == asks[Current].command
           wire == Wire(Requested, c.signer)
<1>1. pc = "Ready" /\ Busy /\ AgentPermits /\ Unsendable = None
  BY DEF Send, Busy
<1>2. Current \in DOMAIN asks /\ told[Current] = Open
  BY <1>1, BusyHasAsk DEF TInv, IInv, ToldTyped, BusyOpen, Current
<1>3. Command \in commands /\ WellTyped(Command)
  BY <1>1, CommandAsked
<1>4. Sound(commands) /\ Formed(Command)
  BY <1>2, <1>3 DEF DInv, AsksSound, Sound
<1>5. UrlSafe(Requested.path)
  BY <1>1 DEF Unsendable, SendError
<1>6. /\ is_real_trading(Command) => Carries(wire, Command, Drawn(Current))
      /\ ~is_real_trading(Command) => wire.method = "GET"
  BY <1>3, <1>4, <1>5, SentWire DEF Requested
<1>7. m.ask = Current /\ m.environment = c.environment /\ m.wire = wire
  OBVIOUS
<1> HIDE DEF wire
<1>8. is_real_trading(Command) /\ Carries(wire, Command, Drawn(Current))
  BY <1>6, <1>7 DEF Mutates
<1>9. ~Reads(commands)
  BY <1>3, <1>8 DEF Reads
<1>10. asks[Current].approved
  <2>1. CASE setup.surface # "mcp"
    BY <1>1, <1>9, <2>1 DEF DInv, Approvals
  <2>2. CASE setup.surface = "mcp"
    <3>1. TierOf(Requested) = Trading
      BY <1>3, <1>8, RequestTier DEF Requested, is_real_trading
    <3>2. permits(setup.access, Trading)
      BY <1>1, <2>2, <3>1 DEF AgentPermits
    <3> QED BY <1>2, <2>2, <3>2 DEF DInv, Approvals
  <2> QED BY <2>1, <2>2
<1>11. Verdict(told[Current]) \in {"Open", "Unknown"}
  BY <1>2, Verdicts
<1>12. ~Happened(Current)
  BY <1>1 DEF DInv, NotYetSent
<1>13. c.environment = Chosen
  <2>1. Command.op \notin PublicOps
    <3>1. Command.op \in PublicOps => min_access(Command) = Market
      BY DEF PublicOps, min_access, MarketOps, ViewOps, TradingOps, LibraryOps
    <3> QED BY <1>8, <3>1 DEF is_real_trading, Market, Trading
  <2> QED BY <1>1, <1>3, <2>1 DEF DInv, ClientChosen
<1>14. Reading(wire) \subseteq Wish(Command) /\ IsOption(Wish(Command))
  BY <1>4, <1>8, OneWish DEF Carries
<1>15. \A order \in Reading(wire) : [environment |-> Chosen, order |-> order] \in Wished(Current)
  BY <1>3, <1>4, <1>14, AskedOf DEF Wished
<1>16. NamedFor(Current, NameIn(wire))
  <2>1. Named(Current) = NameOf(Command)
    BY <1>3, <1>4, AskedOf DEF Named
  <2> QED BY <1>8, <2>1 DEF Carries, NamedFor
<1> QED BY <1>7, <1>9, <1>10, <1>11, <1>12, <1>13, <1>14, <1>15, <1>16 DEF Honest, IsOption

LEMMA SendAtDesk ==
  ASSUME TInv, DInv, Send
  PROVE  DInv' /\ (Desk!Next \/ UNCHANGED Desk!vars)
<1> DEFINE Sent(c) == [ask |-> Current, environment |-> c.environment, wire |-> Wire(Requested, c.signer)]
<1>1. /\ network' = network \union {Sent(c) : c \in client} /\ pc = "Ready" /\ pc' = "Sent"
      /\ UNCHANGED <<setup, client, watching, asks, told, answers, effects>>
  BY DEF Send
<1>2. Current' = Current /\ Chosen' = Chosen
  BY <1>1, AsksStay DEF Current
<1>3. AsksSound' /\ AsksBounded' /\ EffectsHonest' /\ NothingAskedYet'
  BY <1>1, AsksStay DEF DInv, AsksSound, AsksBounded, EffectsHonest, NothingAskedYet
<1>4. ASSUME NEW m, Honest(m) PROVE Honest(m)'
  <2>1. Happened(m.ask)' <=> Happened(m.ask)
    BY <1>1 DEF Happened
  <2> QED BY <1>1, <1>4, <2>1, AsksStay DEF Honest
<1>5. \A m \in network' : m \in network \/ \E c \in client : m = Sent(c)
  BY <1>1
<1>6. ASSUME NEW c \in client, NEW m, m = Sent(c), Mutates(m) PROVE Honest(m)
  BY <1>6, SentHonestly
<1>7. \A c \in client : Sent(c).ask = Current
  OBVIOUS
<1>8. \A one, other \in client : Sent(one) = Sent(other)
  BY DEF DInv, ClientChosen, IsOption
<1> HIDE DEF Sent
<1>9. RequestsHonest'
  BY <1>4, <1>5, <1>6 DEF DInv, RequestsHonest, Mutates
<1>10. NoneMutates(Current)
  BY <1>1 DEF DInv, NotYetSent
<1>11. OneRequestEach'
  BY <1>5, <1>7, <1>8, <1>10 DEF DInv, OneRequestEach, NoneMutates, Mutates
<1>12. Approvals' /\ WatchedReads' /\ ClientChosen' /\ NotYetSent'
  BY <1>1, <1>2 DEF DInv, Approvals, WatchedReads, ClientChosen, NotYetSent, Busy
<1>13. AnswersHonest'
  BY <1>1 DEF TInv, AnswersTyped, Waiting, AnswersHonest
<1> QED BY <1>1, <1>3, <1>9, <1>11, <1>12, <1>13, DeskStutters DEF DInv

-----------------------------------------------------------------------------
(* The exchange.                                                           *)

LEMMA AnswersDiffer ==
  /\ \A answer \in Successes : answer.status = 200
  /\ \A answer \in Refusals \union {Unattributed} : answer.status \in {400, 401, 404, 405, 409, 429}
  /\ Breakdown.status = 502
BY DEF Successes, Refusals, Unattributed, Breakdown, Answer

(* With a request, nothing of its ask is left that changes anything.       *)
LEMMA LastOfItsAsk ==
  ASSUME TInv, DInv, NEW m \in network, NEW other \in network, other # m, other.ask = m.ask
  PROVE  ~Mutates(other)
<1>1. CASE Mutates(m)
  BY <1>1 DEF DInv, OneRequestEach
<1>2. CASE ~Mutates(m)
  <2>1. m.ask \in DOMAIN asks /\ Reads(asks[m.ask].command)
    BY <1>2, GetsRead
  <2>2. NoneMutates(m.ask)
    BY <2>1, ReadersOnlyRead DEF DInv
  <2> QED BY <2>2 DEF NoneMutates
<1> QED BY <1>1, <1>2

(* Drawn names belong to one ask each, and are not the user's; so whoever  *)
(* took a name did so for the ask, or the user gave it.                    *)
LEMMA DuplicateIsDone ==
  ASSUME TInv, DInv, NEW m \in network, Mutates(m), Duplicate(m)
  PROVE  Done(m.ask)
<1> DEFINE n == m.ask
           name == NameIn(m.wire)
<1>1. PICK effect \in effects : effect.name # {} /\ effect.name = name
  BY DEF Duplicate
<1>2. NamedFor(n, name)
  BY DEF DInv, RequestsHonest, Honest
<1>3. effect.ask \in DOMAIN asks /\ NamedFor(effect.ask, name)
  BY <1>1 DEF DInv, EffectsHonest
<1>4. Named(effect.ask) \in Option(Uuids)
  BY <1>3, NamesOf DEF DInv, AsksSound, Named
<1>5. n \in DOMAIN asks
  BY DEF TInv, IInv, SentForAsks
<1>6. n \in 1..(MaxAsks + 1)
  BY <1>5, CommandPathAssumption DEF DInv, AsksBounded, TInv, IInv
<1> HIDE DEF n, name
<1>7. CASE name = Named(n)
  BY <1>1, <1>7 DEF Done, n
<1>8. CASE name = {Drawn(n)}
  <2>1. Drawn(n) \notin Uuids
    BY <1>6, CommandPathAssumption
  <2>2. name # Named(effect.ask)
    BY <1>4, <1>8, <2>1 DEF Option
  <2>3. {Drawn(effect.ask)} = {Drawn(n)}
    BY <1>1, <1>3, <1>8, <2>2 DEF NamedFor
  <2>4. effect.ask = n
    <3>1. Drawn(effect.ask) = Drawn(n)
      BY <2>3, Zenon
    <3>2. Drawn(effect.ask)[2] = effect.ask /\ Drawn(n)[2] = n
      BY DEF Drawn
    <3> QED BY <3>1, <3>2
  <2> QED BY <2>4 DEF Done, Happened, n
<1> QED BY <1>1, <1>2, <1>7, <1>8 DEF NamedFor

(* Nothing happens on the account.                                         *)
LEMMA NothingHappens ==
  ASSUME TInv, DInv, NEW m \in network,
         ExchangeRefuses(m) \/ ExchangeAnswers(m) \/ ExchangeBreaks(m) \/ Lose(m)
  PROVE  DInv' /\ UNCHANGED Desk!vars
<1>1. UNCHANGED <<setup, client, pc, watching, asks, told, effects>> /\ network' = network \ {m}
  BY DEF ExchangeRefuses, ExchangeAnswers, ExchangeBreaks, Lose, Respond
<1>2. \/ answers' = answers
      \/ /\ m.ask = Current
         /\ \E answer : /\ answers' = {answer}
                        /\ \/ answer \in Refusals \union {Unattributed, Breakdown}
                           \/ answer \in Successes /\ (~Mutates(m) \/ Duplicate(m))
  BY DEF ExchangeRefuses, ExchangeAnswers, ExchangeBreaks, Lose, Respond, Mutates
<1>3. AsksSound' /\ AsksBounded' /\ RequestsHonest' /\ OneRequestEach' /\ EffectsHonest'
  BY <1>1, Unheard
<1>4. Current' = Current /\ Chosen' = Chosen
  BY <1>1, AsksStay DEF Current
<1>5. Approvals' /\ WatchedReads' /\ ClientChosen' /\ NothingAskedYet'
  BY <1>1, <1>4 DEF DInv, Approvals, WatchedReads, ClientChosen, NothingAskedYet, Busy
<1>6. \A n : (Happened(n)' <=> Happened(n)) /\ (Done(n)' <=> Done(n)) /\ (NoneMutates(n) => NoneMutates(n)')
  <2>1. \A n : Happened(n)' <=> Happened(n)
    BY <1>1 DEF Happened
  <2>2. \A n : Done(n)' <=> Done(n)
    BY <1>1, <2>1, AsksStay DEF Done
  <2>3. \A n : NoneMutates(n) => NoneMutates(n)'
    BY <1>1 DEF NoneMutates, Mutates
  <2> QED BY <2>1, <2>2, <2>3
<1>7. NotYetSent'
  BY <1>1, <1>4, <1>6 DEF DInv, NotYetSent
<1>8. AnswersHonest'
  <2>1. CASE answers' = answers
    BY <1>1, <1>4, <1>6, <2>1 DEF DInv, AnswersHonest
  <2>2. ASSUME m.ask = Current,
               NEW answer, answers' = {answer},
               \/ answer \in Refusals \union {Unattributed, Breakdown}
               \/ answer \in Successes /\ (~Mutates(m) \/ Duplicate(m))
        PROVE  AnswersHonest'
    <3>1. NoneMutates(Current)'
      BY <1>1, <1>4, <2>2, LastOfItsAsk DEF NoneMutates, Mutates
    <3>2. ~Mutates(m) => Wished(Current) = {} /\ ~Happened(Current)
      BY <2>2, GetsRead, ReadersOnlyRead DEF DInv
    <3>3. answer \in Successes => Done(Current)
      BY <2>2, <3>2, AnswersDiffer, DuplicateIsDone DEF Done
    <3>4. ~Happened(Current) \/ answer \in Successes \/ answer = Breakdown
      <4>1. Mutates(m) => ~Happened(Current)
        BY <2>2 DEF DInv, RequestsHonest, Honest
      <4> QED BY <3>2, <4>1
    <3> QED BY <1>4, <1>6, <2>2, <3>1, <3>3, <3>4, AnswersDiffer DEF AnswersHonest
  <2> QED BY <1>2, <2>1, <2>2
<1> QED BY <1>1, <1>3, <1>5, <1>7, <1>8, DeskStutters DEF DInv

(* The exchange takes an order: that of its ask, and only once.            *)
LEMMA TakenOnce ==
  ASSUME TInv, DInv, NEW m \in network, ExchangeTakes(m)
  PROVE  DInv'
<1> DEFINE n == m.ask
<1>1. /\ UNCHANGED <<setup, client, pc, watching, asks, told>> /\ network' = network \ {m}
      /\ effects' = effects \union Effects(m)
  BY DEF ExchangeTakes, Respond
<1>2. Mutates(m) /\ Honest(m)
  BY GetsRead DEF ExchangeTakes, DInv, RequestsHonest
<1>3. n \in DOMAIN asks
  BY DEF TInv, IInv, SentForAsks
<1>4. Current' = Current /\ Chosen' = Chosen
  BY <1>1, AsksStay DEF Current
<1>5. AsksSound' /\ AsksBounded' /\ Approvals' /\ WatchedReads' /\ ClientChosen' /\ NothingAskedYet'
  BY <1>1, <1>4 DEF DInv, AsksSound, AsksBounded, Approvals, WatchedReads, ClientChosen, NothingAskedYet, Busy
<1>6. \A effect \in Effects(m) :
        effect.ask = n /\ effect.name = NameIn(m.wire) /\ effect.act \in Wished(n)
  BY <1>2 DEF Effects, Honest
<1>7. \E effect \in Effects(m) : effect.ask = n
  <2>1. PICK order : order \in Reading(m.wire)
    BY DEF ExchangeTakes
  <2>2. [ask |-> n, name |-> NameIn(m.wire), act |-> [environment |-> m.environment, order |-> order]]
          \in Effects(m)
    BY <2>1 DEF Effects
  <2> QED BY <2>2
<1> HIDE DEF n
<1>8. Happened(n)' /\ \A i : i # n => (Happened(i)' <=> Happened(i))
  BY <1>1, <1>6, <1>7 DEF Happened
<1>9. \A i : (Done(i) => Done(i)') /\ (NoneMutates(i) => NoneMutates(i)')
  <2>1. \A i : NoneMutates(i) => NoneMutates(i)'
    BY <1>1 DEF NoneMutates, Mutates
  <2>2. \A i : Done(i) => Done(i)'
    BY <1>1, AsksStay DEF Done, Happened
  <2> QED BY <2>1, <2>2
<1>10. RequestsHonest'
  <2>1. ASSUME NEW other \in network', Mutates(other)
        PROVE  Honest(other)'
    <3>1. other \in network /\ other # m /\ Honest(other)
      BY <1>1, <2>1 DEF DInv, RequestsHonest
    <3>2. other.ask # n
      BY <1>2, <2>1, <3>1 DEF DInv, OneRequestEach, n
    <3>3. ~Happened(other.ask)'
      BY <1>8, <3>1, <3>2 DEF Honest
    <3> QED BY <1>1, <3>1, <3>3, AsksStay DEF Honest
  <2> QED BY <2>1 DEF RequestsHonest, Mutates
<1>11. OneRequestEach'
  BY <1>1 DEF DInv, OneRequestEach, Mutates
<1>12. NotYetSent'
  <2>1. NoneMutates(Current) => Current # n
    BY <1>2 DEF NoneMutates, n
  <2> QED BY <1>1, <1>4, <1>8, <1>9, <2>1 DEF DInv, NotYetSent
<1>13. EffectsHonest'
  <2>1. NamedFor(n, NameIn(m.wire))
    BY <1>2 DEF Honest, n
  <2>2. ASSUME NEW effect \in effects'
        PROVE  effect.ask \in DOMAIN asks /\ effect.act \in Wished(effect.ask) /\ NamedFor(effect.ask, effect.name)
    BY <1>1, <1>3, <1>6, <2>1 DEF DInv, EffectsHonest
  <2> QED BY <1>1, <2>2, AsksStay DEF EffectsHonest
<1>14. AnswersHonest'
  <2>1. CASE Waiting /\ n = Current
    <3>1. PICK answer \in Successes \union {Breakdown} : answers' = {answer}
      BY <2>1 DEF ExchangeTakes, Respond, n
    <3>2. NoneMutates(Current)'
      BY <1>1, <1>4, <2>1, LastOfItsAsk DEF NoneMutates, Mutates, n
    <3>3. Done(Current)'
      BY <1>4, <1>8, <2>1 DEF Done
    <3> QED BY <1>4, <3>1, <3>2, <3>3, AnswersDiffer DEF AnswersHonest
  <2>2. CASE ~(Waiting /\ n = Current)
    <3>1. answers' = answers
      BY <2>2 DEF ExchangeTakes, Respond, n
    <3>2. answers # {} => n # Current
      BY <2>2 DEF TInv, AnswersTyped
    <3> QED BY <1>4, <1>8, <1>9, <3>1, <3>2 DEF DInv, AnswersHonest
  <2> QED BY <2>1, <2>2
<1> QED BY <1>5, <1>10, <1>11, <1>12, <1>13, <1>14 DEF DInv

LEMMA ExchangeAtDesk ==
  ASSUME TInv, DInv, Exchange
  PROVE  DInv' /\ (Desk!Next \/ UNCHANGED Desk!vars)
<1>1. PICK m \in network :
        ExchangeRefuses(m) \/ ExchangeAnswers(m) \/ ExchangeTakes(m) \/ ExchangeBreaks(m) \/ Lose(m)
  BY DEF Exchange
<1>2. CASE ExchangeTakes(m)
  BY <1>2, TakenOnce, DeskTakes
<1>3. CASE ~ExchangeTakes(m)
  BY <1>1, <1>3, NothingHappens
<1> QED BY <1>2, <1>3

-----------------------------------------------------------------------------
(* Asks.                                                                   *)

(* All asks but the shell's own were entered, and there is room for one    *)
(* more as long as the user may enter one.                                 *)
LEMMA RoomForOne ==
  ASSUME TInv, AsksBounded, Cardinality({n \in DOMAIN asks : asks[n].entered}) < MaxAsks
  PROVE  Len(asks) <= MaxAsks
<1> DEFINE N == Len(asks)
           entered == {n \in DOMAIN asks : asks[n].entered}
<1>1. N \in Nat /\ DOMAIN asks = 1..N
  BY DEF TInv, IInv
<1>2. 2..N \subseteq entered
  BY <1>1 DEF AsksBounded
<1>3. IsFiniteSet(1..N) /\ entered \subseteq 1..N
  BY <1>1, FS_Interval
<1>4. IsFiniteSet(entered)
  BY <1>3, FS_Subset
<1>5. Cardinality(2..N) <= Cardinality(entered) /\ Cardinality(entered) \in Nat
  BY <1>2, <1>4, FS_Subset, FS_CardinalityType
<1>6. CASE N = 0
  BY <1>6, CommandPathAssumption
<1>7. CASE N > 0
  <2>1. Cardinality(2..N) = N - 1
    <3>1. 2 \in Int /\ N \in Int
      BY <1>1
    <3>2. Cardinality(2..N) = IF 2 > N THEN 0 ELSE N - 2 + 1
      BY <3>1, FS_Interval
    <3> QED BY <1>1, <1>7, <3>2
  <2>2. N - 1 < MaxAsks
    BY <1>1, <1>5, <2>1, CommandPathAssumption
  <2> QED BY <1>1, <2>2, CommandPathAssumption
<1> QED BY <1>1, <1>6, <1>7

(* One more ask.                                                           *)
LEMMA AskKept ==
  ASSUME TInv, DInv, pc \in {"Idle", "Closed"}, pc' \in {"Idle", "Confirming", "Ready"},
         UNCHANGED <<setup, network, answers, effects>>,
         NEW ask, asks' = Append(asks, ask), Sound(ask.command),
         \/ asks = <<>>
         \/ ask.entered /\ Cardinality({n \in DOMAIN asks : asks[n].entered}) < MaxAsks,
         NEW outcome, told' = Append(told, outcome),
         pc' = "Ready" /\ setup.surface # "mcp" => Reads(ask.command) \/ ask.approved,
         setup.surface = "mcp" => ask.approved = permits(setup.access, Trading),
         pc' = "Confirming" => setup.surface = "shell" /\ ~ask.approved,
         Busy' /\ watching' => Reads(ask.command),
         IsOption(client'),
         \A c \in client' :
           \/ c.environment = Chosen
           \/ setup.surface = "oneshot" /\ (Busy' => \A command \in ask.command : command.op \in PublicOps)
  PROVE  DInv'
<1> DEFINE N == Len(asks)
<1>1. asks \in Seq(Asks) /\ told \in Seq(Outcomes) /\ Len(told) = N /\ N \in Nat
  BY DEF TInv, IInv, ToldTyped
<1>2. DOMAIN asks = 1..N /\ DOMAIN asks' = 1..(N + 1) /\ Len(asks') = N + 1
  BY <1>1
<1>3. asks'[N + 1] = ask /\ \A n \in DOMAIN asks : asks'[n] = asks[n]
  BY <1>1
<1>4. \A n \in DOMAIN asks : told'[n] = told[n]
  BY <1>1, <1>2
<1>5. \A n \in DOMAIN asks' : n \in DOMAIN asks \/ n = N + 1
  BY <1>1, <1>2
<1>6. N + 1 \notin DOMAIN asks /\ Current' = N + 1 /\ asks'[Current'] = ask
  BY <1>1, <1>2, <1>3 DEF Current
<1> HIDE DEF N
<1>7. \A n \in DOMAIN asks : /\ Wished(n)' = Wished(n) /\ Named(n)' = Named(n)
                             /\ \A name : NamedFor(n, name)' <=> NamedFor(n, name)
  <2>1. ASSUME NEW n \in DOMAIN asks
        PROVE  Wished(n)' = Wished(n) /\ Named(n)' = Named(n)
    BY <1>3, AskedStays DEF Wished, Named
  <2> QED BY <2>1 DEF NamedFor
<1>8. Chosen' = Chosen
  BY DEF Chosen
<1>9. \A n : (Happened(n)' <=> Happened(n)) /\ (NoneMutates(n)' <=> NoneMutates(n))
  BY DEF Happened, NoneMutates, Mutates
<1>10. AsksSound'
  BY <1>3, <1>5 DEF DInv, AsksSound
<1>11. AsksBounded'
  <2>1. N + 1 <= MaxAsks + 1
    BY <1>1, RoomForOne, CommandPathAssumption DEF DInv, N
  <2>2. N = 0 \/ ask.entered
    BY <1>1 DEF N
  <2> QED BY <1>1, <1>2, <1>3, <1>5, <2>1, <2>2 DEF DInv, AsksBounded
<1>12. Approvals'
  BY <1>3, <1>5, <1>6 DEF DInv, Approvals
<1>13. WatchedReads' /\ ClientChosen'
  BY <1>6, <1>8 DEF WatchedReads, ClientChosen
<1>14. RequestsHonest' /\ OneRequestEach'
  <2>1. ASSUME NEW m \in network, Honest(m) PROVE Honest(m)'
    <3>1. m.ask \in DOMAIN asks
      BY DEF TInv, IInv, SentForAsks
    <3> QED BY <1>3, <1>4, <1>7, <1>8, <1>9, <2>1, <3>1 DEF Honest
  <2> QED BY <2>1 DEF DInv, RequestsHonest, OneRequestEach, Mutates
<1>15. ~Happened(N + 1) /\ NoneMutates(N + 1)
  BY <1>6 DEF DInv, EffectsHonest, Happened, NoneMutates, TInv, IInv, SentForAsks
<1>16. NotYetSent'
  BY <1>6, <1>9, <1>15 DEF NotYetSent
<1>17. EffectsHonest'
  BY <1>2, <1>1, <1>7 DEF DInv, EffectsHonest
<1>18. AnswersHonest' /\ NothingAskedYet'
  BY DEF TInv, AnswersTyped, Waiting, AnswersHonest, NothingAskedYet
<1> QED BY <1>10, <1>11, <1>12, <1>13, <1>14, <1>16, <1>17, <1>18 DEF DInv

(* What a user enters.                                                     *)
LEMMA EntryAtDesk ==
  ASSUME TInv, DInv, NEW entry, NEW action, NEW approved \in BOOLEAN, Ask(entry, action, approved),
         Sound({a.command : a \in action}), Meaning({a.command : a \in action}), PolledReads(action),
         NEW outcome, told' = Append(told, outcome), Verdict(outcome) \in {"Open", "NotDone"},
         pc' \in {"Idle", "Confirming", "Ready"},
         pc' = "Ready" /\ setup.surface # "mcp" => Reads({a.command : a \in action}) \/ approved,
         setup.surface = "mcp" => approved = permits(setup.access, Trading),
         pc' = "Confirming" => setup.surface = "shell" /\ ~approved,
         IsOption(client'),
         \A c \in client' :
           \/ c.environment = Chosen
           \/ setup.surface = "oneshot" /\ (Busy' => \A a \in action : a.command.op \in PublicOps)
  PROVE  DInv' /\ Desk!Next
<1> DEFINE commands == {a.command : a \in action}
           ask == [entered |-> TRUE, command |-> commands, approved |-> approved]
<1>1. /\ pc = "Idle" /\ asks' = Append(asks, ask) /\ watching' = (\E a \in action : a.watch)
      /\ UNCHANGED <<setup, network, answers, effects>>
      /\ Cardinality({n \in DOMAIN asks : asks[n].entered}) < MaxAsks
  BY DEF Ask
<1>2. ask.entered /\ ask.command = commands /\ ask.approved = approved
  OBVIOUS
<1>3. watching' => Reads(commands)
  <2>1. ASSUME NEW a \in action, a.watch, NEW command \in commands
        PROVE  ~is_real_trading(command)
    <3>1. a.command.op \in MarketOps /\ a.command \in commands
      BY <2>1 DEF PolledReads
    <3>2. command.op = a.command.op
      BY <3>1 DEF Meaning
    <3> QED BY <3>1, <3>2, RealTrading DEF Ops, MarketOps, TradingOps, LibraryOps
  <2> QED BY <1>1, <2>1 DEF Reads
<1>4. \A c \in client' :
        \/ c.environment = Chosen
        \/ setup.surface = "oneshot" /\ (Busy' => \A command \in ask.command : command.op \in PublicOps)
  OBVIOUS
<1>5. Sound(ask.command) /\ (pc' = "Ready" /\ setup.surface # "mcp" => Reads(ask.command) \/ ask.approved)
  OBVIOUS
<1> HIDE DEF ask, commands
<1>6. DInv'
  BY <1>1, <1>2, <1>3, <1>4, <1>5, AskKept
<1>7. Desk!Ask
  BY <1>1, DeskTakesAsk
<1> QED BY <1>6, <1>7 DEF Desk!Next

(* What is refused at once, or open, the desk may say.                     *)
LEMMA FirstVerdicts ==
  /\ Verdict(Open) \in {"Open", "NotDone"}
  /\ \A v \in LocalVariants \union SurfaceVariants : Verdict(Error(v)) \in {"Open", "NotDone"}
BY Verdicts

LEMMA OneShotAtDesk ==
  ASSUME TInv, DInv, OneShot
  PROVE  DInv' /\ Desk!Next
<1>1. PICK entry \in Inputs.words :
        LET made   == client_for(setup, needs_secrets(entry[1]))
            action == adapt(entry[1], entry[2])
        IN /\ Ask(entry, action, Confirmed(action))
           /\ client' = made.client
           /\ \/ \E e \in made.error : Refused(e.variant)
              \/ made.error = None /\ action = None /\ Refused("Usage")
              \/ made.error = None /\ NeedsConfirming(action) /\ Refused("Unconfirmed")
              \/ made.error = None /\ action # None /\ ~NeedsConfirming(action) /\ Accepted("Ready")
  BY DEF OneShot
<1> DEFINE made   == client_for(setup, needs_secrets(entry[1]))
           action == adapt(entry[1], entry[2])
           commands == {a.command : a \in action}
<1>2. Meaning(commands) /\ Sound(commands) /\ PolledReads(action)
  <2>1. entry[1] \in Verbs /\ (entry[1] \in {"limit", "market"} => IsOption(entry[2].client_order_id))
    BY CommandPathAssumption
  <2> QED BY <2>1, EntriesMean, WordsSound
<1>3. PICK outcome : /\ told' = Append(told, outcome) /\ pc' \in {"Idle", "Ready"}
                     /\ pc' = "Ready" => ~NeedsConfirming(action)
                     /\ \/ outcome \in {Open, Error("Usage"), Error("Unconfirmed")}
                        \/ \E e \in made.error : outcome = Error(e.variant)
  BY <1>1 DEF Refused, Accepted
<1>4. Verdict(outcome) \in {"Open", "NotDone"}
  BY <1>3, FirstVerdicts, ClientFor DEF ClientErrors, LocalVariants, SurfaceVariants
<1>5. setup \in Setups /\ setup.base_url = None /\ setup.surface = "oneshot"
  BY CommandPathAssumption DEF TInv, IInv, OneShot
<1>6. IsOption(client')
  <2>1. needs_secrets(entry[1]) \in BOOLEAN
    BY DEF needs_secrets
  <2> QED BY <1>1, <1>5, <2>1, ClientsFor DEF MadeFor
<1>7. \A c \in client' : c.environment = Chosen \/ \A a \in action : a.command.op \in PublicOps
  <2>1. CASE needs_secrets(entry[1]) = TRUE
    BY <1>1, <1>5, <2>1, ClientsFor DEF MadeFor
  <2>2. CASE ~needs_secrets(entry[1])
    BY <2>2, PublicVerbs
  <2> QED BY <2>1, <2>2 DEF needs_secrets
<1>8. ~NeedsConfirming(action) => Reads(commands) \/ Confirmed(action)
  BY DEF NeedsConfirming, Confirmed, Reads
<1>9. Ask(entry, action, Confirmed(action)) /\ Confirmed(action) \in BOOLEAN
  BY <1>1 DEF Confirmed
<1> HIDE DEF made, action
<1> QED BY <1>2, <1>3, <1>4, <1>5, <1>6, <1>7, <1>8, <1>9, EntryAtDesk

LEMMA ShellLineAtDesk ==
  ASSUME TInv, DInv, ShellLine
  PROVE  DInv' /\ Desk!Next
<1>1. PICK entry \in Inputs.words :
        LET action == adapt(entry[1], entry[2])
        IN /\ Ask(entry, action, Confirmed(action))
           /\ \/ action = None /\ Refused("Usage")
              \/ ~TierPermits(action) /\ Refused("AccessDenied")
              \/ TierPermits(action) /\ NeedsConfirming(action) /\ Accepted("Confirming")
              \/ action # None /\ TierPermits(action) /\ ~NeedsConfirming(action) /\ Accepted("Ready")
  BY DEF ShellLine
<1> DEFINE action == adapt(entry[1], entry[2])
           commands == {a.command : a \in action}
<1>2. entry[1] \in Verbs /\ (entry[1] \in {"limit", "market"} => IsOption(entry[2].client_order_id))
  BY CommandPathAssumption
<1>3. Meaning(commands) /\ Sound(commands) /\ PolledReads(action)
  BY <1>2, EntriesMean, WordsSound
<1>4. NeedsConfirming(action) => ~Confirmed(action)
  BY <1>2, ConfirmedAlike
<1>5. PICK outcome : /\ told' = Append(told, outcome) /\ pc' \in {"Idle", "Confirming", "Ready"}
                     /\ pc' = "Ready" => ~NeedsConfirming(action)
                     /\ pc' = "Confirming" => NeedsConfirming(action)
                     /\ outcome \in {Open, Error("Usage"), Error("AccessDenied")}
  BY <1>1 DEF Refused, Accepted
<1>6. Verdict(outcome) \in {"Open", "NotDone"}
  BY <1>5, FirstVerdicts DEF SurfaceVariants
<1>7. setup.surface = "shell" /\ client' = client
  BY DEF ShellLine
<1>8. IsOption(client') /\ \A c \in client' : c.environment = Chosen
  BY <1>7 DEF DInv, ClientChosen
<1>9. ~NeedsConfirming(action) => Reads(commands) \/ Confirmed(action)
  BY DEF NeedsConfirming, Confirmed, Reads
<1>10. Ask(entry, action, Confirmed(action))
  BY <1>1
<1> HIDE DEF action
<1>11. pc' = "Ready" => Reads(commands) \/ Confirmed(action)
  BY <1>5, <1>9
<1>12. pc' = "Confirming" => ~Confirmed(action)
  BY <1>4, <1>5
<1>13. Confirmed(action) \in BOOLEAN
  BY DEF Confirmed
<1>14. told' = Append(told, outcome) /\ pc' \in {"Idle", "Confirming", "Ready"}
  BY <1>5
<1> QED BY <1>3, <1>6, <1>7, <1>8, <1>10, <1>11, <1>12, <1>13, <1>14, EntryAtDesk

LEMMA ToolCallAtDesk ==
  ASSUME TInv, DInv, ToolCall
  PROVE  DInv' /\ Desk!Next
<1>1. PICK entry \in Inputs.calls :
        LET action == {run(command) : command \in to_command(entry[1], entry[2])}
        IN /\ Ask(entry, action, permits(setup.access, Trading))
           /\ \/ action = None /\ Refused("Usage")
              \/ action # None /\ Accepted("Ready")
  BY DEF ToolCall
<1> DEFINE commands == to_command(entry[1], entry[2])
           action == {run(command) : command \in commands}
<1>2. Sound(commands) /\ Meaning(commands)
  BY EntriesMean, CallsSound
<1> HIDE DEF commands
<1>3. {a.command : a \in action} = commands
  <2>1. \A command : run(command).command = command
    BY DEF run, Action
  <2> QED BY <2>1
<1>4. PolledReads(action)
  BY DEF PolledReads, run, Action
<1>5. PICK outcome \in {Open, Error("Usage")} : told' = Append(told, outcome) /\ pc' \in {"Idle", "Ready"}
  BY <1>1 DEF Refused, Accepted, commands
<1>6. Verdict(outcome) \in {"Open", "NotDone"}
  BY <1>5, FirstVerdicts DEF SurfaceVariants
<1>7. setup.surface = "mcp" /\ client' = client
  BY DEF ToolCall
<1>8. IsOption(client') /\ \A c \in client' : c.environment = Chosen
  BY <1>7 DEF DInv, ClientChosen
<1>9. Ask(entry, action, permits(setup.access, Trading)) /\ permits(setup.access, Trading) \in BOOLEAN
  BY <1>1 DEF commands, permits
<1> HIDE DEF action
<1> QED BY <1>2, <1>3, <1>4, <1>5, <1>6, <1>7, <1>8, <1>9, EntryAtDesk

LEMMA LibraryCallAtDesk ==
  ASSUME TInv, DInv, LibraryCall
  PROVE  DInv' /\ Desk!Next
<1>1. PICK entry \in Inputs.commands : Ask(entry, {run(entry[2])}, TRUE) /\ Accepted("Ready")
  BY DEF LibraryCall
<1> DEFINE action == {run(entry[2])}
<1>2. Formed(entry[2]) /\ WellTyped(entry[2])
  BY CommandPathAssumption
<1>3. {a.command : a \in action} = {entry[2]}
  BY DEF run, Action
<1>4. Sound({entry[2]}) /\ Meaning({entry[2]})
  BY <1>2, OneMeaning DEF Sound
<1>5. PolledReads(action)
  BY DEF PolledReads, run, Action
<1>6. told' = Append(told, Open) /\ pc' = "Ready" /\ Verdict(Open) \in {"Open", "NotDone"}
  BY <1>1, FirstVerdicts DEF Accepted
<1>7. setup.surface = "library" /\ client' = client
  BY DEF LibraryCall
<1>8. IsOption(client') /\ \A c \in client' : c.environment = Chosen
  BY <1>7 DEF DInv, ClientChosen
<1>9. PICK approved \in BOOLEAN : approved /\ Ask(entry, action, approved)
  BY <1>1
<1> HIDE DEF action
<1> QED BY <1>3, <1>4, <1>5, <1>6, <1>7, <1>8, <1>9, EntryAtDesk

(* The shell's own ask.                                                    *)
LEMMA OpenShellAtDesk ==
  ASSUME TInv, DInv, OpenShell
  PROVE  DInv' /\ Desk!Next
<1> DEFINE pairs == [op |-> "Pairs"]
           ask == [entered |-> FALSE, command |-> {pairs}, approved |-> FALSE]
<1>1. /\ pc = "Closed" /\ setup.surface = "shell" /\ client' = KeptClient.client
      /\ asks' = <<ask>> /\ told' = <<Open>> /\ pc' = "Ready"
      /\ UNCHANGED <<setup, watching, input, network, answers, effects>>
  BY DEF OpenShell
<1>2. asks = <<>> /\ told = <<>>
  <2>1. asks = <<>>
    BY <1>1 DEF DInv, NothingAskedYet
  <2> QED BY <2>1 DEF TInv, ToldTyped
<1>3. Append(<<>>, ask) = <<ask>> /\ Append(<<>>, Open) = <<Open>>
  OBVIOUS
<1>4. asks' = Append(asks, ask) /\ told' = Append(told, Open)
  BY <1>1, <1>2, <1>3
<1>5. pairs.op = "Pairs" /\ ask.command = {pairs}
  OBVIOUS
<1>6. Sound(ask.command) /\ Reads(ask.command)
  <2>1. pairs.op \notin Placements \union LibraryOps /\ pairs.op \in Ops
        /\ pairs.op \notin TradingOps \union LibraryOps
    BY DEF Placements, LibraryOps, Ops, MarketOps, TradingOps
  <2>2. ~is_real_trading(pairs)
    BY <2>1, RealTrading
  <2> QED BY <1>5, <2>1, <2>2, Nameless DEF Reads
<1>7. MadeFor(KeptClient, Chosen)
  BY KeptFor DEF TInv, IInv
<1>8. IsOption(client') /\ \A c \in client' : c.environment = Chosen
  BY <1>1, <1>7 DEF MadeFor
<1> HIDE DEF ask, pairs
<1>9. DInv'
  BY <1>1, <1>2, <1>4, <1>6, <1>8, AskKept
<1>10. Desk!Ask
  BY <1>1, <1>4, FirstVerdicts, DeskTakesAsk
<1> QED BY <1>9, <1>10 DEF Desk!Next

(* The user's answer to a prompt.                                          *)
LEMMA ConfirmAtDesk ==
  ASSUME TInv, TInv', DInv, NEW yes \in BOOLEAN, Confirm(yes)
  PROVE  DInv' /\ (Desk!Next \/ UNCHANGED Desk!vars)
<1>0. PICK n : n = Current
  OBVIOUS
<1>1. /\ pc = "Confirming" /\ Busy /\ pc' = IF yes THEN "Ready" ELSE "Idle"
      /\ asks' = [asks EXCEPT ![n].approved = yes]
      /\ told' = [told EXCEPT ![n] = IF yes THEN Open ELSE Error("Cancelled")]
      /\ UNCHANGED <<setup, client, watching, input, network, answers, effects>>
  BY <1>0 DEF Confirm, Busy
<1>2. asks \in Seq(Asks) /\ told \in Seq(Outcomes) /\ Len(told) = Len(asks)
      /\ n \in DOMAIN told /\ n \in DOMAIN asks
  BY <1>0, <1>1, BusyHasAsk DEF TInv, IInv, Current
<1>3. told[n] = Open /\ setup.surface = "shell" /\ ~asks[n].approved
  BY <1>0, <1>1 DEF TInv, BusyOpen, DInv, Approvals
<1>4. /\ DOMAIN asks' = DOMAIN asks /\ Len(asks') = Len(asks)
      /\ \A i \in DOMAIN asks : i # n => asks'[i] = asks[i]
  BY <1>1, <1>2
<1>5. asks'[n].command = asks[n].command /\ asks'[n].approved = yes /\ asks'[n].entered = asks[n].entered
  <2> DEFINE old == asks[n]
             new == [old EXCEPT !.approved = yes]
  <2>1. asks'[n] = new /\ old \in Asks
    BY <1>1, <1>2
  <2> HIDE DEF old
  <2>2. new.command = old.command /\ new.approved = yes /\ new.entered = old.entered
    BY <2>1 DEF Asks
  <2> QED BY <2>1, <2>2 DEF old
<1>6. Current' = n
  BY <1>0, <1>4 DEF Current
<1>7. ~Happened(n) /\ NoneMutates(n)
  BY <1>0, <1>1 DEF DInv, NotYetSent
<1>8. Chosen' = Chosen
  BY <1>1 DEF Chosen
<1>9. \A i \in DOMAIN asks : /\ asks'[i].command = asks[i].command /\ asks'[i].entered = asks[i].entered
                             /\ i # n => asks'[i].approved = asks[i].approved
  BY <1>4, <1>5
<1>10. \A i \in DOMAIN asks : /\ Wished(i)' = Wished(i) /\ Named(i)' = Named(i)
                              /\ \A name : NamedFor(i, name)' <=> NamedFor(i, name)
  <2>1. ASSUME NEW i \in DOMAIN asks
        PROVE  Wished(i)' = Wished(i) /\ Named(i)' = Named(i)
    BY <1>8, <1>9 DEF Wished, Named, Asked
  <2> QED BY <2>1 DEF NamedFor
<1>11. \A i : (Happened(i)' <=> Happened(i)) /\ (NoneMutates(i)' <=> NoneMutates(i))
  BY <1>1 DEF Happened, NoneMutates, Mutates
<1>12. AsksSound' /\ AsksBounded'
  BY <1>4, <1>9 DEF DInv, AsksSound, AsksBounded
<1>13. Approvals'
  BY <1>1, <1>3, <1>5, <1>6 DEF Approvals
<1>14. WatchedReads' /\ ClientChosen'
  BY <1>0, <1>1, <1>5, <1>6, <1>8 DEF DInv, WatchedReads, ClientChosen, Busy
<1>15. RequestsHonest' /\ OneRequestEach'
  <2>1. ASSUME NEW m \in network, Mutates(m), Honest(m) PROVE Honest(m)'
    <3>1. m.ask \in DOMAIN asks /\ m.ask # n
      BY <1>7, <2>1 DEF NoneMutates, TInv, IInv, SentForAsks
    <3>2. told'[m.ask] = told[m.ask]
      BY <1>1, <1>2, <3>1
    <3> QED BY <1>4, <1>8, <1>10, <1>11, <2>1, <3>1, <3>2 DEF Honest
  <2> QED BY <1>1, <2>1 DEF DInv, RequestsHonest, OneRequestEach, Mutates
<1>16. NotYetSent'
  BY <1>6, <1>7, <1>11 DEF NotYetSent
<1>17. EffectsHonest'
  BY <1>1, <1>4, <1>10 DEF DInv, EffectsHonest
<1>18. AnswersHonest' /\ NothingAskedYet'
  BY <1>1 DEF TInv, AnswersTyped, Waiting, AnswersHonest, NothingAskedYet
<1>19. DInv'
  BY <1>12, <1>13, <1>14, <1>15, <1>16, <1>17, <1>18 DEF DInv
<1>20. Desk!Next \/ UNCHANGED Desk!vars
  <2>1. CASE yes = TRUE
    <3>1. told' = told
      BY <1>1, <1>2, <1>3, <2>1
    <3>2. asks' = [asks EXCEPT ![Current].approved = TRUE]
      BY <1>0, <1>1, <2>1, Zenon
    <3> QED BY <1>1, <3>1, <3>2, DeskApproves
  <2>2. CASE yes = FALSE
    <3>1. asks' = asks
      <4>1. asks[n] \in Asks /\ asks[n].approved = FALSE
        <5>1. asks[n] \in Asks
          BY <1>2
        <5>2. asks[n].approved \in BOOLEAN
          BY <5>1 DEF Asks
        <5> QED BY <1>3, <5>1, <5>2, Zenon
      <4>2. asks'[n] = asks[n]
        <5> DEFINE old == asks[n]
        <5>1. asks'[n] = [old EXCEPT !.approved = yes]
          BY <1>1, <1>2
        <5>2. old \in Asks /\ old.approved = yes
          BY <2>2, <4>1, Zenon
        <5> HIDE DEF old
        <5>3. [old EXCEPT !.approved = yes] = old
          BY <5>2 DEF Asks
        <5> QED BY <5>1, <5>3 DEF old
      <4> QED BY <1>1, <1>2, <1>4, <4>2
    <3> DEFINE outcome == Error("Cancelled")
    <3>2. Verdict(outcome) = "NotDone"
      BY Verdicts DEF SurfaceVariants
    <3>3. told' = [told EXCEPT ![Current] = outcome]
      BY <1>0, <1>1, <2>2
    <3> HIDE DEF outcome
    <3>4. Rightly(Current, outcome)
      BY <1>0, <1>7, <3>2 DEF Rightly
    <3> QED BY <1>1, <3>1, <3>3, <3>4, DeskTells
  <2> QED BY <2>1, <2>2
<1> QED BY <1>19, <1>20

-----------------------------------------------------------------------------
LEMMA DeskInvariantStarts ==
  Init => DInv
<1> SUFFICES ASSUME Init PROVE DInv
  OBVIOUS
<1>1. asks = <<>> /\ told = <<>> /\ network = {} /\ answers = {} /\ effects = {} /\ client = {}
      /\ pc \in {"Idle", "Closed"}
  BY DEF Init
<1>2. AsksSound /\ AsksBounded
  BY <1>1, CommandPathAssumption DEF AsksSound, AsksBounded
<1>3. Approvals /\ WatchedReads /\ ClientChosen
  BY <1>1 DEF Approvals, WatchedReads, ClientChosen, IsOption, Busy
<1>4. RequestsHonest /\ OneRequestEach /\ NotYetSent /\ EffectsHonest /\ AnswersHonest /\ NothingAskedYet
  BY <1>1 DEF RequestsHonest, OneRequestEach, NotYetSent, EffectsHonest, AnswersHonest, NothingAskedYet
<1> QED BY <1>2, <1>3, <1>4 DEF DInv

LEMMA StepsAtDesk ==
  ASSUME TInv, TInv', DInv, [Next]_vars
  PROVE  DInv' /\ (Desk!Next \/ UNCHANGED Desk!vars)
<1>1. CASE User
  BY <1>1, OneShotAtDesk, ShellLineAtDesk, ToolCallAtDesk, LibraryCallAtDesk, ConfirmAtDesk DEF User
<1>2. CASE Process
  BY <1>2, QuietAtDesk, OpenShellAtDesk, ExecuteFailsAtDesk, SendAtDesk, ReceiveAtDesk, LossAtDesk,
     EnterPressedAtDesk DEF Process
<1>3. CASE Exchange
  BY <1>3, ExchangeAtDesk
<1>4. CASE UNCHANGED vars
  <2>1. UNCHANGED <<setup, client, pc, watching, asks, told, network, answers, effects>>
    BY <1>4 DEF vars
  <2>2. Current' = Current /\ Chosen' = Chosen
    BY <2>1, AsksStay DEF Current
  <2>3. AsksSound' /\ AsksBounded' /\ RequestsHonest' /\ OneRequestEach' /\ EffectsHonest'
    BY <2>1, Unheard
  <2>4. \A n : (Happened(n)' <=> Happened(n)) /\ (Done(n)' <=> Done(n)) /\ (NoneMutates(n)' <=> NoneMutates(n))
    BY <2>1, AsksStay DEF Done, Happened, NoneMutates, Mutates
  <2>5. Approvals' /\ WatchedReads' /\ ClientChosen' /\ NotYetSent' /\ AnswersHonest' /\ NothingAskedYet'
    BY <2>1, <2>2, <2>4 DEF DInv, Approvals, WatchedReads, ClientChosen, NotYetSent, AnswersHonest,
                            NothingAskedYet, Busy
  <2> QED BY <2>1, <2>3, <2>5, DeskStutters DEF DInv
<1> QED BY <1>1, <1>2, <1>3, <1>4 DEF Next

(* Every surface keeps the desk's promise, over a network that may lose,   *)
(* delay or fail to answer any request, and with the user asking again     *)
(* whenever she likes: what happens to the account is the order, in the    *)
(* environment, that was asked for and approved, once per client order id, *)
(* and who was told that nothing happened, or that it did, was told so     *)
(* rightly and for good.                                                   *)
THEOREM KeepsTheDesksPromise == Spec => ImplementsDesk
<1>1. Init => TInv /\ DInv
  BY TypesStart, DeskInvariantStarts
<1>2. TInv /\ DInv /\ [Next]_vars => TInv' /\ DInv' /\ [Desk!Next]_Desk!vars
  BY TypesKept, StepsAtDesk
<1>3. Init => Desk!Init
  BY DeskStarts
<1> QED BY <1>1, <1>2, <1>3, PTL DEF Spec, ImplementsDesk, Desk!Spec
=============================================================================
