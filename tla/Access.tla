------------------------------- MODULE Access -------------------------------
(***************************************************************************)
(* The capability ladder of src/access.rs: the tiers, their order, and the *)
(* classification of an HTTP request that the signing agent applies to     *)
(* every request it forwards.  Pure operators, no state.                   *)
(*                                                                         *)
(* A path is named by its leading segments ("tickers", "order-book", ...): *)
(* the code tests prefixes only, so the symbol or id that follows is left  *)
(* out.                                                                    *)
(***************************************************************************)
EXTENDS Naturals

(* AccessLevel derives Ord from the order of its variants. *)
Market  == 0
View    == 1
Trading == 2

AccessLevel == {Market, View, Trading}

(* AccessLevel::permits: at least the required tier. *)
permits(level, required) == level >= required

(* Ord::min, used to cap what a client asks for at the agent's ceiling. *)
LowerOf(a, b) == IF a <= b THEN a ELSE b

(* The paths that serve public market or reference data. *)
PublicPaths ==
  {"tickers", "order-book", "public", "candles", "trades/all", "configuration"}

(***************************************************************************)
(* An allowlist that fails closed: what is not a GET is an order mutation, *)
(* and a GET outside the public paths is account data.                     *)
(***************************************************************************)
required_access_for(method, path) ==
  IF method # "GET" THEN Trading
  ELSE IF path \in PublicPaths THEN Market ELSE View

(* Option<T> as the empty set or a singleton. *)
None      == {}
Some(x)   == {x}
Option(S) == {None} \union {Some(x) : x \in S}
=============================================================================
