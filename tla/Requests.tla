------------------------------ MODULE Requests ------------------------------
(***************************************************************************)
(* A request from the SDK's endpoint layer to the wire and its answer back *)
(* to a result: src/transport.rs, src/auth.rs, the sending half of         *)
(* src/client.rs and src/error.rs.  Operators only; CommandPath has the    *)
(* state.                                                                  *)
(*                                                                         *)
(* A text is a sequence of atoms: a run of characters nothing here takes   *)
(* apart ("BTC", "orders") is one atom, each character that something      *)
(* looks for ("/", ".", " ", ...) is one of its own.                       *)
(***************************************************************************)
EXTENDS Access, Sequences, SequencesExt

(* What encode_component escapes, and how; every other atom is unreserved. *)
Reserved == {"/", " ", "%", "?", "=", "+"}

Escaped(atom) ==
  CASE atom = "/" -> "%2F" [] atom = " " -> "%20" [] atom = "%" -> "%25"
    [] atom = "?" -> "%3F" [] atom = "=" -> "%3D" [] atom = "+" -> "%2B"

(* trim().is_empty(). *)
Blank(text) == Range(text) \subseteq {" "}

(* unwrap_or. *)
OrElse(option, default) == IF option = None THEN default ELSE CHOOSE x \in option : TRUE

encode_component(text) ==
  [i \in DOMAIN text |-> IF text[i] \in Reserved THEN Escaped(text[i]) ELSE text[i]]

-----------------------------------------------------------------------------
(* RequestSpec.  Parameters of a query are pairs of a key and a text; a    *)
(* body is what it says, the bytes of its JSON being left out.             *)

Request(method, path, body) ==
  [method |-> method, path |-> path, query |-> <<>>, body |-> body, requires_auth |-> TRUE]

get(path)             == Request("GET", path, None)
delete(path)          == Request("DELETE", path, None)
post_json(path, body) == Request("POST", path, Some(body))
put_json(path, body)  == Request("PUT", path, Some(body))

with_query(spec, query) == [spec EXCEPT !.query = query]
public(spec)            == [spec EXCEPT !.requires_auth = FALSE]

(* "/orders/{id}" and the like: a literal path, and a parameter after it. *)
PathTo(place, parameter) == place \o <<"/">> \o encode_component(parameter)

build_query(pairs) ==
  [i \in DOMAIN pairs |-> <<pairs[i][1], encode_component(pairs[i][2])>>]

-----------------------------------------------------------------------------
(* How a Url holds a path: "." and ".." segments are resolved, a space is  *)
(* escaped, and what is escaped already stays as it is.  The places are    *)
(* literal, so only the last segment of a path can be made of dots.        *)

LastSlash(path) == CHOOSE i \in DOMAIN path : path[i] = "/" /\ \A j \in DOMAIN path : path[j] = "/" => j <= i

Directory(path) == SubSeq(path, 1, LastSlash(path))

LastSegment(path) == SubSeq(path, LastSlash(path) + 1, Len(path))

Resolved(path) ==
  CASE LastSegment(path) = <<".">>      -> Directory(path)
    [] LastSegment(path) = <<".", ".">> -> Directory(Front(Directory(path)))
    [] OTHER                            -> path

UrlText(text) == [i \in DOMAIN text |-> IF text[i] = " " THEN Escaped(" ") ELSE text[i]]

UrlPath(path) == UrlText(Resolved(path))

UrlQuery(query) == [i \in DOMAIN query |-> <<query[i][1], UrlText(query[i][2])>>]

(* Fault: the path is sent in whatever form the Url gives it. *)
AnyPath(path) == TRUE

(* The Url leaves the encoded path alone. *)
UrlSafe(path) == UrlPath(path) = path

-----------------------------------------------------------------------------
(* auth.rs.  Signing is ideal: a signature is the key and the message it   *)
(* covers.  The timestamp, taken as the request is sent, is left out.      *)

signing_message(method, path, query, body) ==
  [method |-> method, path |-> path, query |-> query, body |-> body]

authenticate(key, message) == [key |-> key, message |-> message]

-----------------------------------------------------------------------------
(* Error, as far as its callers can tell errors apart. *)

ApiErrorKind ==
  {"BadRequest", "Unauthorized", "Forbidden", "NotFound", "Conflict", "RateLimited",
   "Server", "Other"}

Error(variant) == [variant |-> variant, kind |-> "None"]

ApiError(kind) == [variant |-> "Api", kind |-> kind]

(* Errors made before a request leaves the process. *)
LocalVariants ==
  {"Configuration", "MissingCredentials", "MissingPrivateKey", "MissingApiKey", "KeyFile",
   "Key", "Signing", "InvalidRequest"}

(* Errors after which nobody here knows what became of the request. *)
RemoteVariants == {"Transport", "Deserialize", "Unexpected", "Agent", "AgentUnusable"}

Errors ==
  {Error(v) : v \in LocalVariants \union RemoteVariants} \union {ApiError(k) : k \in ApiErrorKind}

from_status(status) ==
  CASE status = 400 -> "BadRequest"
    [] status = 401 -> "Unauthorized"
    [] status = 403 -> "Forbidden"
    [] status = 404 -> "NotFound"
    [] status = 409 -> "Conflict"
    [] status = 429 -> "RateLimited"
    [] status \in 500..599 -> "Server"
    [] OTHER -> "Other"

(* Any recognised status makes a structured error, whatever its body: the  *)
(* caller's back-off must work even when the body is not the documented    *)
(* payload.                                                                *)
classify_error_response(status, structured) ==
  IF structured \/ from_status(status) # "Other" THEN ApiError(from_status(status))
  ELSE Error("Unexpected")

is_rate_limited(error)        == error = ApiError("RateLimited")
is_connection_unusable(error) == error.variant = "AgentUnusable"
is_auth_error(error) ==
  error \in {Error("MissingCredentials"), ApiError("Unauthorized"), ApiError("Forbidden")}

-----------------------------------------------------------------------------
(* LocalExecutor::send: what is refused before anything is signed, and the *)
(* request on the wire.  The base URL's path is a prefix of every path and *)
(* left out.                                                               *)

SendError(spec, signer) ==
  IF ~UrlSafe(spec.path) \/ UrlQuery(build_query(spec.query)) # build_query(spec.query)
  THEN Some(Error("InvalidRequest"))
  ELSE IF spec.requires_auth /\ signer = None THEN Some(Error("MissingCredentials"))
  ELSE None

(* Fault: the message is put together from the parameters as they came. *)
RawMessage(spec) == signing_message(spec.method, spec.path, spec.query, spec.body)

MessageOf(spec) == signing_message(spec.method, spec.path, build_query(spec.query), spec.body)

Wire(spec, signer) ==
  [method    |-> spec.method,
   path      |-> UrlPath(spec.path),
   query     |-> UrlQuery(build_query(spec.query)),
   body      |-> spec.body,
   signature |-> IF spec.requires_auth
                 THEN {authenticate(key, MessageOf(spec)) : key \in signer} ELSE None]

(* What a signature on the wire has to cover for the exchange to take it. *)
Covered(wire) == signing_message(wire.method, wire.path, wire.query, wire.body)

-----------------------------------------------------------------------------
(* The tier of a request by its method and path, for required_access_for   *)
(* of Access: which of its public places a path lies in, "" if none.       *)
Place(path) ==
  CASE path = <<"/", "tickers">> -> "tickers"
    [] Len(path) > 2 /\ path[2] \in PublicPaths \ {"tickers", "trades/all"}
                     /\ path[3] = "/" -> path[2]
    [] Len(path) > 4 /\ SubSeq(path, 2, 5) = <<"trades", "/", "all", "/">> -> "trades/all"
    [] OTHER -> ""

TierOf(request) == required_access_for(request.method, Place(request.path))

-----------------------------------------------------------------------------
(* send_json and send_no_content: the result of a call from the response's *)
(* status and how its body reads.                                          *)

Bodies == {"AsExpected", "NoData", "Unreadable", "Structured"}

Ok == [variant |-> "Ok", kind |-> "None"]

send_json(status, body) ==
  IF status \notin 200..299 THEN classify_error_response(status, body = "Structured")
  ELSE IF body = "AsExpected" THEN Ok
  ELSE IF body = "NoData" THEN Error("Unexpected")        \* RawAck::into_ack
  ELSE Error("Deserialize")

send_no_content(status, body) ==
  IF status \in 200..299 THEN Ok ELSE classify_error_response(status, body = "Structured")
=============================================================================
