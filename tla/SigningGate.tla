---------------------------- MODULE SigningGate ----------------------------
(***************************************************************************)
(* What the signing agent promises, without connections' protocol, frames, *)
(* tasks or replies: a connection holds at most one authority (a tier up   *)
(* to the ceiling); a request is signed and sent upstream only if the      *)
(* authority its connection holds at that moment permits it, one at a time *)
(* per connection; authority comes from the operator, or from the one-time *)
(* token, which hands the whole ceiling to one connection and is spent.    *)
(*                                                                         *)
(* AgentServer implements this specification.                              *)
(***************************************************************************)
EXTENDS Access

CONSTANT Conns

VARIABLES
  ceiling,    \* the agent's tier
  token,      \* "None" (started without one), "Fresh" or "Consumed"
  authority,  \* [Conns -> Option(AccessLevel)]: the authority in force
  inflight    \* [Conns -> Option(AccessLevel)]: tier of the request upstream

gateVars == <<ceiling, token, authority, inflight>>

Init ==
  /\ ceiling \in AccessLevel
  /\ token \in {"None", "Fresh"}
  /\ authority = [c \in Conns |-> None]
  /\ inflight = [c \in Conns |-> None]

(* The operator gives connection c a tier, or anything takes one away. *)
Decide(c, new) ==
  /\ \A l \in new : permits(ceiling, l)
  /\ authority' = [authority EXCEPT ![c] = new]
  /\ UNCHANGED <<ceiling, token, inflight>>

(* c presents the token: it gets the ceiling, and nobody can do it again. *)
SpendToken(c) ==
  /\ token = "Fresh"
  /\ token' = "Consumed"
  /\ authority' = [authority EXCEPT ![c] = Some(ceiling)]
  /\ UNCHANGED <<ceiling, inflight>>

(* A request of c that needs `required` goes upstream. *)
Admit(c, required) ==
  /\ inflight[c] = None
  /\ \E l \in authority[c] : permits(l, required)
  /\ inflight' = [inflight EXCEPT ![c] = Some(required)]
  /\ UNCHANGED <<ceiling, token, authority>>

(* It is answered, fails, or is dropped with its session. *)
Release(c) ==
  /\ inflight[c] # None
  /\ inflight' = [inflight EXCEPT ![c] = None]
  /\ UNCHANGED <<ceiling, token, authority>>

Next ==
  \E c \in Conns :
    \/ \E new \in Option(AccessLevel) : Decide(c, new)
    \/ SpendToken(c)
    \/ \E required \in AccessLevel : Admit(c, required)
    \/ Release(c)

Spec == Init /\ [][Next]_gateVars
=============================================================================
