----------------------------- MODULE OrderDesk ------------------------------
(***************************************************************************)
(* What a user may rely on who trades through any surface of revolutx,     *)
(* whatever the network does: what happens to the account is what was      *)
(* asked and approved, at most once per ask and once per client order id,  *)
(* and what the user is told of it is true.  CommandPath implements this.  *)
(***************************************************************************)
EXTENDS Naturals, Sequences

CONSTANT Names   \* client order ids, given or drawn; {} for what has none

VARIABLES
  asked,   \* per ask: the wish (an Option: reads wish for nothing), the client
           \* order id it names (an Option), and whether it is approved
  told,    \* per ask: "Open", or what the user was told
  done     \* what happened at the exchange

vars == <<asked, told, done>>

Init == asked = <<>> /\ told = <<>> /\ done = {}

(* Some asks are refused at once. *)
Ask ==
  /\ Len(asked') = Len(asked) + 1
  /\ SubSeq(asked', 1, Len(asked)) = asked
  /\ \E verdict \in {"Open", "NotDone"} : told' = Append(told, verdict)
  /\ UNCHANGED done

(* The user confirms the ask. *)
Approve(n) ==
  /\ told[n] = "Open"
  /\ asked' = [asked EXCEPT ![n].approved = TRUE]
  /\ UNCHANGED <<told, done>>

(* It happens, at once, later, or after the user gave up waiting. *)
Take(n, name) ==
  /\ asked[n].approved
  /\ told[n] \in {"Open", "Unknown"}
  /\ asked[n].name = {} \/ asked[n].name = name
  /\ \A effect \in done : effect.ask # n /\ (name = {} \/ effect.name # name)
  /\ \E wish \in asked[n].wish : done' = done \union {[ask |-> n, name |-> name, act |-> wish]}
  /\ UNCHANGED <<asked, told>>

Tell(n) ==
  /\ told[n] = "Open"
  /\ \/ /\ \/ asked[n].wish = {}
           \/ \E effect \in done : effect.ask = n \/ (asked[n].name # {} /\ effect.name = asked[n].name)
        /\ told' = [told EXCEPT ![n] = "Done"]
     \/ /\ \A effect \in done : effect.ask # n
        /\ told' = [told EXCEPT ![n] = "NotDone"]
     \/ told' = [told EXCEPT ![n] = "Unknown"]
  /\ UNCHANGED <<asked, done>>

Next ==
  \/ Ask
  \/ \E n \in DOMAIN asked : Approve(n) \/ Tell(n) \/ \E name \in Names : Take(n, name)

Spec == Init /\ [][Next]_vars
=============================================================================
