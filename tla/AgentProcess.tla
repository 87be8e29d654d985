---------------------------- MODULE AgentProcess ----------------------------
(***************************************************************************)
(* The agent as an operating system process: `revolutx agent start` of     *)
(* cli/src/agent.rs, its watchdog and console threads, and bind of         *)
(* src/agent.rs, for several starts on one socket path.  What happens on   *)
(* the connections while it serves is AgentServer; here only whether a     *)
(* client is authorized (`active`) shows.                                  *)
(*                                                                         *)
(* The socket path holds a file of the start that bound it, or nothing.    *)
(* A process that was killed leaves its file behind, with nobody listening.*)
(* Steps of one process with no await between them are still separate      *)
(* actions, because other processes share the file system.                 *)
(*                                                                         *)
(* A definition marked "Fault" is a plausible slip in the definition that  *)
(* follows it, kept to confirm that the properties notice it.              *)
(***************************************************************************)
EXTENDS Integers, FiniteSets

CONSTANTS
  Starts,        \* the times `agent start` is run, each a process
  Overlap,       \* {FALSE}, {TRUE} or both: what `overlap` may be
  Alarms,        \* whether a debugger may attach or the clock stand still
  IdleTimeout    \* --idle-timeout in seconds, 0 for none

ASSUME ProcessAssumption ==
  /\ Overlap \subseteq BOOLEAN
  /\ Alarms \in BOOLEAN
  /\ IdleTimeout \in Nat

VARIABLES
  overlap,        \* `agent start` may be run while another is under way
  file,           \* the start whose socket file is at the path, if any
  dir_safe,       \* ensure_parent_dir finds nothing wrong with its directory
  pc,             \* where each process is
  outcome,        \* what server.run, or the branch that won, gave
  console,        \* "Off", "Reading" or, after quit or Ctrl-C, "Quit"
  shutdown,       \* the permit of AgentServer's Notify (console: quit)
  idle_shutdown,  \* the permit of the watchdog's Notify
  watchdog,       \* "Off", "Watching", "Locked" or "HardExit"
  idle_since,     \* seconds since the watchdog first saw nobody, NotIdle if it has not
  active,         \* a client is authorized (control.active_count() > 0)
  quiet           \* history variable: ticks in a row that found nobody,
                  \* counted up to two more than the timeout

threads == <<console, shutdown, idle_shutdown, watchdog, idle_since, active, quiet>>
world   == <<overlap, dir_safe>>
vars    == <<file, world, pc, outcome, threads>>

NotIdle == -1

Running  == {"Starting", "Probe", "Unlink", "Binding", "Serving"}
Alive    == Running \union {"Unlocking", "Stopping"}
Over     == {"NeverStarted", "Exited", "HardExited", "Killed"}
Nobody   == {}

Init ==
  /\ file = Nobody
  /\ overlap \in Overlap
  /\ dir_safe \in BOOLEAN
  /\ pc = [p \in Starts |-> "Off"]
  /\ outcome = [p \in Starts |-> "None"]
  /\ console = [p \in Starts |-> "Off"]
  /\ shutdown = [p \in Starts |-> FALSE]
  /\ idle_shutdown = [p \in Starts |-> FALSE]
  /\ watchdog = [p \in Starts |-> "Off"]
  /\ idle_since = [p \in Starts |-> NotIdle]
  /\ active = [p \in Starts |-> FALSE]
  /\ quiet = [p \in Starts |-> 0]

GoTo(p, label) == pc' = [pc EXCEPT ![p] = label]

-----------------------------------------------------------------------------
(* start, up to the runtime.                                               *)

Start(p) ==
  /\ pc[p] = "Off"
  /\ overlap \/ \A q \in Starts : pc[q] \notin Alive
  /\ GoTo(p, "Unlocking")
  /\ UNCHANGED <<file, world, outcome, threads>>

(* The vault is unlocked; the watchdog and console threads are spawned     *)
(* before the runtime first polls server.run.                              *)
Unlock(p) ==
  /\ pc[p] = "Unlocking"
  /\ GoTo(p, "Starting")
  /\ watchdog' = [watchdog EXCEPT ![p] = "Watching"]
  /\ console' = [console EXCEPT ![p] = "Reading"]
  /\ UNCHANGED <<file, world, outcome,
                 shutdown, idle_shutdown, idle_since, active, quiet>>

(* `?` before anything was bound: the socket path is not touched. *)
UnlockFails(p) ==
  /\ pc[p] = "Unlocking"
  /\ GoTo(p, "NeverStarted")
  /\ UNCHANGED <<file, world, outcome, threads>>

-----------------------------------------------------------------------------
(* bind.                                                                   *)

(* block_on returns: result is what `what` says, the listener is dropped.  *)
End(p, what) ==
  /\ GoTo(p, "Stopping")
  /\ outcome' = [outcome EXCEPT ![p] = what]
  /\ UNCHANGED <<file, world, threads>>

DirectoryRefused(p) == pc[p] = "Starting" /\ ~dir_safe /\ End(p, "Error")

CheckExists(p) ==
  /\ pc[p] = "Starting"
  /\ dir_safe
  /\ GoTo(p, IF file = Nobody THEN "Binding" ELSE "Probe")
  /\ UNCHANGED <<file, world, outcome, threads>>

(* A connection to the path succeeds: somebody listens behind the file. *)
SomebodyListens == \E q \in file : pc[q] = "Serving"

AlreadyListening(p) == pc[p] = "Probe" /\ SomebodyListens /\ End(p, "Error")

(* Fault: a file whose agent is gone is taken for an agent. *)
TakenForLive(p) == UNCHANGED file /\ GoTo(p, "Binding")

ReplaceStale(p) == file' = Nobody /\ GoTo(p, "Binding")

ProbeFails(p) ==
  /\ pc[p] = "Probe"
  /\ ~SomebodyListens
  /\ GoTo(p, "Unlink")
  /\ UNCHANGED <<file, world, outcome, threads>>

RemoveStale(p) ==
  /\ pc[p] = "Unlink"
  /\ file # Nobody
  /\ ReplaceStale(p)
  /\ UNCHANGED <<world, outcome, threads>>

StaleIsGone(p) == pc[p] = "Unlink" /\ file = Nobody /\ End(p, "Error")

Bind(p) ==
  /\ pc[p] = "Binding"
  /\ file = Nobody
  /\ file' = {p}
  /\ GoTo(p, "Serving")
  /\ UNCHANGED <<world, outcome, threads>>

AddressInUse(p) == pc[p] = "Binding" /\ file # Nobody /\ End(p, "Error")

-----------------------------------------------------------------------------
(* The select! of start, and what follows it.                              *)

(* server.run's own select! takes the shutdown permit. *)
ServerStops(p) == pc[p] = "Serving" /\ shutdown[p] /\ End(p, "Stopped")

(* The idle branch, at any await of server.run or before its first poll. *)
IdleStops(p) ==
  pc[p] \in {"Starting", "Probe", "Serving"} /\ idle_shutdown[p] /\ End(p, "Stopped")

CtrlC(p) == pc[p] \in {"Probe", "Serving"} /\ End(p, "Stopped")

(* Best-effort cleanup, whatever the outcome. *)
RemoveFile(p) == file' = Nobody

Cleanup(p) ==
  /\ pc[p] = "Stopping"
  /\ RemoveFile(p)
  /\ GoTo(p, "Exited")
  /\ UNCHANGED <<world, outcome, threads>>

Killed(p) ==
  /\ pc[p] \in Alive
  /\ GoTo(p, "Killed")
  /\ UNCHANGED <<file, world, outcome, threads>>

-----------------------------------------------------------------------------
(* The console thread and the clients.                                     *)

(* Fault: only a server already waiting is told (notify_waiters). *)
TellWaiters(p) == shutdown' = [shutdown EXCEPT ![p] = pc[p] = "Serving"]

StorePermit(p) == shutdown' = [shutdown EXCEPT ![p] = TRUE]

(* quit, exit or Ctrl-C at the console: the thread ends. *)
Quit(p) ==
  /\ pc[p] \in Running
  /\ console[p] = "Reading"
  /\ console' = [console EXCEPT ![p] = "Quit"]
  /\ StorePermit(p)
  /\ UNCHANGED <<file, world, pc, outcome,
                 idle_shutdown, watchdog, idle_since, active, quiet>>

(* A client is authorized, or the last one denied or gone. *)
ClientsChange(p) ==
  /\ pc[p] = "Serving"
  /\ active' = [active EXCEPT ![p] = ~@]
  /\ UNCHANGED <<file, world, pc, outcome,
                 console, shutdown, idle_shutdown, watchdog, idle_since, quiet>>

-----------------------------------------------------------------------------
(* watchdog_loop: one tick a second.                                       *)

(* Fault: the idle clock restarts at every tick. *)
SinceThisTick(p) == 0

(* Seconds since the first tick that found nobody (get_or_insert). *)
SinceFirst(p) == IF idle_since[p] = NotIdle THEN 0 ELSE idle_since[p] + 1

(* Fault: a client does not stop the idle clock. *)
KeepCounting(p) == idle_since[p]

Cleared(p) == NotIdle

(* Fault: a tick past the timeout. *)
PastTimeout(idle) == idle > IdleTimeout

TimedOut(idle) == idle >= IdleTimeout

Tick(p) ==
  LET idle == IF active[p] THEN Cleared(p) ELSE SinceFirst(p)
      lock == ~active[p] /\ TimedOut(idle)
  IN /\ watchdog[p] = "Watching"
     /\ pc[p] \in Alive
     /\ IdleTimeout > 0
     /\ idle_since' = [idle_since EXCEPT ![p] = idle]
     /\ quiet' = [quiet EXCEPT ![p] = IF active[p] THEN 0
                                          ELSE IF @ > IdleTimeout + 1 THEN @ ELSE @ + 1]
     /\ idle_shutdown' = [idle_shutdown EXCEPT ![p] = lock]
     /\ watchdog' = [watchdog EXCEPT ![p] = IF lock THEN "Locked" ELSE @]
     /\ UNCHANGED <<file, world, pc, outcome, console, shutdown, active>>

(* A debugger or a clock anomaly: exit() removes the socket ... *)
Alarm(p) ==
  /\ Alarms
  /\ watchdog[p] = "Watching"
  /\ pc[p] \in Alive
  /\ file' = Nobody
  /\ watchdog' = [watchdog EXCEPT ![p] = "HardExit"]
  /\ UNCHANGED <<world, pc, outcome,
                 console, shutdown, idle_shutdown, idle_since, active, quiet>>

(* ... and ends the process. *)
HardExit(p) ==
  /\ watchdog[p] = "HardExit"
  /\ pc[p] \in Alive
  /\ GoTo(p, "HardExited")
  /\ UNCHANGED <<file, world, outcome, threads>>

-----------------------------------------------------------------------------
Binding(p) ==
  \/ DirectoryRefused(p) \/ CheckExists(p)
  \/ AlreadyListening(p) \/ ProbeFails(p)
  \/ RemoveStale(p) \/ StaleIsGone(p)
  \/ Bind(p) \/ AddressInUse(p)

Next ==
  \E p \in Starts :
    \/ Start(p) \/ Unlock(p) \/ UnlockFails(p)
    \/ Binding(p)
    \/ ServerStops(p) \/ IdleStops(p) \/ CtrlC(p) \/ Cleanup(p) \/ Killed(p)
    \/ Quit(p) \/ ClientsChange(p)
    \/ Tick(p) \/ Alarm(p) \/ HardExit(p)

Spec == Init /\ [][Next]_vars

(* The process runs and its clock ticks; nothing is assumed of whoever     *)
(* starts, unlocks, uses, quits or kills it.                               *)
FairSpec ==
  /\ Spec
  /\ \A p \in Starts :
       /\ WF_vars(Binding(p))
       /\ WF_vars(ServerStops(p))
       /\ WF_vars(IdleStops(p))
       /\ WF_vars(Cleanup(p))
       /\ WF_vars(Tick(p))
       /\ WF_vars(HardExit(p))

-----------------------------------------------------------------------------
(* Type invariant; the watchdog's idle clock never runs past the timeout.  *)
TypeOK ==
  /\ file \in {Nobody} \union {{p} : p \in Starts}
  /\ overlap \in BOOLEAN /\ dir_safe \in BOOLEAN
  /\ pc \in [Starts -> {"Off"} \union Alive \union Over]
  /\ outcome \in [Starts -> {"None", "Stopped", "Error"}]
  /\ console \in [Starts -> {"Off", "Reading", "Quit"}]
  /\ shutdown \in [Starts -> BOOLEAN]
  /\ idle_shutdown \in [Starts -> BOOLEAN]
  /\ active \in [Starts -> BOOLEAN]
  /\ watchdog \in [Starts -> {"Off", "Watching", "Locked", "HardExit"}]
  /\ idle_since \in [Starts -> NotIdle..IdleTimeout]
  /\ quiet \in [Starts -> Nat]

(* An agent can always be started again after one that ended in any way,   *)
(* crashes included: when starts do not overlap, none fails to bind, but   *)
(* for one that is being ended by its own watchdog.                        *)
RestartsSucceed ==
  ~overlap /\ dir_safe =>
    \A p \in Starts : outcome[p] = "Error" => watchdog[p] = "HardExit"

(* The idle auto-lock fires only after a whole timeout in which no tick    *)
(* found an authorized client.                                             *)
LocksOnlyWhenQuiet ==
  \A p \in Starts : idle_shutdown[p] => quiet[p] > IdleTimeout

(* An agent nobody is authorized on locks itself, from the moment its      *)
(* threads are up, unless a client is authorized again first.              *)
IdleAgentLocks ==
  \A p \in Starts :
    (pc[p] \in Running /\ ~active[p]) ~> (active[p] \/ pc[p] \in Over)

(* A quit is never lost, even one typed before the server first waits for  *)
(* it: the agent ends.                                                     *)
QuitIsHonoured ==
  \A p \in Starts : console[p] = "Quit" ~> pc[p] \in Over

(* bind "refusing to clobber a live agent": while an agent serves, the     *)
(* socket file its clients reach it by stays in place.                     *)
LiveSocketKept ==
  [][\A p \in file : pc[p] = "Serving" /\ pc'[p] = "Serving" => p \in file']_vars
=============================================================================
