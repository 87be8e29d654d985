------------------------- MODULE AgentProcessProofs -------------------------
(* Theorems about AgentProcess, for every value of its constants. *)
EXTENDS AgentProcess, TLAPS

-----------------------------------------------------------------------------
(* The inductive invariants: the watchdog's clock, and starts that do not  *)
(* overlap.                                                                *)

(* While it watches, the clock is short of the timeout; it never ran       *)
(* longer than there were ticks in a row that found nobody.                *)
ClockShort ==
  /\ \A p \in Starts : idle_since[p] < IdleTimeout \/ watchdog[p] = "Locked"
  /\ \A p \in Starts : idle_since[p] < quiet[p]

(* A process has neither a watchdog nor an outcome before its vault is     *)
(* unlocked.                                                               *)
NothingYetBefore ==
  \A p \in Starts :
    pc[p] \in {"Off", "Unlocking"} => watchdog[p] = "Off" /\ outcome[p] = "None"

Clocked == TypeOK /\ ClockShort /\ NothingYetBefore /\ LocksOnlyWhenQuiet

(* One process at a time.                                                  *)
OneAlive == \A p, q \in Starts : pc[p] \in Alive /\ pc[q] \in Alive => p = q

(* What the one process found at the path is still there, or still is not, *)
(* unless its own watchdog took it away.                                   *)
PathAsFound ==
  \A p \in Starts :
    /\ pc[p] \in {"Probe", "Unlink"} => file # Nobody \/ watchdog[p] = "HardExit"
    /\ pc[p] = "Binding" => file = Nobody

Alone ==
  ~overlap => OneAlive /\ PathAsFound

IInv ==
  /\ Clocked
  /\ overlap \in Overlap
  /\ Alone /\ RestartsSucceed

-----------------------------------------------------------------------------
(* The idle clock.                                                         *)

(* The types and the clock survive every step.                             *)
LEMMA ClockStep ==
  ASSUME Clocked, [Next]_vars
  PROVE  Clocked'
<1> USE ProcessAssumption DEF Clocked, threads, world, NotIdle
<1>1. ASSUME NEW p \in Starts, Tick(p)
      PROVE  TypeOK' /\ ClockShort' /\ LocksOnlyWhenQuiet'
  <2> DEFINE idle == IF active[p] THEN -1 ELSE SinceFirst(p)
             lock == ~active[p] /\ idle >= IdleTimeout
  <2>1. /\ watchdog[p] = "Watching" /\ IdleTimeout > 0
        /\ idle_since' = [idle_since EXCEPT ![p] = idle]
        /\ quiet' = [quiet EXCEPT ![p] = IF active[p] THEN 0
                                         ELSE IF @ > IdleTimeout + 1 THEN @ ELSE @ + 1]
        /\ idle_shutdown' = [idle_shutdown EXCEPT ![p] = lock]
        /\ watchdog' = [watchdog EXCEPT ![p] = IF lock THEN "Locked" ELSE @]
    BY <1>1 DEF Tick, Cleared, TimedOut
  <2>2. /\ idle_since[p] \in Int /\ idle_since[p] >= -1
        /\ idle_since[p] < IdleTimeout /\ idle_since[p] < quiet[p]
        /\ quiet[p] \in Nat /\ active[p] \in BOOLEAN
    BY <2>1 DEF TypeOK, ClockShort
  <2>3. idle \in -1..IdleTimeout /\ (~lock => idle < IdleTimeout)
    BY <2>1, <2>2 DEF SinceFirst
  <2>4. quiet'[p] \in Nat /\ idle < quiet'[p] /\ (lock => quiet'[p] > IdleTimeout)
    BY <2>1, <2>2, <2>3 DEF SinceFirst, TypeOK
  <2>5. lock \in BOOLEAN
    OBVIOUS
  <2> HIDE DEF idle, lock
  <2>6. TypeOK'
    BY <1>1, <2>1, <2>3, <2>4, <2>5 DEF Tick, TypeOK
  <2>7. ClockShort'
    BY <2>1, <2>3, <2>4 DEF ClockShort, TypeOK
  <2>8. LocksOnlyWhenQuiet'
    BY <2>1, <2>4 DEF LocksOnlyWhenQuiet, TypeOK
  <2> QED
    BY <2>6, <2>7, <2>8
<1>2. ASSUME TypeOK', NEW p \in Starts, NEW w \in {"Watching", "HardExit"},
             watchdog' \in {watchdog, [watchdog EXCEPT ![p] = w]},
             watchdog[p] # "Locked" \/ UNCHANGED watchdog,
             UNCHANGED <<idle_since, quiet, idle_shutdown>>
      PROVE  ClockShort' /\ LocksOnlyWhenQuiet'
  BY <1>2 DEF ClockShort, LocksOnlyWhenQuiet, TypeOK
<1>3. ASSUME NEW p \in Starts, Start(p) \/ UnlockFails(p) \/ Binding(p) \/ ServerStops(p)
                                 \/ IdleStops(p) \/ CtrlC(p) \/ Cleanup(p) \/ Killed(p) \/ HardExit(p)
      PROVE  TypeOK' /\ UNCHANGED threads
  BY <1>3 DEF Start, UnlockFails, Binding, DirectoryRefused, CheckExists, AlreadyListening,
     ProbeFails, RemoveStale, ReplaceStale, StaleIsGone, Bind, AddressInUse, ServerStops,
     IdleStops, CtrlC, Cleanup, RemoveFile, Killed, HardExit, End, GoTo, TypeOK, Alive, Running, Over, Nobody
<1>4. ASSUME NEW p \in Starts, Unlock(p) \/ Quit(p) \/ ClientsChange(p) \/ Alarm(p)
      PROVE  TypeOK'
  <2>1. CASE Unlock(p)
    BY <2>1 DEF Unlock, GoTo, TypeOK, Alive, Running
  <2>2. CASE Quit(p)
    BY <2>2 DEF Quit, StorePermit, TypeOK
  <2>3. CASE ClientsChange(p)
    BY <2>3 DEF ClientsChange, TypeOK
  <2>4. CASE Alarm(p)
    BY <2>4 DEF Alarm, TypeOK
  <2> QED
    BY <1>4, <2>1, <2>2, <2>3, <2>4
<1>6. NothingYetBefore'
  BY DEF Next, Start, Unlock, UnlockFails, Binding, DirectoryRefused, CheckExists,
     AlreadyListening, ProbeFails, RemoveStale, ReplaceStale, StaleIsGone, Bind, AddressInUse,
     ServerStops, IdleStops, CtrlC, Cleanup, Killed, Quit, ClientsChange, Tick, Alarm, HardExit,
     End, GoTo, NothingYetBefore, TypeOK, Running, vars
<1>5. ASSUME NEW p \in Starts, Unlock(p) \/ Quit(p) \/ ClientsChange(p) \/ Alarm(p)
      PROVE  ClockShort' /\ LocksOnlyWhenQuiet'
  BY <1>2, <1>4, <1>5 DEF Unlock, Quit, ClientsChange, Alarm, NothingYetBefore
<1>7. ASSUME UNCHANGED threads
      PROVE  ClockShort' /\ LocksOnlyWhenQuiet'
  BY <1>7 DEF ClockShort, LocksOnlyWhenQuiet
<1>8. CASE UNCHANGED vars
  <2>1. TypeOK'
    BY <1>8 DEF vars, TypeOK
  <2> QED
    BY <1>6, <1>7, <1>8, <2>1 DEF vars
<1>9. ASSUME NEW p \in Starts,
             Start(p) \/ UnlockFails(p) \/ Binding(p) \/ ServerStops(p) \/ IdleStops(p)
               \/ CtrlC(p) \/ Cleanup(p) \/ Killed(p) \/ HardExit(p)
      PROVE  TypeOK' /\ ClockShort' /\ LocksOnlyWhenQuiet'
  BY <1>3, <1>7, <1>9
<1> HIDE DEF threads, world
<1> QED
  BY <1>1, <1>4, <1>5, <1>6, <1>8, <1>9 DEF Next

-----------------------------------------------------------------------------
(* Starts that do not overlap.                                             *)

(* The path is as the one process found it, and it fails to bind only when *)
(* its watchdog is ending it.                                              *)
LEMMA AloneStep ==
  ASSUME IInv, [Next]_vars
  PROVE  Alone' /\ RestartsSucceed'
<1> USE DEF threads, world, Nobody
<1>1. SUFFICES ASSUME ~overlap', UNCHANGED world
               PROVE  OneAlive' /\ PathAsFound' /\ (dir_safe' => RestartsSucceed')
  <2>1. UNCHANGED world
    BY DEF Next, Start, Unlock, UnlockFails, Binding, DirectoryRefused, CheckExists,
       AlreadyListening, ProbeFails, RemoveStale, StaleIsGone, Bind, AddressInUse, ServerStops,
       IdleStops, CtrlC, Cleanup, Killed, Quit, ClientsChange, Tick, Alarm, HardExit, End, vars
  <2> QED
    BY <2>1 DEF Alone, RestartsSucceed
<1>i. /\ ~overlap /\ OneAlive /\ PathAsFound /\ NothingYetBefore
      /\ dir_safe => \A p \in Starts : outcome[p] = "Error" => watchdog[p] = "HardExit"
      /\ pc \in [Starts -> {"Off"} \union Alive \union Over]
      /\ outcome \in [Starts -> {"None", "Stopped", "Error"}]
      /\ watchdog \in [Starts -> {"Off", "Watching", "Locked", "HardExit"}]
      /\ file \in {Nobody} \union {{p} : p \in Starts}
  BY <1>1 DEF IInv, Clocked, TypeOK, Alone, RestartsSucceed
\* a step of p that ends with p alive or over
<1>2. ASSUME NEW p \in Starts, \A q \in Starts : pc[q] \in Alive => q = p,
             NEW label, pc' = [pc EXCEPT ![p] = label],
             label \in {"Probe", "Unlink"} => file' # Nobody \/ watchdog'[p] = "HardExit",
             label = "Binding" => file' = Nobody
      PROVE  OneAlive' /\ PathAsFound'
  BY <1>i, <1>2 DEF OneAlive, PathAsFound, Alive, Running
<1>3. \A p \in Starts : pc[p] \in Alive => \A q \in Starts : pc[q] \in Alive => q = p
  BY <1>i DEF OneAlive
<1>4. ASSUME NEW p \in Starts, Start(p) \/ Unlock(p) \/ UnlockFails(p)
      PROVE  OneAlive' /\ PathAsFound' /\ (dir_safe' => RestartsSucceed')
  <2>1. \A q \in Starts : pc[q] \in Alive => q = p
    BY <1>3, <1>4, <1>i DEF Start, Unlock, UnlockFails, Alive
  <2>2. OneAlive' /\ PathAsFound'
    BY <1>2, <1>4, <2>1 DEF Start, Unlock, UnlockFails, GoTo
  <2>3. dir_safe' => RestartsSucceed'
    BY <1>4, <1>i DEF Start, Unlock, UnlockFails, NothingYetBefore, RestartsSucceed
  <2> QED
    BY <2>2, <2>3
<1>5. ASSUME NEW p \in Starts, CheckExists(p) \/ ProbeFails(p) \/ RemoveStale(p) \/ Bind(p)
                                 \/ Cleanup(p) \/ Killed(p) \/ HardExit(p)
      PROVE  OneAlive' /\ PathAsFound' /\ (dir_safe' => RestartsSucceed')
  <2>1. \A q \in Starts : pc[q] \in Alive => q = p
    BY <1>3, <1>5 DEF CheckExists, ProbeFails, RemoveStale, Bind, Cleanup, Killed, HardExit, Alive, Running
  <2>2. OneAlive' /\ PathAsFound'
    BY <1>2, <1>5, <1>i, <2>1 DEF CheckExists, ProbeFails, RemoveStale, ReplaceStale, Bind, Cleanup,
       Killed, HardExit, GoTo, PathAsFound
  <2>3. dir_safe' => RestartsSucceed'
    BY <1>5, <1>i DEF CheckExists, ProbeFails, RemoveStale, Bind, Cleanup, Killed, HardExit, RestartsSucceed
  <2> QED
    BY <2>2, <2>3
<1>6. ASSUME NEW p \in Starts, NEW what \in {"Stopped", "Error"}, pc[p] \in Alive, End(p, what),
             dir_safe => what = "Stopped" \/ watchdog[p] = "HardExit"
      PROVE  OneAlive' /\ PathAsFound' /\ (dir_safe' => RestartsSucceed')
  <2>1. OneAlive' /\ PathAsFound'
    BY <1>2, <1>3, <1>6 DEF End, GoTo
  <2>2. dir_safe' => RestartsSucceed'
    BY <1>6, <1>i DEF End, RestartsSucceed
  <2> QED
    BY <2>1, <2>2
<1>7. ASSUME NEW p \in Starts, DirectoryRefused(p) \/ AlreadyListening(p) \/ StaleIsGone(p) \/ AddressInUse(p)
      PROVE  OneAlive' /\ PathAsFound' /\ (dir_safe' => RestartsSucceed')
  <2>1. pc[p] \in Alive /\ End(p, "Error")
    BY <1>7 DEF DirectoryRefused, AlreadyListening, StaleIsGone, AddressInUse, Alive, Running
  <2>2. ~AlreadyListening(p)
    BY <1>3, <1>i DEF AlreadyListening, SomebodyListens, Alive, Running
  <2>3. dir_safe => watchdog[p] = "HardExit"
    BY <1>7, <1>i, <2>2 DEF DirectoryRefused, StaleIsGone, AddressInUse, PathAsFound
  <2> QED
    BY <1>6, <2>1, <2>3
<1>8. ASSUME NEW p \in Starts, ServerStops(p) \/ IdleStops(p) \/ CtrlC(p)
      PROVE  OneAlive' /\ PathAsFound' /\ (dir_safe' => RestartsSucceed')
  BY <1>6, <1>8 DEF ServerStops, IdleStops, CtrlC, Alive, Running
\* the threads
<1>9. ASSUME NEW p \in Starts, Alarm(p)
      PROVE  OneAlive' /\ PathAsFound' /\ (dir_safe' => RestartsSucceed')
  <2>1. \A q \in Starts : pc[q] \in Alive => q = p
    BY <1>3, <1>9 DEF Alarm
  <2>2. /\ file' = Nobody /\ UNCHANGED <<pc, outcome>>
        /\ watchdog'[p] = "HardExit"
        /\ \A q \in Starts : watchdog[q] = "HardExit" => watchdog'[q] = "HardExit"
    BY <1>9, <1>i DEF Alarm
  <2>3. OneAlive' /\ PathAsFound'
    BY <1>i, <2>1, <2>2 DEF OneAlive, PathAsFound, Alive, Running
  <2>4. dir_safe' => RestartsSucceed'
    BY <1>1, <1>i, <2>2 DEF RestartsSucceed
  <2> QED
    BY <2>3, <2>4
<1>10. ASSUME NEW p \in Starts, Tick(p)
       PROVE  OneAlive' /\ PathAsFound' /\ (dir_safe' => RestartsSucceed')
  <2>1. \A q \in Starts : watchdog[q] = "HardExit" <=> watchdog'[q] = "HardExit"
    BY <1>10, <1>i DEF Tick
  <2> QED
    BY <1>1, <1>10, <1>i, <2>1 DEF Tick, OneAlive, PathAsFound, RestartsSucceed
<1>11. ASSUME UNCHANGED <<file, pc, outcome, watchdog>>
       PROVE  OneAlive' /\ PathAsFound' /\ (dir_safe' => RestartsSucceed')
  BY <1>1, <1>11, <1>i DEF OneAlive, PathAsFound, RestartsSucceed
<1> QED
  BY <1>4, <1>5, <1>7, <1>8, <1>9, <1>10, <1>11 DEF Next, Binding, Quit, ClientsChange, vars

(* The inductive invariant is one.                                         *)
LEMMA Invariance == Spec => []IInv
<1>1. Init => IInv
  <2> SUFFICES ASSUME Init PROVE IInv
    OBVIOUS
  <2>1. TypeOK
    BY ProcessAssumption DEF Init, TypeOK, NotIdle
  <2>2. ClockShort /\ NothingYetBefore /\ LocksOnlyWhenQuiet
    BY ProcessAssumption DEF Init, ClockShort, NothingYetBefore, LocksOnlyWhenQuiet, NotIdle
  <2>3. OneAlive /\ PathAsFound /\ RestartsSucceed /\ overlap \in Overlap
    BY DEF Init, OneAlive, PathAsFound, RestartsSucceed, Alive, Running
  <2> QED
    BY <2>1, <2>2, <2>3 DEF IInv, Clocked, Alone
<1>2. IInv /\ [Next]_vars => IInv'
  <2> SUFFICES ASSUME IInv, [Next]_vars PROVE IInv'
    OBVIOUS
  <2>1. Clocked'
    BY ClockStep DEF IInv
  <2>2. Alone' /\ RestartsSucceed'
    BY AloneStep
  <2>3. UNCHANGED overlap
    BY DEF Next, Start, Unlock, UnlockFails, Binding, DirectoryRefused, CheckExists,
       AlreadyListening, ProbeFails, RemoveStale, StaleIsGone, Bind, AddressInUse, ServerStops,
       IdleStops, CtrlC, Cleanup, Killed, Quit, ClientsChange, Tick, Alarm, HardExit, End, vars,
       world
  <2> QED
    BY <2>1, <2>2, <2>3 DEF IInv
<1> QED
  BY <1>1, <1>2, PTL DEF Spec

-----------------------------------------------------------------------------
(* The theorems.                                                           *)

(* Every variable keeps its type; the idle clock stays within the timeout. *)
THEOREM TypeCorrect == Spec => []TypeOK
<1>1. IInv => TypeOK
  BY DEF IInv, Clocked
<1> QED
  BY <1>1, Invariance, PTL

(* The idle auto-lock fires only after a timeout without a client.         *)
THEOREM NeverLocksEarly == Spec => []LocksOnlyWhenQuiet
<1>1. IInv => LocksOnlyWhenQuiet
  BY DEF IInv, Clocked
<1> QED
  BY <1>1, Invariance, PTL

(* However many agents ran before and however they ended, the next one     *)
(* binds, if no other is under way.                                        *)
THEOREM NextStartBinds == Spec => []RestartsSucceed
<1>1. IInv => RestartsSucceed
  BY DEF IInv
<1> QED
  BY <1>1, Invariance, PTL

(* Where starts do not overlap and no watchdog sounds the alarm, the file  *)
(* of an agent that serves stays in place, as bind says.                   *)
THEOREM SocketKeptWithoutOverlap ==
  ASSUME Overlap = {FALSE}, Alarms = FALSE
  PROVE  Spec => LiveSocketKept
<1> DEFINE Kept == \A p \in file : pc[p] = "Serving" /\ pc'[p] = "Serving" => p \in file'
<1>1. ASSUME IInv, [Next]_vars PROVE Kept
  <2> SUFFICES ASSUME NEW p \in file, pc[p] = "Serving", pc'[p] = "Serving"
               PROVE  p \in file'
    OBVIOUS
  <2>1. p \in Starts /\ file = {p}
    BY <1>1 DEF IInv, Clocked, TypeOK, Nobody
  <2>2. \A q \in Starts : pc[q] \in Alive => q = p
    BY <1>1, <2>1 DEF IInv, Alone, OneAlive, Alive, Running
  <2>3. pc \in [Starts -> {"Off"} \union Alive \union Over]
    BY <1>1 DEF IInv, Clocked, TypeOK
  <2>4. ASSUME NEW q \in Starts, RemoveStale(q) \/ Bind(q) \/ Cleanup(q) PROVE FALSE
    BY <2>2, <2>4 DEF RemoveStale, Bind, Cleanup, Alive, Running
  <2>5. UNCHANGED file
    BY <1>1, <2>4 DEF Next, Start, Unlock, UnlockFails, Binding, DirectoryRefused, CheckExists,
       AlreadyListening, ProbeFails, StaleIsGone, AddressInUse, ServerStops, IdleStops, CtrlC,
       Killed, Quit, ClientsChange, Tick, Alarm, HardExit, End, vars
  <2> QED
    BY <2>5
<1> QED
  BY <1>1, Invariance, PTL DEF Spec, LiveSocketKept
=============================================================================
