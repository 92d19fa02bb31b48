------------------------- MODULE ServeManagerProofs -------------------------
(***************************************************************************)
(* The contracts of the serve manager, for any number of serves, client    *)
(* calls and daemon lives.  The inductive invariant IInv at the end is the *)
(* types, what the lifecycle lock and the child's fields mean while a      *)
(* transaction is under way (TargetInv, LifeInv, LockInv, ChildInv), the   *)
(* latch of a stop (StopInv), the record (RecordInv) and the receipts      *)
(* (ReceiptInv); each layer is preserved by a lemma of its own.            *)
(***************************************************************************)
EXTENDS ServeManager, TLAPS

----------------------------------------------------------------------------
(* Types.                                                                  *)

\* A new call of any kind is a call.
LEMMA NewCall ==
    \A op \in Op, force \in BOOLEAN : [Idle EXCEPT !.op = op, !.force = force] \in Call
  BY DEF Idle, Call, NoServe

\* A spawn and a written receipt move a call on.
LEMMA SaveType ==
    ASSUME call \in [Thread -> Call], NEW t \in Thread, NEW s \in Serve
    PROVE  [call EXCEPT ![t].pc = "save", ![t].target = s] \in [Thread -> Call]
  <1>1. [call[t] EXCEPT !.pc = "save", !.target = s] \in Call
    BY DEF Call
  <1>2. [call EXCEPT ![t].pc = "save", ![t].target = s]
          = [call EXCEPT ![t] = [call[t] EXCEPT !.pc = "save", !.target = s]]
    OBVIOUS
  <1> QED
    BY <1>1, <1>2

LEMMA SignalType ==
    ASSUME call \in [Thread -> Call], NEW t \in Thread
    PROVE  [call EXCEPT ![t].pc = "signal", ![t].force = FALSE] \in [Thread -> Call]
  <1>1. [call[t] EXCEPT !.pc = "signal", !.force = FALSE] \in Call
    BY DEF Call
  <1>2. [call EXCEPT ![t].pc = "signal", ![t].force = FALSE]
          = [call EXCEPT ![t] = [call[t] EXCEPT !.pc = "signal", !.force = FALSE]]
    OBVIOUS
  <1> QED
    BY <1>1, <1>2

\* A returning call leaves the calls typed.
LEMMA ReturnType ==
    ASSUME TypeOK, NEW t \in Thread, Return(t)
    PROVE  call' \in [Thread -> Call]
  BY DEF Return, TypeOK, Idle, Call, Op, NoServe

\* A start's gate keeps the types of what it writes.
LEMMA StartGateType ==
    ASSUME TypeOK, NEW t \in Thread, NEW c \in Call, StartGate(t, c)
    PROVE  /\ call' \in [Thread -> Call] /\ child' = child
           /\ {starting', stopping', stopRequested', shutdownRequested'} \subseteq BOOLEAN
           /\ quiet' \in {"no", "stopped", "shutdown"}
  <1>1. call' \in [Thread -> Call]
    <2>1. CASE Refused(c.op = "auto") \/ Occupied
      BY <2>1, ReturnType DEF StartGate
    <2>2. CASE ~(Refused(c.op = "auto") \/ Occupied)
      <3>1. call' = [call EXCEPT ![t] = [c EXCEPT !.pc = "spawn"]]
        BY <2>2 DEF StartGate
      <3> QED
        BY <3>1 DEF TypeOK, Call
    <2> QED
      BY <2>1, <2>2
  <1>2. {starting', stopping', stopRequested', shutdownRequested'} \subseteq BOOLEAN
    BY DEF StartGate, TypeOK
  <1>3. quiet' \in {"no", "stopped", "shutdown"}
    BY DEF StartGate, TypeOK
  <1> QED
    BY <1>1, <1>2, <1>3 DEF StartGate

\* So does the end of a stop.
LEMMA StopReturnsType ==
    ASSUME TypeOK, NEW t \in Thread, NEW c \in Call, StopReturns(t, c)
    PROVE  /\ call' \in [Thread -> Call]
           /\ quiet' \in {"no", "stopped", "shutdown"}
  <1>1. CASE c.op = "switch"
    <2>1. call' = [call EXCEPT ![t] = [c EXCEPT !.pc = "again", !.target = NoServe]]
      BY <1>1 DEF StopReturns
    <2> QED
      BY <1>1, <2>1 DEF StopReturns, TypeOK, Call
  <1>2. CASE c.op # "switch"
    BY <1>2, ReturnType DEF StopReturns, TypeOK
  <1> QED
    BY <1>1, <1>2

\* So does a stop's gate.
LEMMA StopGateType ==
    ASSUME TypeOK, NEW t \in Thread, NEW c \in Call, StopGate(t, c)
    PROVE  /\ call' \in [Thread -> Call] /\ child' = child
           /\ {starting', stopping', stopRequested', shutdownRequested'} \subseteq BOOLEAN
           /\ quiet' \in {"no", "stopped", "shutdown"}
  <1>2. call' \in [Thread -> Call]
    <2>1. CASE child = NoServe
      BY <2>1, StopReturnsType DEF StopGate
    <2>2. CASE child # NoServe
      <3>1. call' = [call EXCEPT ![t] = [c EXCEPT !.pc = "prepare", !.target = child]]
        BY <2>2 DEF StopGate
      <3> QED
        BY <3>1 DEF TypeOK, Call
    <2> QED
      BY <2>1, <2>2
  <1>3. {starting', stopping', stopRequested', shutdownRequested'} \subseteq BOOLEAN
    BY DEF StopGate, TypeOK
  <1>4. quiet' \in {"no", "stopped", "shutdown"}
    BY StopReturnsType DEF StopGate, TypeOK
  <1> QED
    BY <1>2, <1>3, <1>4 DEF StopGate

\* The idle thread makes a call.
LEMMA IdleType == Idle \in Call
  BY DEF Idle, Call, Op

\* An action that takes a gate keeps the types.
LEMMA GateType ==
    ASSUME TypeOK, NEW t \in Thread, NEW c \in Call, StartGate(t, c) \/ StopGate(t, c),
           calls' \in 0..MaxCalls,
           UNCHANGED <<up, boots, watch, accounts, world, outbox, overtaken>>
    PROVE  TypeOK'
  <1>1. /\ call' \in [Thread -> Call] /\ child' = child
        /\ {starting', stopping', stopRequested', shutdownRequested'} \subseteq BOOLEAN
        /\ quiet' \in {"no", "stopped", "shutdown"}
    BY StartGateType, StopGateType
  <1> QED
    BY <1>1 DEF TypeOK, watch, accounts, world

\* The first state is typed.
LEMMA InitType == Init => TypeOK
  <1> SUFFICES ASSUME Init PROVE TypeOK
    OBVIOUS
  <1>1. call \in [Thread -> Call]
    BY IdleType DEF Init
  <1>2. /\ mon \in [Serve -> {"none", "wait", "receipt", "forget", "clear", "wake", "decide"}]
        /\ wasStopping \in [Serve -> BOOLEAN] /\ lastStats \in [Serve -> Serve \cup {NoServe}]
        /\ proc \in [Serve -> {"unborn", "alive", "dead"}]
    BY DEF Init
  <1>3. boots \in 1..MaxBoots /\ calls \in 0..MaxCalls
    BY BoundsAssumption DEF Init
  <1> HIDE DEF Call
  <1> QED
    BY <1>1, <1>2, <1>3 DEF Init, TypeOK

\* Every step keeps the types.
LEMMA TypeStep == TypeOK /\ TargetInv /\ [Next]_vars => TypeOK'
  <1> SUFFICES ASSUME TypeOK, TargetInv, [Next]_vars PROVE TypeOK'
    OBVIOUS
  <1> USE DEF TypeOK, Call, bounds, memory, watch, accounts, world, history
  <1>1. CASE ClientCalls
    <2>1. PICK op \in {"start", "stop", "switch", "shutdown"}, force \in BOOLEAN :
             StartGate(Pool, [Idle EXCEPT !.op = op, !.force = force])
                \/ StopGate(Pool, [Idle EXCEPT !.op = op, !.force = force])
      BY <1>1 DEF ClientCalls
    <2> HIDE DEF Call
    <2>2. [Idle EXCEPT !.op = op, !.force = force] \in Call
      BY NewCall DEF Op
    <2>4. Pool \in Thread
      BY BoundsAssumption DEF Thread, Pool, Hook
    <2>3. calls' \in 0..MaxCalls
      BY <1>1, BoundsAssumption DEF ClientCalls
    <2> HIDE DEF TypeOK
    <2> QED
      BY <1>1, <2>1, <2>2, <2>3, <2>4, GateType DEF ClientCalls
  <1>2. CASE HookStops
    <2>1. Hook \in Thread
      BY BoundsAssumption DEF Thread, Hook
    <2>2. [Idle EXCEPT !.op = "stop"] \in Call
      BY DEF Idle, Op
    <2> HIDE DEF TypeOK, Call
    <2> QED
      BY <1>2, <2>1, <2>2, GateType DEF HookStops, TypeOK
  <1>3. ASSUME NEW t \in Thread, Spawn(t) PROVE TypeOK'
    <2>1. PICK s \in Serve :
             /\ proc' = [proc EXCEPT ![s] = "alive"] /\ child' = s
             /\ call' = [call EXCEPT ![t].pc = "save", ![t].target = s]
             /\ overtaken' \in {overtaken, overtaken \cup {s}}
      BY <1>3 DEF Spawn
    <2>2. call' \in [Thread -> Call]
      BY <2>1, SaveType
    <2> QED
      BY <1>3, <2>1, <2>2 DEF Spawn
  <1>4. ASSUME NEW t \in Thread, SpawnFails(t) PROVE TypeOK'
    BY <1>4, ReturnType DEF SpawnFails
  <1>5. ASSUME NEW t \in Thread, Save(t) PROVE TypeOK'
    BY <1>5, ReturnType DEF Save
  <1>6. ASSUME NEW t \in Thread, SaveRaises(t) PROVE TypeOK'
    BY <1>6, ReturnType DEF SaveRaises
  <1>7. ASSUME NEW t \in Thread, Prepare(t) PROVE TypeOK'
    <2>1. PICK r \in StopReceipts(call[t].target, call[t].force) : outbox' = outbox \cup {r}
      BY <1>7 DEF Prepare
    <2>2. call[t].target \in Serve
      BY <1>7 DEF Prepare, TargetInv, StopPc
    <2>3. r \in Receipt
      BY <2>1, <2>2 DEF StopReceipts, Receipt
    <2>4. call' \in [Thread -> Call]
      <3>1. call' = [call EXCEPT ![t].pc = "signal", ![t].force = FALSE]
        BY <1>7 DEF Prepare
      <3> QED
        BY <3>1, SignalType
    <2> QED
      BY <1>7, <2>1, <2>2, <2>3, <2>4 DEF Prepare
  <1>8. ASSUME NEW t \in Thread, PrepareRaises(t) PROVE TypeOK'
    BY <1>8, ReturnType DEF PrepareRaises, StopRaises
  <1>9. ASSUME NEW t \in Thread, Signal(t) PROVE TypeOK'
    BY <1>9 DEF Signal, Goto
  <1>10. ASSUME NEW t \in Thread, Escalate(t) PROVE TypeOK'
    BY <1>10 DEF Escalate, Goto
  <1>11. ASSUME NEW t \in Thread, GiveUp(t) PROVE TypeOK'
    BY <1>11, ReturnType DEF GiveUp, StopRaises
  <1>12. ASSUME NEW t \in Thread, Stopped(t) PROVE TypeOK'
    <2>1. call[t] \in Call
      OBVIOUS
    <2>2. call' \in [Thread -> Call] /\ quiet' \in {"no", "stopped", "shutdown"}
      BY <1>12, <2>1, StopReturnsType DEF Stopped
    <2> QED
      BY <1>12, <2>2 DEF Stopped
  <1>13. ASSUME NEW t \in Thread, SwitchStarts(t) PROVE TypeOK'
    <2>1. call[t] \in Call /\ t \in Thread
      BY BoundsAssumption DEF Thread, Hook, Serve
    <2> HIDE DEF Call
    <2> QED
      BY <1>13, <2>1, GateType DEF SwitchStarts
  <1>14. ASSUME NEW s \in Serve, AutoStarts(s) PROVE TypeOK'
    <2>1. call[s] \in Call /\ s \in Thread
      BY BoundsAssumption DEF Thread, Hook, Serve
    <2> HIDE DEF Call
    <2> QED
      BY <1>14, <2>1, GateType DEF AutoStarts
  <1>15. ASSUME NEW s \in Serve, ReapReads(s) PROVE TypeOK'
    BY <1>15 DEF ReapReads
  <1>16. ASSUME NEW s \in Serve, ReapWrites(s) PROVE TypeOK'
    <2>1. [of |-> s, kind |-> "crash", from |-> lastStats[s]] \in Receipt
      BY DEF Receipt
    <2> QED
      BY <1>16, <2>1 DEF ReapWrites
  <1>17. ASSUME NEW s \in Serve, ReapWriteFails(s) PROVE TypeOK'
    BY <1>17 DEF ReapWriteFails
  <1>18. ASSUME NEW s \in Serve, ReapForgets(s) PROVE TypeOK'
    BY <1>18 DEF ReapForgets
  <1>19. ASSUME NEW s \in Serve, ReapClears(s) PROVE TypeOK'
    BY <1>19 DEF ReapClears
  <1>20. ASSUME NEW s \in Serve, ReapWakes(s) PROVE TypeOK'
    BY <1>20 DEF ReapWakes
  <1>21. ASSUME NEW s \in Serve, ReapDecides(s) PROVE TypeOK'
    <2>1. [Idle EXCEPT !.op = "auto", !.pc = "lock"] \in Call
      BY DEF Idle, Op
    <2> QED
      BY <1>21, <2>1 DEF ReapDecides
  <1>22. ASSUME NEW s \in Serve, Observe(s) PROVE TypeOK'
    BY <1>22 DEF Observe
  <1>23. ASSUME NEW s \in Serve, ServeDies(s) PROVE TypeOK'
    BY <1>23 DEF ServeDies
  <1>24. CASE DaemonDies
    BY <1>24, IdleType DEF DaemonDies
  <1>25. CASE Boot
    <2>1. boots' \in 1..MaxBoots
      BY <1>25, BoundsAssumption DEF Boot
    <2>2. file' \in Serve \cup {NoServe} /\ child' \in Serve \cup {NoServe}
      BY <1>25 DEF Boot
    <2> QED
      BY <1>25, <2>1, <2>2 DEF Boot
  <1>26. CASE UNCHANGED vars
    BY <1>26 DEF vars
  <1> HIDE DEF TypeOK, Call, bounds, memory, watch, accounts, world, history
  <1> QED
    BY <1>1, <1>2, <1>3, <1>4, <1>5, <1>6, <1>7, <1>8, <1>9, <1>10, <1>11, <1>12, <1>13,
       <1>14, <1>15, <1>16, <1>17, <1>18, <1>19, <1>20, <1>21, <1>22, <1>23, <1>24,
       <1>25, <1>26
       DEF Next, CallStep, Monitor

----------------------------------------------------------------------------
(* How a step moves the threads.                                           *)

\* Only thread t's call changes.
Only(t) == \A u \in Thread \ {t} : call'[u] = call[u]

\* Thread t passes the gate of a start or of a stop, for the call c.
Gate(t, c) ==
    /\ StartGate(t, c) \/ StopGate(t, c)
    /\ LockFree \/ call[t].pc = "again"
    /\ t \in Serve => call[t] # Idle
    /\ UNCHANGED <<up, boots, watch, accounts, world, outbox, overtaken>>

\* The four actions that take a gate.
AtGate == ClientCalls \/ HookStops \/ (\E t \in Thread : SwitchStarts(t)) \/ (\E s \in Serve : AutoStarts(s))

\* The pool and the hook are threads, none of a serve's; every serve has one.
LEMMA PoolHook ==
    Pool \in Thread \ Serve /\ Hook \in Thread \ Serve /\ Serve \subseteq Thread /\ NoServe \notin Serve
  BY BoundsAssumption DEF Thread, Pool, Hook, Serve, NoServe

\* The actions at a gate are steps of one thread, of a daemon that is up.
LEMMA GateTaken ==
    ASSUME TypeOK, LifeInv, AtGate
    PROVE  up /\ \E t \in Thread, c \in Call : Gate(t, c)
  <1>1. CASE ClientCalls
    <2>1. PICK op \in {"start", "stop", "switch", "shutdown"}, force \in BOOLEAN :
             StartGate(Pool, [Idle EXCEPT !.op = op, !.force = force])
                \/ StopGate(Pool, [Idle EXCEPT !.op = op, !.force = force])
      BY <1>1 DEF ClientCalls
    <2>2. [Idle EXCEPT !.op = op, !.force = force] \in Call
      BY NewCall DEF Op
    <2>3. up /\ LockFree /\ UNCHANGED <<up, boots, watch, accounts, world, outbox, overtaken>>
      BY <1>1 DEF ClientCalls
    <2> QED
      BY <2>1, <2>2, <2>3, PoolHook DEF Gate
  <1>2. CASE HookStops
    <2>1. [Idle EXCEPT !.op = "stop"] \in Call
      BY DEF Idle, Call, Op, NoServe
    <2> QED
      BY <1>2, <2>1, PoolHook DEF HookStops, Gate, bounds
  <1>3. ASSUME NEW t \in Thread, SwitchStarts(t) PROVE up /\ \E u \in Thread, c \in Call : Gate(u, c)
    <2>1. call[t] \in Call
      BY DEF TypeOK
    <2>2. up
      BY <1>3 DEF SwitchStarts, LifeInv, Idle
    <2> QED
      BY <1>3, <2>1, <2>2 DEF SwitchStarts, Gate, bounds, Idle
  <1>4. ASSUME NEW s \in Serve, AutoStarts(s) PROVE up /\ \E u \in Thread, c \in Call : Gate(u, c)
    <2>1. s \in Thread /\ call[s] \in Call
      BY PoolHook DEF TypeOK
    <2>2. up
      BY <1>4, <2>1 DEF AutoStarts, LifeInv, Idle
    <2> QED
      BY <1>4, <2>1, <2>2 DEF AutoStarts, Gate, bounds, Idle
  <1> QED
    BY <1>1, <1>2, <1>3, <1>4 DEF AtGate

\* A call that returns leaves its thread idle, or gone.
LEMMA ReturnMoves ==
    ASSUME TypeOK, NEW t \in Thread, Return(t)
    PROVE  Only(t) /\ call'[t].pc \in {"idle", "exit"}
  BY DEF Return, TypeOK, Only, Idle

\* A start's gate ends the call or lets it spawn.
LEMMA StartMoves ==
    ASSUME TypeOK, NEW t \in Thread, NEW c \in Call, StartGate(t, c)
    PROVE  /\ Only(t)
           /\ \/ call'[t].pc \in {"idle", "exit"} /\ starting' = starting
              \/ /\ call'[t].pc = "spawn" /\ starting' = TRUE
                 /\ ~Refused(c.op = "auto") /\ ~Occupied
           /\ UNCHANGED <<child, stopping, shutdownRequested>>
           /\ stopRequested' = (stopRequested /\ (c.op = "auto" \/ shutdownRequested))
           /\ quiet' = IF c.op = "auto" \/ quiet = "shutdown" THEN quiet ELSE "no"
  <1>1. CASE Refused(c.op = "auto") \/ Occupied
    BY <1>1, ReturnMoves DEF StartGate
  <1>2. CASE ~(Refused(c.op = "auto") \/ Occupied)
    <2>1. call' = [call EXCEPT ![t] = [c EXCEPT !.pc = "spawn"]] /\ starting' = TRUE
      BY <1>2 DEF StartGate
    <2>2. Only(t) /\ call'[t].pc = "spawn"
      BY <2>1 DEF TypeOK, Only, Call
    <2> QED
      BY <1>2, <2>1, <2>2 DEF StartGate
  <1> QED
    BY <1>1, <1>2

\* A stop that returns ends the call, or goes on to the start of a switch.
LEMMA StopReturnMoves ==
    ASSUME TypeOK, NEW t \in Thread, NEW c \in Call, StopReturns(t, c)
    PROVE  /\ Only(t)
           /\ \/ /\ call'[t].pc = "again" /\ quiet' = quiet
              \/ /\ call'[t].pc \in {"idle", "exit"}
                 /\ quiet' = IF quiet = "shutdown" \/ c.op = "shutdown" THEN "shutdown" ELSE "stopped"
  <1>1. CASE c.op = "switch"
    <2>1. call' = [call EXCEPT ![t] = [c EXCEPT !.pc = "again", !.target = NoServe]]
      BY <1>1 DEF StopReturns
    <2>2. Only(t) /\ call'[t].pc = "again"
      BY <2>1 DEF TypeOK, Only, Call
    <2> QED
      BY <1>1, <2>2 DEF StopReturns
  <1>2. CASE c.op # "switch"
    BY <1>2, ReturnMoves DEF StopReturns
  <1> QED
    BY <1>1, <1>2

\* A stop's gate finds nothing to stop or takes the child as its target.
LEMMA StopMoves ==
    ASSUME TypeOK, NEW t \in Thread, NEW c \in Call, StopGate(t, c)
    PROVE  /\ Only(t)
           /\ \/ /\ child = NoServe /\ stopping' = stopping
                 /\ \/ call'[t].pc = "again" /\ quiet' = quiet
                    \/ /\ call'[t].pc \in {"idle", "exit"}
                       /\ quiet' = IF quiet = "shutdown" \/ c.op = "shutdown" THEN "shutdown"
                                                                             ELSE "stopped"
              \/ /\ child # NoServe /\ stopping' = TRUE /\ quiet' = quiet
                 /\ call'[t].pc = "prepare" /\ call'[t].target = child /\ call'[t].op = c.op
           /\ UNCHANGED <<child, starting>>
           /\ stopRequested' = TRUE /\ shutdownRequested' = (shutdownRequested \/ c.op = "shutdown")
  <1>1. CASE child = NoServe
    BY <1>1, StopReturnMoves DEF StopGate
  <1>2. CASE child # NoServe
    <2>1. call' = [call EXCEPT ![t] = [c EXCEPT !.pc = "prepare", !.target = child]]
      BY <1>2 DEF StopGate
    <2>2. Only(t) /\ call'[t].pc = "prepare" /\ call'[t].target = child /\ call'[t].op = c.op
      BY <2>1 DEF TypeOK, Only, Call
    <2> QED
      BY <1>2, <2>2 DEF StopGate
  <1> QED
    BY <1>1, <1>2

\* A gate moves one thread and changes nothing but the call, the latches and the history.
LEMMA GateMoves ==
    ASSUME TypeOK, NEW t \in Thread, NEW c \in Call, Gate(t, c)
    PROVE  Only(t) /\ child' = child
           /\ call'[t].pc \in {"idle", "exit", "spawn", "again", "prepare"}
           /\ (call'[t].pc = "prepare" => child # NoServe /\ call'[t].target = child)
  BY StartMoves, StopMoves DEF Gate

\* A thread that leaves its stop by an exception, or returns from it.
LEMMA EndMoves ==
    ASSUME TypeOK, NEW t \in Thread
    PROVE  /\ StopRaises(t) => Only(t) /\ call'[t].pc \in {"idle", "exit"}
           /\ StopReturns(t, call[t]) => Only(t) /\ call'[t].pc \in {"idle", "exit", "again"}
  <1>1. call[t] \in Call
    BY DEF TypeOK
  <1> QED
    BY <1>1, ReturnMoves, StopReturnMoves DEF StopRaises

\* A step of a call under way.
Working(t) ==
    \/ Spawn(t) \/ SpawnFails(t) \/ Save(t) \/ SaveRaises(t)
    \/ Prepare(t) \/ PrepareRaises(t)
    \/ Signal(t) \/ Escalate(t) \/ GiveUp(t) \/ Stopped(t)

\* It moves its thread alone, and the thread holds the lock.
LEMMA CallMoves ==
    ASSUME TypeOK, NEW t \in Thread, Working(t)
    PROVE  /\ Only(t) /\ Busy(t)
           /\ call'[t].pc \in {"idle", "exit", "save", "again", "signal", "grace", "killed"}
           /\ call'[t].pc \in {"signal", "grace", "killed"} =>
                 Prepare(t) \/ call[t].pc \in {"signal", "grace", "killed"}
           /\ call'[t].pc \in StopPc =>
                 call[t].pc \in StopPc /\ call'[t].target = call[t].target /\ call'[t].op = call[t].op
  <1> USE DEF Busy, StopPc
  <1>1. CASE Spawn(t)
    <2>1. PICK s \in Serve : call' = [call EXCEPT ![t].pc = "save", ![t].target = s]
      BY <1>1 DEF Spawn
    <2>2. Only(t) /\ call'[t].pc = "save"
      BY <2>1 DEF TypeOK, Only, Call
    <2> QED
      BY <1>1, <2>2 DEF Spawn
  <1>2. CASE SpawnFails(t) \/ Save(t) \/ SaveRaises(t)
    BY <1>2, ReturnMoves DEF SpawnFails, Save, SaveRaises
  <1>3. CASE Prepare(t)
    <2>1. call' = [call EXCEPT ![t].pc = "signal", ![t].force = FALSE]
      BY <1>3 DEF Prepare
    <2>2. /\ Only(t) /\ call'[t].pc = "signal"
          /\ call'[t].target = call[t].target /\ call'[t].op = call[t].op
      BY <2>1 DEF TypeOK, Only, Call
    <2> QED
      BY <1>3, <2>2 DEF Prepare
  <1>4. CASE PrepareRaises(t) \/ GiveUp(t)
    BY <1>4, EndMoves DEF PrepareRaises, GiveUp
  <1>5. CASE Signal(t) \/ Escalate(t)
    <2>1. PICK pc \in {"grace", "killed"} : call' = [call EXCEPT ![t].pc = pc]
      BY <1>5 DEF Signal, Escalate, Goto
    <2>2. /\ Only(t) /\ call'[t].pc \in {"grace", "killed"}
          /\ call'[t].target = call[t].target /\ call'[t].op = call[t].op
      BY <2>1 DEF TypeOK, Only, Call
    <2> QED
      BY <1>5, <2>2 DEF Signal, Escalate
  <1>6. CASE Stopped(t)
    BY <1>6, EndMoves DEF Stopped
  <1> QED
    BY <1>1, <1>2, <1>3, <1>4, <1>5, <1>6 DEF Working

\* Every other step leaves the threads alone, puts one behind the lock or ends them all.
LEMMA OtherMoves ==
    ASSUME TypeOK, Next, ~AtGate, \A t \in Thread : ~CallStep(t)
    PROVE  \/ call' = call
           \/ DaemonDies
           \/ \E s \in Serve : Only(s) /\ call'[s].pc = "lock" /\ ReapDecides(s)
  <1> USE DEF bounds, memory, watch, accounts, world, history
  <1>1. ASSUME NEW s \in Serve, ReapDecides(s)
        PROVE  call' = call \/ \E u \in Serve : Only(u) /\ call'[u].pc = "lock" /\ ReapDecides(u)
    <2>1. s \in Thread
      BY PoolHook
    <2>2. CASE call' = call
      BY <2>2
    <2>3. CASE call' = [call EXCEPT ![s] = [Idle EXCEPT !.op = "auto", !.pc = "lock"]]
      <3>1. Only(s) /\ call'[s].pc = "lock"
        BY <2>1, <2>3 DEF TypeOK, Only, Idle
      <3> QED
        BY <1>1, <3>1
    <2> QED
      BY <1>1, <2>2, <2>3 DEF ReapDecides
  <1>2. ASSUME NEW s \in Serve, Monitor(s), ~ReapDecides(s) PROVE call' = call
    BY <1>2 DEF Monitor, ReapReads, ReapWrites, ReapWriteFails, ReapForgets, ReapClears, ReapWakes
  <1>3. ASSUME NEW s \in Serve, Observe(s) \/ ServeDies(s) PROVE call' = call
    BY <1>3 DEF Observe, ServeDies
  <1>4. CASE Boot
    BY <1>4 DEF Boot
  <1> QED
    BY <1>1, <1>2, <1>3, <1>4 DEF Next, AtGate

\* How a step moves the threads: one that passes a gate, one that holds the lock, one that
\* comes to wait for it, all of them when the daemon dies, or none.
LEMMA Moves ==
    ASSUME TypeOK, LifeInv, Next
    PROVE  \/ \E t \in Thread, c \in Call : Gate(t, c)
           \/ \E t \in Thread : Working(t)
           \/ call' = call
           \/ DaemonDies
           \/ \E s \in Serve : Only(s) /\ call'[s].pc = "lock" /\ ReapDecides(s)
  BY GateTaken, OtherMoves DEF AtGate, CallStep, Working

\* A stop past its gate keeps its target.
LEMMA TargetStep == TypeOK /\ LifeInv /\ TargetInv /\ [Next]_vars => TargetInv'
  <1> SUFFICES ASSUME TypeOK, LifeInv, TargetInv, [Next]_vars PROVE TargetInv'
    OBVIOUS
  <1> USE DEF TargetInv
  <1>1. ASSUME NEW t \in Thread, NEW c \in Call, Gate(t, c) PROVE TargetInv'
    BY <1>1, GateMoves DEF Only, StopPc
  <1>2. ASSUME NEW t \in Thread, Working(t) PROVE TargetInv'
    BY <1>2, CallMoves DEF Only
  <1>3. CASE DaemonDies
    BY <1>3 DEF DaemonDies, Idle, StopPc
  <1>4. ASSUME NEW s \in Serve, Only(s), call'[s].pc = "lock" PROVE TargetInv'
    BY <1>4 DEF Only, StopPc
  <1>5. CASE call' = call
    BY <1>5
  <1>6. CASE UNCHANGED vars
    BY <1>5, <1>6 DEF vars
  <1> HIDE DEF TargetInv
  <1> QED
    BY <1>1, <1>2, <1>3, <1>4, <1>5, <1>6, Moves

\* The lock is taken when it is free, and only its holder moves.
LEMMA LockStep == TypeOK /\ LifeInv /\ LockInv /\ [Next]_vars => LockInv'
  <1> SUFFICES ASSUME TypeOK, LifeInv, LockInv, [Next]_vars PROVE LockInv'
    OBVIOUS
  <1> USE DEF LockInv, Busy
  <1>1. ASSUME NEW t \in Thread, NEW c \in Call, Gate(t, c) PROVE LockInv'
    <2>1. \A u \in Thread \ {t} : ~Busy(u)
      BY <1>1 DEF Gate, LockFree
    <2> QED
      BY <1>1, <2>1, GateMoves DEF Only
  <1>2. ASSUME NEW t \in Thread, Working(t) PROVE LockInv'
    BY <1>2, CallMoves DEF Only
  <1>3. CASE DaemonDies
    BY <1>3 DEF DaemonDies, Idle
  <1>4. ASSUME NEW s \in Serve, Only(s), call'[s].pc = "lock" PROVE LockInv'
    BY <1>4 DEF Only
  <1>5. CASE call' = call
    BY <1>5
  <1>6. CASE UNCHANGED vars
    BY <1>5, <1>6 DEF vars
  <1> HIDE DEF LockInv, Busy
  <1> QED
    BY <1>1, <1>2, <1>3, <1>4, <1>5, <1>6, Moves

\* Monitors and threads belong to a daemon, and follow the life of the serve.
LEMMA LifeStep == TypeOK /\ LifeInv /\ ChildInv /\ [Next]_vars => LifeInv'
  <1> SUFFICES ASSUME TypeOK, LifeInv, ChildInv, [Next]_vars PROVE LifeInv'
    OBVIOUS
  <1> USE PoolHook DEF LifeInv, bounds, memory, watch, accounts, world, history
  <1>1. CASE AtGate
    <2>1. PICK t \in Thread, c \in Call : up /\ Gate(t, c)
      BY <1>1, GateTaken
    <2>2. /\ up' = up /\ UNCHANGED <<mon, reaped, proc>>
          /\ Only(t) /\ (t \in Serve => call[t] # Idle)
      BY <2>1, GateMoves DEF Gate
    <2> QED
      BY <2>1, <2>2 DEF Only
  <1>2. ASSUME NEW t \in Thread, Working(t) PROVE LifeInv'
    <2>1. Only(t) /\ call[t] # Idle
      BY <1>2, CallMoves DEF Busy, Idle
    <2>2. up
      BY <2>1
    <2>3. CASE Spawn(t)
      <3>1. up' = up /\ UNCHANGED <<mon, reaped>>
        BY <2>3 DEF Spawn
      <3>2. PICK s \in Serve : proc[s] = "unborn" /\ proc' = [proc EXCEPT ![s] = "alive"]
        BY <2>3 DEF Spawn
      <3> QED
        BY <2>1, <2>2, <3>1, <3>2 DEF TypeOK, Only
    <2>4. CASE Save(t)
      <3>1. /\ up' = up /\ UNCHANGED <<proc, reaped>>
            /\ mon' = [mon EXCEPT ![call[t].target] = "wait"]
        BY <2>4 DEF Save
      <3>2. /\ call[t].target \in Serve /\ proc[call[t].target] # "unborn"
            /\ call[t].target \notin reaped
        BY <2>4 DEF Save, ChildInv, TypeOK
      <3>3. call[call[t].target] = Idle
        BY <3>2
      <3>4. call'[call[t].target] = Idle
        BY <2>1, <3>2, <3>3 DEF Only
      <3> QED
        BY <2>1, <2>2, <3>1, <3>2, <3>4 DEF TypeOK, Only
    <2>5. CASE ~Spawn(t) /\ ~Save(t)
      <3>1. up' = up /\ UNCHANGED <<mon, reaped, proc>>
        BY <1>2, <2>5 DEF Working, SpawnFails, SaveRaises, Prepare, PrepareRaises, StopRaises,
                          Signal, Escalate, GiveUp, Stopped
      <3> QED
        BY <2>1, <2>2, <3>1 DEF Only
    <2> QED
      BY <2>3, <2>4, <2>5
  <1>3. ASSUME NEW s \in Serve, ReapReads(s) PROVE LifeInv'
    BY <1>3 DEF ReapReads, TypeOK
  <1>4. ASSUME NEW s \in Serve, ReapWrites(s) \/ ReapWriteFails(s) PROVE LifeInv'
    BY <1>4 DEF ReapWrites, ReapWriteFails, TypeOK
  <1>5. ASSUME NEW s \in Serve, ReapForgets(s) PROVE LifeInv'
    BY <1>5 DEF ReapForgets, TypeOK
  <1>6. ASSUME NEW s \in Serve, ReapClears(s) PROVE LifeInv'
    BY <1>6 DEF ReapClears, TypeOK
  <1>7. ASSUME NEW s \in Serve, ReapWakes(s) PROVE LifeInv'
    BY <1>7 DEF ReapWakes, TypeOK
  <1>8. ASSUME NEW s \in Serve, ReapDecides(s) PROVE LifeInv'
    <2>1. /\ up /\ up' = up /\ UNCHANGED <<reaped, proc>> /\ mon[s] = "decide"
          /\ mon' = [mon EXCEPT ![s] = "none"]
      BY <1>8 DEF ReapDecides
    <2>2. \A u \in Serve \ {s} : call'[u] = call[u]
      BY <1>8 DEF ReapDecides, TypeOK
    <2> QED
      BY <2>1, <2>2 DEF TypeOK
  <1>9. ASSUME NEW s \in Serve, Observe(s) \/ ServeDies(s) PROVE LifeInv'
    BY <1>9 DEF Observe, ServeDies, TypeOK
  <1>10. CASE DaemonDies
    BY <1>10 DEF DaemonDies
  <1>11. CASE Boot
    <2>1. ~up /\ up' /\ UNCHANGED <<proc, reaped, call>>
      BY <1>11 DEF Boot
    <2>2. mon' = mon \/ (mon' = [mon EXCEPT ![file] = "wait"] /\ proc[file] = "alive")
      BY <1>11 DEF Boot
    <2> QED
      BY <2>1, <2>2 DEF TypeOK
  <1>12. CASE UNCHANGED vars
    BY <1>12 DEF vars
  <1> HIDE DEF LifeInv, bounds, memory, watch, accounts, world, history
  <1> QED
    BY <1>1, <1>2, <1>3, <1>4, <1>5, <1>6, <1>7, <1>8, <1>9, <1>10, <1>11, <1>12
       DEF Next, CallStep, Working, Monitor, AtGate

\* When a thread passes a gate, or works, no other thread is in a transaction.
LEMMA Alone ==
    ASSUME TypeOK, LockInv, NEW t \in Thread, Working(t) \/ \E c \in Call : Gate(t, c)
    PROVE  \A u \in Thread \ {t} : ~Busy(u)
  <1>1. CASE Working(t)
    BY <1>1, CallMoves DEF LockInv
  <1>2. CASE LockFree
    BY <1>2 DEF LockFree, Busy
  <1>3. CASE call[t].pc = "again"
    BY <1>3 DEF LockInv, Busy
  <1> QED
    BY <1>1, <1>2, <1>3 DEF Gate

\* At a gate no start or stop is under way.
LEMMA GateClear ==
    ASSUME TypeOK, LockInv, ChildInv, NEW t \in Thread, NEW c \in Call, Gate(t, c)
    PROVE  ~starting /\ ~stopping
  <1>1. \A u \in Thread \ {t} : call[u].pc \notin StopPc \cup {"spawn"}
    BY Alone DEF Busy, StopPc
  <1>2. call[t].pc \notin StopPc \cup {"spawn"}
    BY DEF Gate, LockFree, StopPc
  <1> QED
    BY <1>1, <1>2 DEF ChildInv

\* The child and its flags stay with the transaction that holds the lock.
LEMMA ChildStep == TypeOK /\ LifeInv /\ LockInv /\ ChildInv /\ [Next]_vars => ChildInv'
  <1> SUFFICES ASSUME TypeOK, LifeInv, LockInv, ChildInv, [Next]_vars PROVE ChildInv'
    OBVIOUS
  <1> USE PoolHook DEF ChildInv, bounds, memory, watch, accounts, world, history
  <1>1. CASE AtGate
    <2>1. PICK t \in Thread, c \in Call : Gate(t, c)
      BY <1>1, GateTaken
    <2>2. /\ Only(t) /\ child' = child /\ UNCHANGED <<mon, reaped, proc>>
          /\ ~starting /\ ~stopping
          /\ \A u \in Thread \ {t} : call[u].pc \notin StopPc \cup {"spawn", "save"}
      BY <2>1, GateMoves, GateClear, Alone DEF Gate, Busy, StopPc
    <2>3. CASE StartGate(t, c)
      <3>1. ~stopping' /\ (starting' => call'[t].pc = "spawn")
            /\ call'[t].pc \in {"idle", "exit", "spawn"}
            /\ (call'[t].pc = "spawn" => child = NoServe)
        BY <2>2, <2>3, StartMoves DEF Occupied
      <3> QED
        BY <2>2, <3>1 DEF Only, StopPc
    <2>4. CASE StopGate(t, c)
      <3>1. /\ ~starting' /\ call'[t].pc \in {"idle", "exit", "again", "prepare"}
            /\ stopping' => child # NoServe /\ call'[t].pc = "prepare"
            /\ call'[t].pc = "prepare" => call'[t].target = child
        BY <2>2, <2>4, StopMoves
      <3> QED
        BY <2>2, <3>1 DEF Only, StopPc
    <2> QED
      BY <2>1, <2>3, <2>4 DEF Gate
  <1>2. ASSUME NEW t \in Thread, Working(t) PROVE ChildInv'
    <2>1. /\ Only(t) /\ Busy(t) /\ call'[t].pc # "spawn"
          /\ call'[t].pc \in StopPc => call[t].pc \in StopPc /\ call'[t].target = call[t].target
          /\ \A u \in Thread \ {t} : call[u].pc \notin StopPc \cup {"spawn", "save"}
      BY <1>2, CallMoves, Alone DEF Busy, StopPc
    <2>2. CASE Spawn(t)
      <3>1. PICK s \in Serve : /\ proc[s] = "unborn" /\ child' = s
                               /\ proc' = [proc EXCEPT ![s] = "alive"]
                               /\ call' = [call EXCEPT ![t].pc = "save", ![t].target = s]
        BY <2>2 DEF Spawn
      <3>2. UNCHANGED <<mon, reaped>> /\ ~starting' /\ ~stopping'
        BY <2>2 DEF Spawn
      <3>3. call'[t].pc = "save" /\ call'[t].target = s
        BY <3>1 DEF TypeOK, Call
      <3>4. s \notin reaped /\ mon[s] = "none" /\ s # NoServe
        BY <3>1 DEF LifeInv, TypeOK
      <3>5. proc'[s] = "alive"
        BY <3>1 DEF TypeOK
      <3>6. \A u \in Thread \ {t} : call'[u].pc \notin StopPc \cup {"spawn", "save"}
        BY <2>1 DEF Only
      <3>7. child' = s /\ \A u \in Serve : u \in reaped' \/ mon'[u] \in {"clear", "wake", "decide"} => u # s
        BY <3>1, <3>2, <3>4
      <3> QED
        BY <3>2, <3>3, <3>4, <3>5, <3>6, <3>7 DEF StopPc
    <2>3. CASE SpawnFails(t)
      <3>1. /\ ~starting' /\ ~stopping /\ call'[t].pc \in {"idle", "exit"}
            /\ UNCHANGED <<child, stopping, mon, reaped, proc>>
        BY <2>1, <2>3, ReturnMoves DEF SpawnFails, StopPc
      <3> QED
        BY <2>1, <3>1 DEF Only, StopPc
    <2>4. CASE Save(t) \/ SaveRaises(t)
      <3>1. /\ ~starting /\ ~stopping /\ UNCHANGED <<child, starting, stopping, reaped, proc>>
            /\ call'[t].pc \in {"idle", "exit"}
        BY <2>1, <2>4, ReturnMoves DEF Save, SaveRaises, StopPc
      <3>2. child \in Serve /\ (mon' = mon \/ mon' = [mon EXCEPT ![child] = "wait"])
        BY <2>4 DEF Save, SaveRaises, TypeOK
      <3> QED
        BY <2>1, <3>1, <3>2 DEF Only, StopPc, TypeOK
    <2>5. CASE Prepare(t) \/ Signal(t) \/ Escalate(t)
      <3>1. UNCHANGED <<child, starting, stopping, mon, reaped, proc>> /\ call[t].pc \in StopPc
        BY <2>5 DEF Prepare, Signal, Escalate, StopPc
      <3>2. call'[t].pc \in StopPc
        BY <1>2, <2>5, CallMoves DEF Prepare, Signal, Escalate, Goto, StopPc, TypeOK, Call
      <3> QED
        BY <2>1, <3>1, <3>2 DEF Only, StopPc
    <2>6. CASE PrepareRaises(t) \/ GiveUp(t)
      <3>1. /\ StopRaises(t) /\ call[t].pc \in StopPc
            /\ UNCHANGED <<child, starting, mon, reaped, proc>>
        BY <2>6 DEF PrepareRaises, GiveUp, StopRaises, StopPc
      <3>2. call'[t].pc \in {"idle", "exit"}
        BY <3>1, EndMoves
      <3>3. ~starting /\ ~stopping'
        BY <2>1, <3>1 DEF StopRaises, StopPc
      <3> QED
        BY <2>1, <3>1, <3>2, <3>3 DEF Only, StopPc
    <2>7. CASE Stopped(t)
      <3>1. /\ call[t].pc \in StopPc /\ call[t].target \in reaped /\ StopReturns(t, call[t])
            /\ UNCHANGED <<child, starting, stopping, mon, reaped, proc>>
        BY <2>7 DEF Stopped, StopPc
      <3>2. call'[t].pc \in {"idle", "exit", "again"}
        BY <3>1, EndMoves
      <3>3. ~starting /\ ~stopping
        BY <2>1, <3>1 DEF StopPc, TypeOK
      <3> QED
        BY <2>1, <3>1, <3>2, <3>3 DEF Only, StopPc
    <2> QED
      BY <1>2, <2>2, <2>3, <2>4, <2>5, <2>6, <2>7 DEF Working
  <1>3. ASSUME NEW s \in Serve, ReapReads(s) PROVE ChildInv'
    BY <1>3 DEF ReapReads, TypeOK
  <1>4. ASSUME NEW s \in Serve, ReapWrites(s) \/ ReapWriteFails(s) PROVE ChildInv'
    BY <1>4 DEF ReapWrites, ReapWriteFails, TypeOK
  <1>5. ASSUME NEW s \in Serve, ReapForgets(s) PROVE ChildInv'
    BY <1>5 DEF ReapForgets, TypeOK
  <1>6. ASSUME NEW s \in Serve, ReapClears(s) PROVE ChildInv'
    BY <1>6 DEF ReapClears, TypeOK
  <1>7. ASSUME NEW s \in Serve, ReapWakes(s) PROVE ChildInv'
    BY <1>7 DEF ReapWakes, TypeOK
  <1>8. ASSUME NEW s \in Serve, ReapDecides(s) PROVE ChildInv'
    <2>1. /\ UNCHANGED <<child, starting, stopping, reaped, proc>>
          /\ mon' = [mon EXCEPT ![s] = "none"] /\ call[s] = Idle /\ child # s
      BY <1>8 DEF ReapDecides, LifeInv
    <2>2. \A u \in Thread : call'[u] = call[u] \/ (u = s /\ call'[u].pc = "lock")
      BY <1>8 DEF ReapDecides, TypeOK, Idle
    <2> QED
      BY <2>1, <2>2 DEF StopPc, TypeOK, Idle
  <1>9. ASSUME NEW s \in Serve, Observe(s) \/ ServeDies(s) PROVE ChildInv'
    BY <1>9 DEF Observe, ServeDies, TypeOK
  <1>10. CASE DaemonDies
    BY <1>10 DEF DaemonDies, Idle, StopPc
  <1>11. CASE Boot
    <2>1. /\ ~starting' /\ ~stopping' /\ reaped' = {} /\ proc' = proc
          /\ \A t \in Thread : call'[t].pc = "idle"
          /\ \/ child' = NoServe /\ mon' = mon
             \/ child' = file /\ file \in Serve /\ proc[file] = "alive"
                /\ mon' = [mon EXCEPT ![file] = "wait"]
      BY <1>11 DEF Boot, LifeInv, Idle, TypeOK
    <2>2. \A s \in Serve : mon[s] = "none"
      BY <1>11 DEF Boot, LifeInv
    <2> QED
      BY <2>1, <2>2 DEF StopPc, TypeOK
  <1>12. CASE UNCHANGED vars
    BY <1>12 DEF vars
  <1> HIDE DEF ChildInv, bounds, memory, watch, accounts, world, history
  <1> QED
    BY <1>1, <1>2, <1>3, <1>4, <1>5, <1>6, <1>7, <1>8, <1>9, <1>10, <1>11, <1>12
       DEF Next, CallStep, Working, Monitor, AtGate

\* A serve becomes alive only as the child; the child is replaced only where there is none.
LEMMA OneServeStep == TypeOK /\ LifeInv /\ ChildInv /\ OneServe /\ [Next]_vars => OneServe'
  <1> SUFFICES ASSUME TypeOK, LifeInv, ChildInv, OneServe, [Next]_vars PROVE OneServe'
    OBVIOUS
  <1> USE DEF OneServe, bounds, memory, watch, accounts, world, history
  <1>1. CASE AtGate
    BY <1>1, GateTaken, GateMoves DEF Gate
  <1>2. ASSUME NEW t \in Thread, Spawn(t) PROVE OneServe'
    <2>1. PICK s \in Serve : child' = s /\ proc' = [proc EXCEPT ![s] = "alive"]
      BY <1>2 DEF Spawn
    <2>2. child = NoServe /\ up /\ boots' = boots
      BY <1>2 DEF Spawn, ChildInv, LifeInv, Idle
    <2> QED
      BY <2>1, <2>2, PoolHook DEF TypeOK
  <1>3. ASSUME NEW t \in Thread, Working(t), ~Spawn(t) PROVE OneServe'
    <2>1. call[t].pc # "idle"
      BY <1>3, CallMoves DEF Busy
    <2>2. up /\ UNCHANGED <<up, boots, child, proc>>
      BY <1>3, <2>1 DEF Working, SpawnFails, Save, SaveRaises, Prepare, PrepareRaises, StopRaises,
                        Signal, Escalate, GiveUp, Stopped, LifeInv, Idle
    <2> QED
      BY <2>2
  <1>4. ASSUME NEW s \in Serve, ReapForgets(s) PROVE OneServe'
    BY <1>4 DEF ReapForgets, LifeInv, TypeOK
  <1>5. ASSUME NEW s \in Serve, Monitor(s), ~ReapForgets(s) PROVE OneServe'
    <2>1. UNCHANGED <<up, boots, child, proc>>
      BY <1>5 DEF Monitor, ReapReads, ReapWrites, ReapWriteFails, ReapClears, ReapWakes, ReapDecides
    <2> QED
      BY <2>1
  <1>6. ASSUME NEW s \in Serve, Observe(s) \/ ServeDies(s) PROVE OneServe'
    BY <1>6 DEF Observe, ServeDies, TypeOK
  <1>7. CASE DaemonDies
    BY <1>7 DEF DaemonDies
  <1>8. CASE Boot
    BY <1>8 DEF Boot, TypeOK
  <1>9. CASE UNCHANGED vars
    BY <1>9 DEF vars
  <1> HIDE DEF OneServe, bounds, memory, watch, accounts, world, history
  <1> QED
    BY <1>1, <1>2, <1>3, <1>4, <1>5, <1>6, <1>7, <1>8, <1>9
       DEF Next, CallStep, Working, AtGate

\* The latch a stop leaves is lifted by a client's start alone, and no start passes it.
LEMMA StopStep == TypeOK /\ LifeInv /\ LockInv /\ ChildInv /\ StopInv /\ [Next]_vars => StopInv'
  <1> SUFFICES ASSUME TypeOK, LifeInv, LockInv, ChildInv, StopInv, [Next]_vars PROVE StopInv'
    OBVIOUS
  <1> USE DEF StopInv, bounds, memory, watch, accounts, world, history
  <1>1. CASE AtGate
    <2>1. PICK t \in Thread, c \in Call : Gate(t, c)
      BY <1>1, GateTaken
    <2>2. /\ Only(t) /\ child' = child /\ ~starting /\ ~stopping
          /\ \A u \in Thread \ {t} : call[u].pc \notin StopPc \cup {"spawn"}
      BY <2>1, GateMoves, GateClear, Alone DEF Busy, StopPc
    <2>3. CASE StartGate(t, c)
      <3>1. call'[t].pc \in {"idle", "exit", "spawn"}
        BY <2>3, StartMoves
      <3>2. /\ quiet' # "no" => quiet' = quiet /\ child = NoServe
                                /\ (stopRequested' \/ shutdownRequested')
            /\ quiet' = "shutdown" => shutdownRequested'
            /\ call'[t].pc = "spawn" => quiet' = "no"
            /\ starting' => call'[t].pc = "spawn"
        BY <2>2, <2>3, StartMoves DEF Refused, TypeOK
      <3> QED
        BY <2>2, <3>1, <3>2 DEF Only, StopPc
    <2>4. CASE StopGate(t, c)
      <3>1. /\ ~starting' /\ stopRequested' /\ (shutdownRequested => shutdownRequested')
            /\ call'[t].pc \in {"idle", "exit", "again", "prepare"}
            /\ quiet' # "no" => child = NoServe
            /\ quiet' = "shutdown" => shutdownRequested'
            /\ call'[t].pc = "prepare" =>
                 quiet' = "no" /\ (call'[t].op = "shutdown" => shutdownRequested')
        BY <2>2, <2>4, StopMoves
      <3> QED
        BY <2>2, <3>1 DEF Only, StopPc
    <2> QED
      BY <2>1, <2>3, <2>4 DEF Gate
  <1>2. ASSUME NEW t \in Thread, Working(t) PROVE StopInv'
    <2>1. /\ Only(t) /\ Busy(t) /\ call'[t].pc # "spawn"
          /\ call'[t].pc \in StopPc =>
               call[t].pc \in StopPc /\ call'[t].target = call[t].target /\ call'[t].op = call[t].op
          /\ \A u \in Thread \ {t} : call[u].pc \notin StopPc \cup {"spawn"}
      BY <1>2, CallMoves, Alone DEF Busy, StopPc
    <2>2. CASE Spawn(t)
      <3>1. /\ quiet' = "no" /\ call[t].pc \notin StopPc
            /\ UNCHANGED <<stopRequested, shutdownRequested>>
        BY <2>2 DEF Spawn, StopPc
      <3> QED
        BY <2>1, <3>1 DEF Only, StopPc
    <2>3. CASE SpawnFails(t) \/ Save(t) \/ SaveRaises(t) \/ Prepare(t) \/ Signal(t) \/ Escalate(t)
      <3>1. /\ UNCHANGED <<quiet, child, stopRequested, shutdownRequested>>
            /\ ~starting' \/ starting' = starting
        BY <2>3 DEF SpawnFails, Save, SaveRaises, Prepare, Signal, Escalate
      <3> QED
        BY <2>1, <3>1 DEF Only, StopPc, TypeOK
    <2>4. CASE PrepareRaises(t) \/ GiveUp(t)
      <3>1. StopRaises(t) /\ call[t].pc \in StopPc
        BY <2>4 DEF PrepareRaises, GiveUp, StopPc
      <3>2. quiet' = "no" /\ call'[t].pc \in {"idle", "exit"}
        BY <3>1, EndMoves DEF StopRaises
      <3> QED
        BY <2>1, <3>2 DEF Only, StopPc
    <2>5. CASE Stopped(t)
      <3>1. /\ call[t].pc \in StopPc /\ call[t].target \in reaped /\ StopReturns(t, call[t])
            /\ UNCHANGED <<child, starting, stopRequested, shutdownRequested>> /\ call[t] \in Call
        BY <2>5 DEF Stopped, StopPc, TypeOK
      <3>2. child = NoServe /\ ~starting
        BY <2>1, <3>1 DEF ChildInv, StopPc, TypeOK
      <3>3. /\ call'[t].pc \in {"idle", "exit", "again"}
            /\ quiet' = "shutdown" => quiet = "shutdown" \/ call[t].op = "shutdown"
        BY <3>1, StopReturnMoves
      <3> QED
        BY <2>1, <3>1, <3>2, <3>3 DEF Only, StopPc
    <2> QED
      BY <1>2, <2>2, <2>3, <2>4, <2>5 DEF Working
  <1>3. ASSUME NEW s \in Serve, ReapForgets(s) PROVE StopInv'
    BY <1>3 DEF ReapForgets
  <1>4. ASSUME NEW s \in Serve, ReapWriteFails(s) PROVE StopInv'
    BY <1>4 DEF ReapWriteFails
  <1>5. ASSUME NEW s \in Serve, ReapDecides(s) PROVE StopInv'
    <2>1. \A u \in Thread : call'[u] = call[u] \/ (u = s /\ call'[u].pc = "lock")
      BY <1>5 DEF ReapDecides, TypeOK, Idle
    <2>2. UNCHANGED <<quiet, child, starting, stopRequested, shutdownRequested>>
      BY <1>5 DEF ReapDecides
    <2> QED
      BY <2>1, <2>2 DEF StopPc
  <1>6. ASSUME NEW s \in Serve, ReapReads(s) \/ ReapWrites(s) \/ ReapClears(s) \/ ReapWakes(s)
        PROVE  StopInv'
    BY <1>6 DEF ReapReads, ReapWrites, ReapClears, ReapWakes
  <1>7. ASSUME NEW s \in Serve, Observe(s) \/ ServeDies(s) PROVE StopInv'
    BY <1>7 DEF Observe, ServeDies
  <1>8. CASE DaemonDies
    BY <1>8 DEF DaemonDies, Idle, StopPc
  <1>9. CASE Boot
    BY <1>9 DEF Boot, LifeInv, Idle, StopPc
  <1>10. CASE UNCHANGED vars
    BY <1>10 DEF vars
  <1> HIDE DEF StopInv, bounds, memory, watch, accounts, world, history
  <1> QED
    BY <1>1, <1>2, <1>3, <1>4, <1>5, <1>6, <1>7, <1>8, <1>9, <1>10
       DEF Next, CallStep, Working, Monitor, AtGate

\* The record follows the child, but for a start that overtakes a monitor.
LEMMA RecordStep == TypeOK /\ LifeInv /\ ChildInv /\ RecordInv /\ [Next]_vars => RecordInv'
  <1> SUFFICES ASSUME TypeOK, LifeInv, ChildInv, RecordInv, [Next]_vars PROVE RecordInv'
    OBVIOUS
  <1> USE PoolHook DEF RecordInv, bounds, memory, watch, accounts, world, history
  <1>1. CASE AtGate
    BY <1>1, GateTaken, GateMoves DEF Gate
  <1>2. ASSUME NEW t \in Thread, Spawn(t) PROVE RecordInv'
    <2>1. PICK s \in Serve :
             /\ proc[s] = "unborn" /\ child' = s
             /\ overtaken' = IF \E m \in Serve : mon[m] = "clear" THEN overtaken \cup {s} ELSE overtaken
      BY <1>2 DEF Spawn
    <2>2. mon' = mon /\ mon[s] = "none"
      BY <1>2, <2>1 DEF Spawn, LifeInv
    <2> QED
      BY <2>1, <2>2
  <1>3. ASSUME NEW t \in Thread, Save(t) PROVE RecordInv'
    BY <1>3 DEF Save, ChildInv, TypeOK
  <1>4. ASSUME NEW t \in Thread, Working(t), ~Spawn(t), ~Save(t) PROVE RecordInv'
    <2>1. UNCHANGED <<child, mon, file, overtaken>>
      BY <1>4 DEF Working, SpawnFails, SaveRaises, Prepare, PrepareRaises, StopRaises, Signal,
                  Escalate, GiveUp, Stopped
    <2> QED
      BY <2>1
  <1>5. ASSUME NEW s \in Serve, Monitor(s) PROVE RecordInv'
    BY <1>5 DEF Monitor, ReapReads, ReapWrites, ReapWriteFails, ReapForgets, ReapClears, ReapWakes,
                ReapDecides, TypeOK
  <1>6. ASSUME NEW s \in Serve, Observe(s) \/ ServeDies(s) PROVE RecordInv'
    BY <1>6 DEF Observe, ServeDies
  <1>7. CASE DaemonDies
    BY <1>7 DEF DaemonDies
  <1>8. CASE Boot
    BY <1>8 DEF Boot, LifeInv, TypeOK
  <1>9. CASE UNCHANGED vars
    BY <1>9 DEF vars
  <1> HIDE DEF RecordInv, bounds, memory, watch, accounts, world, history
  <1> QED
    BY <1>1, <1>2, <1>3, <1>4, <1>5, <1>6, <1>7, <1>8, <1>9
       DEF Next, CallStep, Working, AtGate

\* Where receipts come from: a stop of a serve, sealed only while it runs; or a monitor.
LEMMA Receipts ==
    ASSUME TypeOK, [Next]_vars
    PROVE  \/ outbox' = outbox
           \/ \E t \in Thread : Prepare(t)
           \/ \E s \in Serve : ReapWrites(s)
  <1> USE DEF bounds, memory, watch, accounts, world, history
  <1>1. ASSUME NEW t \in Thread, Working(t), ~Prepare(t) PROVE outbox' = outbox
    BY <1>1 DEF Working, Spawn, SpawnFails, Save, SaveRaises, PrepareRaises, StopRaises, Signal,
                Escalate, GiveUp, Stopped
  <1>2. ASSUME NEW s \in Serve, Monitor(s), ~ReapWrites(s) PROVE outbox' = outbox
    BY <1>2 DEF Monitor, ReapReads, ReapWriteFails, ReapForgets, ReapClears, ReapWakes, ReapDecides
  <1>3. ASSUME NEW s \in Serve, AutoStarts(s) \/ Observe(s) \/ ServeDies(s) PROVE outbox' = outbox
    BY <1>3 DEF AutoStarts, Observe, ServeDies
  <1>4. CASE ClientCalls \/ HookStops \/ DaemonDies \/ Boot \/ \E t \in Thread : SwitchStarts(t)
    BY <1>4 DEF ClientCalls, HookStops, DaemonDies, Boot, SwitchStarts
  <1>5. CASE UNCHANGED vars
    BY <1>5 DEF vars
  <1> QED
    BY <1>1, <1>2, <1>3, <1>4, <1>5 DEF Next, CallStep, Working

\* The dead stay dead.  What is remembered as written is forgotten only by a daemon that
\* dies, and a later daemon is not the first.
Lasts ==
    /\ \A s \in Serve : proc[s] = "dead" => proc'[s] = "dead"
    /\ boots' = 1 => boots = 1
    /\ up' /\ boots' = 1 => up /\ durable \subseteq durable'

\* Every step is like that.
LEMMA Lasting ==
    ASSUME TypeOK, [Next]_vars
    PROVE  Lasts
  <1> USE DEF Lasts, bounds, memory, watch, accounts, world, history
  <1>1. ASSUME NEW t \in Thread, Spawn(t) PROVE Lasts
    <2>1. PICK s \in Serve : proc[s] = "unborn" /\ proc' = [proc EXCEPT ![s] = "alive"]
      BY <1>1 DEF Spawn
    <2>2. UNCHANGED <<up, boots, durable>>
      BY <1>1 DEF Spawn
    <2> QED
      BY <2>1, <2>2 DEF TypeOK
  <1>2. ASSUME NEW t \in Thread, Prepare(t) PROVE Lasts
    BY <1>2 DEF Prepare
  <1>3. ASSUME NEW t \in Thread, Working(t), ~Spawn(t), ~Prepare(t) PROVE Lasts
    <2>1. UNCHANGED <<up, boots, durable, proc>>
      BY <1>3 DEF Working, SpawnFails, Save, SaveRaises, PrepareRaises, StopRaises, Signal,
                  Escalate, GiveUp, Stopped
    <2> QED
      BY <2>1
  <1>4. ASSUME NEW s \in Serve, ReapWrites(s) PROVE Lasts
    BY <1>4 DEF ReapWrites
  <1>5. ASSUME NEW s \in Serve, Monitor(s), ~ReapWrites(s) PROVE Lasts
    <2>1. UNCHANGED <<up, boots, durable, proc>>
      BY <1>5 DEF Monitor, ReapReads, ReapWriteFails, ReapForgets, ReapClears, ReapWakes, ReapDecides
    <2> QED
      BY <2>1
  <1>6. ASSUME NEW s \in Serve, AutoStarts(s) \/ Observe(s) PROVE Lasts
    BY <1>6 DEF AutoStarts, Observe
  <1>7. ASSUME NEW s \in Serve, ServeDies(s) PROVE Lasts
    BY <1>7 DEF ServeDies, TypeOK
  <1>8. CASE ClientCalls \/ HookStops \/ \E t \in Thread : SwitchStarts(t)
    <2>1. UNCHANGED <<up, boots, durable, proc>>
      BY <1>8 DEF ClientCalls, HookStops, SwitchStarts
    <2> QED
      BY <2>1
  <1>9. CASE DaemonDies
    BY <1>9 DEF DaemonDies
  <1>10. CASE Boot
    BY <1>10 DEF Boot, TypeOK
  <1>11. CASE UNCHANGED vars
    BY <1>11 DEF vars
  <1> HIDE DEF Lasts, bounds, memory, watch, accounts, world, history
  <1> QED
    BY <1>1, <1>2, <1>3, <1>4, <1>5, <1>6, <1>7, <1>8, <1>9, <1>10,
       <1>11
       DEF Next, CallStep, Working

\* What a stop writes names its target: sealed only by a serve that runs.
LEMMA PrepareWrites ==
    ASSUME TypeOK, TargetInv, NEW t \in Thread, Prepare(t)
    PROVE  \E r \in Receipt :
              /\ outbox' = outbox \cup {r} /\ r.of = call[t].target
              /\ r.kind \in {"sealed", "degraded"} /\ (r.kind = "sealed" => proc[r.of] = "alive")
              /\ durable' = durable \cup {call[t].target} /\ proc' = proc
  <1>1. PICK r \in StopReceipts(call[t].target, call[t].force) : outbox' = outbox \cup {r}
    BY DEF Prepare
  <1>2. call[t].target \in Serve
    BY DEF Prepare, TargetInv, StopPc, TypeOK, Call
  <1>3. r \in Receipt /\ r.of = call[t].target /\ r.kind \in {"sealed", "degraded"}
    BY <1>1, <1>2 DEF StopReceipts, Receipt
  <1>4. r.kind = "sealed" => proc[r.of] = "alive"
    BY <1>1 DEF StopReceipts
  <1>5. durable' = durable \cup {call[t].target} /\ proc' = proc
    BY DEF Prepare, world
  <1> QED
    BY <1>1, <1>3, <1>4, <1>5

\* What a monitor writes names its serve, which is dead and not known to be accounted for.
LEMMA ReapWritten ==
    ASSUME TypeOK, LifeInv, NEW s \in Serve, ReapWrites(s)
    PROVE  \/ outbox' = outbox
           \/ \E r \in Receipt : /\ outbox' = outbox \cup {r} /\ r.of = s /\ r.kind = "crash"
                                 /\ up /\ s \notin durable /\ proc[s] = "dead"
  <1>1. up /\ proc[s] = "dead"
    BY DEF ReapWrites, LifeInv
  <1>2. CASE s \notin durable
    <2>1. outbox' = outbox \cup {[of |-> s, kind |-> "crash", from |-> lastStats[s]]}
      BY <1>2 DEF ReapWrites
    <2>2. [of |-> s, kind |-> "crash", from |-> lastStats[s]] \in Receipt
      BY DEF Receipt, TypeOK
    <2> QED
      BY <1>1, <1>2, <2>1, <2>2
  <1> QED
    BY <1>2 DEF ReapWrites

\* Crash receipts are of the dead, and the first daemon knows what it sealed.
LEMMA ReceiptStep == TypeOK /\ TargetInv /\ LifeInv /\ ReceiptInv /\ [Next]_vars => ReceiptInv'
  <1> SUFFICES ASSUME TypeOK, TargetInv, LifeInv, ReceiptInv, [Next]_vars PROVE ReceiptInv'
    OBVIOUS
  <1> USE DEF ReceiptInv
  <1>1. Lasts
    BY Lasting
  <1>2. \A r \in outbox : r.of \in Serve
    BY DEF TypeOK, Receipt
  <1>3. CASE outbox' = outbox
    BY <1>1, <1>2, <1>3 DEF Lasts
  <1>4. ASSUME NEW t \in Thread, Prepare(t) PROVE ReceiptInv'
    <2>1. PICK r \in Receipt : /\ outbox' = outbox \cup {r} /\ r.of = call[t].target
                               /\ r.kind \in {"sealed", "degraded"}
                               /\ durable' = durable \cup {call[t].target}
      BY <1>4, PrepareWrites
    <2> QED
      BY <1>1, <1>2, <2>1 DEF Lasts
  <1>5. ASSUME NEW s \in Serve, ReapWrites(s) PROVE ReceiptInv'
    BY <1>1, <1>2, <1>5, ReapWritten DEF Lasts
  <1> HIDE DEF ReceiptInv
  <1> QED
    BY <1>3, <1>4, <1>5, Receipts

\* Only a stop that has just written its receipt comes to signal.
LEMMA FirstStep ==
    TypeOK /\ TargetInv /\ LifeInv /\ ReceiptFirst /\ [Next]_vars => ReceiptFirst'
  <1> SUFFICES ASSUME TypeOK, TargetInv, LifeInv, ReceiptFirst, [Next]_vars PROVE ReceiptFirst'
    OBVIOUS
  <1> USE DEF ReceiptFirst, Receipted
  <1>1. outbox \subseteq outbox'
    BY Receipts, PrepareWrites, ReapWritten
  <1>2. ASSUME NEW t \in Thread, NEW c \in Call, Gate(t, c) PROVE ReceiptFirst'
    BY <1>1, <1>2, GateMoves DEF Only
  <1>3. ASSUME NEW t \in Thread, Working(t) PROVE ReceiptFirst'
    <2>1. /\ Only(t)
          /\ call'[t].pc \in {"signal", "grace", "killed"} =>
                /\ call'[t].target = call[t].target
                /\ Prepare(t) \/ call[t].pc \in {"signal", "grace", "killed"}
      BY <1>3, CallMoves DEF StopPc
    <2>2. Prepare(t) => \E r \in outbox' : r.of = call[t].target
      BY PrepareWrites
    <2> QED
      BY <1>1, <2>1, <2>2 DEF Only
  <1>4. CASE DaemonDies
    BY <1>4 DEF DaemonDies, Idle
  <1>5. ASSUME NEW s \in Serve, Only(s), call'[s].pc = "lock" PROVE ReceiptFirst'
    BY <1>1, <1>5 DEF Only
  <1>6. CASE call' = call
    BY <1>1, <1>6
  <1>7. CASE UNCHANGED vars
    BY <1>6, <1>7 DEF vars
  <1> HIDE DEF ReceiptFirst, Receipted
  <1> QED
    BY <1>2, <1>3, <1>4, <1>5, <1>6, <1>7, Moves

\* A sealed serve is remembered when its monitor comes, and a crashed one cannot be sealed.
LEMMA SealedStep ==
    TypeOK /\ TargetInv /\ LifeInv /\ ReceiptInv /\ SealedIsFinal /\ [Next]_vars => SealedIsFinal'
  <1> SUFFICES ASSUME TypeOK, TargetInv, LifeInv, ReceiptInv, SealedIsFinal, [Next]_vars
               PROVE  SealedIsFinal'
    OBVIOUS
  <1> USE DEF SealedIsFinal
  <1>1. boots' = 1 => boots = 1
    BY Lasting DEF Lasts
  <1>2. CASE outbox' = outbox
    BY <1>1, <1>2
  <1>3. ASSUME NEW t \in Thread, Prepare(t) PROVE SealedIsFinal'
    <2>1. PICK r \in Receipt : /\ outbox' = outbox \cup {r} /\ r.kind \in {"sealed", "degraded"}
                               /\ r.kind = "sealed" => proc[r.of] = "alive"
      BY <1>3, PrepareWrites
    <2>2. r.kind = "sealed" => \A q \in outbox : q.kind = "crash" => q.of # r.of
      BY <2>1 DEF ReceiptInv
    <2> QED
      BY <1>1, <2>1, <2>2
  <1>4. ASSUME NEW s \in Serve, ReapWrites(s) PROVE SealedIsFinal'
    <2>1. ASSUME NEW r \in Receipt, outbox' = outbox \cup {r}, r.of = s, r.kind = "crash",
                 up, s \notin durable
          PROVE  SealedIsFinal'
      <3>1. boots = 1 => \A q \in outbox : q.kind = "sealed" => q.of # s
        BY <2>1 DEF ReceiptInv
      <3> QED
        BY <1>1, <2>1, <3>1
    <2> QED
      BY <1>2, <1>4, <2>1, ReapWritten
  <1> HIDE DEF SealedIsFinal
  <1> QED
    BY <1>2, <1>3, <1>4, Receipts

----------------------------------------------------------------------------
\* The inductive invariant: the types, who holds what, and the five contracts.
IInv ==
    /\ TypeOK /\ TargetInv /\ LifeInv /\ LockInv /\ ChildInv
    /\ OneServe /\ StopInv /\ RecordInv /\ ReceiptInv /\ ReceiptsHold

\* The first state has every part.
LEMMA InitInv == Init => IInv
  <1> SUFFICES ASSUME Init PROVE IInv
    OBVIOUS
  <1>1. TypeOK
    BY InitType
  <1>2. TargetInv /\ LockInv
    BY DEF Init, TargetInv, LockInv, Busy, Idle, StopPc
  <1>3. LifeInv /\ ChildInv
    BY PoolHook DEF Init, LifeInv, ChildInv, Idle, StopPc
  <1>4. OneServe /\ RecordInv /\ ReceiptInv
    BY DEF Init, OneServe, RecordInv, ReceiptInv
  <1>5. StopInv
    BY DEF Init, StopInv, Idle, StopPc
  <1>6. ReceiptsHold
    BY DEF Init, ReceiptsHold, ReceiptFirst, SealedIsFinal, Idle
  <1> QED
    BY <1>1, <1>2, <1>3, <1>4, <1>5, <1>6 DEF IInv

\* Every step keeps every part.
LEMMA StepInv == IInv /\ [Next]_vars => IInv'
  BY TypeStep, TargetStep, LifeStep, LockStep, ChildStep, OneServeStep, StopStep, RecordStep,
     ReceiptStep, FirstStep, SealedStep DEF IInv, ReceiptsHold

\* So every reachable state has them.
LEMMA Invariant == Spec => []IInv
  BY InitInv, StepInv, PTL DEF Spec

\* Every variable keeps its type: the supervisor's fields, the threads, the monitors, the
\* receipts and the serves.
THEOREM TypeCorrect == Spec => []TypeOK
  <1>1. IInv => TypeOK
    BY DEF IInv
  <1> QED
    BY <1>1, Invariant, PTL

\* For any number of serves, calls and daemon lives: of the serves a daemon starts at most one
\* runs, and the daemon knows it, through failed saves, failed stops and auto-restarts.
THEOREM AtMostOneServe == Spec => []OneServe
  <1>1. IInv => OneServe
    BY DEF IInv
  <1> QED
    BY <1>1, Invariant, PTL

\* Once a stop or a shutdown has returned, no restart decided before or after it brings a
\* serve back.
THEOREM StopIsFinal == Spec => []StopHolds
  <1>1. IInv => StopHolds
    <2> SUFFICES ASSUME IInv, quiet # "no" PROVE StopHolds
      BY DEF StopHolds
    <2>1. child = NoServe /\ ~starting
      BY DEF IInv, StopInv
    <2>2. up
      BY DEF IInv, LifeInv
    <2>3. boots = 1 => \A s \in Serve : proc[s] # "alive"
      BY <2>1, <2>2, PoolHook DEF IInv, OneServe
    <2> QED
      BY <2>1, <2>3 DEF StopHolds
  <1> QED
    BY <1>1, Invariant, PTL

\* No signal is sent before a receipt is written, and a serve whose totals were sealed is not
\* accounted for again as a crash.
THEOREM EveryStopAccounted == Spec => []ReceiptsHold
  <1>1. IInv => ReceiptsHold
    BY DEF IInv
  <1> QED
    BY <1>1, Invariant, PTL

\* A watched child is on record for the next daemon whenever no call is under way, but for a
\* start that overtakes the monitor of a crashed serve.
THEOREM ChildRecorded == Spec => []Recorded
  <1>1. IInv => Recorded
    BY DEF IInv, RecordInv, Recorded
  <1> QED
    BY <1>1, Invariant, PTL
=============================================================================
