------------------------ MODULE MaintenanceGateProofs ------------------------
(***************************************************************************)
(* The safety of the maintenance gate, for any number of rebuilds and      *)
(* reloads.  The inductive invariant IInv at the end adds to the types     *)
(* what a handler has seen when it writes (HandInv), what workers and      *)
(* supervisor threads have to do with the generation (LifeInv, ThreadInv), *)
(* where the one rebuild is (PastInv, OneRebuild) and what a stop holds    *)
(* (StopInv); each is preserved by a lemma of its own.                     *)
(***************************************************************************)
EXTENDS MaintenanceGate, SequenceTheorems, TLAPS

----------------------------------------------------------------------------
(* Types.                                                                  *)

\* What a handler of the loop keeps between its check and its write.
Hand == [at : {"idle", "rebuild", "reload", "stop", "resolve"}, saw : Gates \X BOOLEAN, to : Gates]

\* What a queue holds after its ends have moved.
LEMMA Queue ==
    ASSUME NEW S, NEW q \in Seq(S)
    PROVE  /\ \A e \in S : /\ Append(q, e) \in Seq(S) /\ Len(Append(q, e)) = Len(q) + 1
                           /\ DOMAIN Append(q, e) = 1..(Len(q) + 1)
                           /\ \A i \in DOMAIN q : Append(q, e)[i] = q[i]
                           /\ Append(q, e)[Len(q) + 1] = e
           /\ q # <<>> => /\ Head(q) \in S /\ Head(q) = q[1] /\ Tail(q) \in Seq(S) /\ 1 \in DOMAIN q
                          /\ DOMAIN Tail(q) = 1..(Len(q) - 1)
                          /\ \A i \in DOMAIN Tail(q) : i + 1 \in DOMAIN q /\ Tail(q)[i] = q[i + 1]
           /\ DOMAIN q = 1..Len(q) /\ Len(q) \in Nat
           /\ \A i \in DOMAIN q : q[i] \in S
  OBVIOUS

\* A handler that decides leaves a typed record.
LEMMA DecideType ==
    ASSUME TypeOK, NEW at \in {"rebuild", "reload", "stop", "resolve"}, NEW to \in Gates,
           Decide(at, to)
    PROVE  hand' \in Hand
  BY DEF TypeOK, Decide, Hand

\* So does one that has written, and the gate gets a word of the gate.
LEMMA WritesType ==
    ASSUME TypeOK, NEW at, Writes(at)
    PROVE  hand' \in Hand /\ gate' \in Gates /\ torn' \in BOOLEAN
  BY DEF TypeOK, Writes, Hand, Idle, Gates, Opening, Latching

\* A relaunch, also one that fails: the old workers are gone, of the queues nothing is new.
LEMMA Relaunches ==
    ASSUME NEW g \in Generation, Restart(g) \/ RestartFails(g)
    PROVE  /\ worker[g] = "pending"
           /\ UNCHANGED <<gate, gen, fatal, loop, reaped, wake, exiting, down, history>>
           /\ asked' \in {<<>>, asked} /\ answers' \in {<<>>, answers} /\ hung' \subseteq hung
           /\ \E running \in {"dead", "loading"} :
                 worker' = [h \in Generation |->
                     IF h = g THEN running ELSE IF h \in reaped THEN "dead" ELSE worker[h]]
           /\ supervisor' \in {supervisor, [supervisor EXCEPT ![g] = "drain"]}
  <1>1. PICK running \in {"dead", "loading"} : Replaces(g, running)
    BY DEF Restart, RestartFails
  <1>2. supervisor' \in {supervisor, [supervisor EXCEPT ![g] = "drain"]}
    BY DEF Restart, RestartFails
  <1> QED
    BY <1>1, <1>2 DEF Replaces

\* The first state is typed, with nobody on the loop and one generation.
LEMMA InitType == Init => TypeOK /\ LifeInv /\ HandInv
  <1> SUFFICES ASSUME Init PROVE TypeOK /\ LifeInv /\ HandInv
    OBVIOUS
  <1>1. 0 \in Generation /\ MaxReloads \in Nat /\ MaxRebuilds \in Nat
    BY BoundsAssumption DEF Generation
  <1>2. TypeOK
    <2>1. hand \in Hand
      BY DEF Init, Idle, Gates, Hand
    <2>2. worker \in [Generation -> {"none", "pending", "loading", "ready", "dead"}]
      BY DEF Init
    <2>3. supervisor \in [Generation -> {"none", "drain", "ready", "watch", "died", "fatal", "failed", "done"}]
      BY DEF Init
    <2>4. asked \in Seq(Request) /\ answers \in Seq(Result)
      <3>1. asked = <<>> /\ answers = <<>>
        BY DEF Init
      <3> QED
        BY <3>1, EmptySeq
    <2>5. gen \in Generation /\ waiters \subseteq 1..rebuilds /\ reaped \subseteq 0..gen
          /\ sending \subseteq Request /\ rebuilds \in 0..MaxRebuilds
      BY <1>1 DEF Init
    <2> QED
      BY <2>1, <2>2, <2>3, <2>4, <2>5 DEF Init, TypeOK, Gates, Hand
  <1>3. LifeInv
    BY <1>1 DEF Init, LifeInv, Generation
  <1>4. HandInv
    BY DEF Init, HandInv, Idle
  <1> QED
    BY <1>2, <1>3, <1>4

\* Every step keeps the types.
LEMMA TypeStep == TypeOK /\ HandInv /\ LifeInv /\ [Next]_vars => TypeOK'
  <1> SUFFICES ASSUME TypeOK, HandInv, LifeInv, [Next]_vars PROVE TypeOK'
    OBVIOUS
  <1> USE BoundsAssumption
  <1>1. CASE RebuildChecks
    <2>1. hand' \in Hand
      BY <1>1, DecideType DEF RebuildChecks, Gates
    <2> QED
      BY <1>1, <2>1 DEF RebuildChecks, TypeOK, Hand, backend, threads, history
  <1>2. CASE RebuildSets
    <2>1. [id |-> rebuilds, gen |-> gen] \in Request
      BY <1>2 DEF RebuildSets, Writes, HandInv, TypeOK, Request, Rebuild
    <2> QED
      BY <1>2, <2>1, WritesType DEF RebuildSets, TypeOK, Hand, backend, threads
  <1>3. ASSUME NEW r \in Request, RebuildSent(r) PROVE TypeOK'
    BY <1>3, Queue DEF RebuildSent, TypeOK, threads, history
  <1>4. ASSUME NEW r \in Request, SendFails(r) PROVE TypeOK'
    BY <1>4 DEF SendFails, TypeOK, backend, threads, Gates, Opening
  <1>5. ASSUME NEW r \in Rebuild, RebuildTimesOut(r) PROVE TypeOK'
    BY <1>5 DEF RebuildTimesOut, TypeOK, backend, threads, history
  <1>6. CASE ResolveChecks
    <2>1. hand' \in Hand
      BY <1>6, DecideType DEF ResolveChecks, Gates, Verdict
    <2>2. answers' \in Seq(Result)
      BY <1>6, Queue DEF ResolveChecks, TypeOK
    <2> QED
      BY <1>6, <2>1, <2>2 DEF ResolveChecks, TypeOK, Hand, threads
  <1>7. CASE ResolveSets
    BY <1>7, WritesType DEF ResolveSets, TypeOK, Hand, backend, threads
  <1>8. CASE WakePending
    BY <1>8 DEF WakePending, TypeOK, backend, history
  <1>9. CASE ReloadChecks
    <2>1. hand' \in Hand
      BY <1>9, DecideType DEF ReloadChecks, Gates
    <2> QED
      BY <1>9, <2>1 DEF ReloadChecks, TypeOK, Hand, backend, threads, history
  <1>10. CASE ReloadSets
    <2>1. gen \in Nat /\ gen < MaxReloads /\ gen + 1 \in Generation
      BY <1>10 DEF ReloadSets, Writes, HandInv, TypeOK, Generation
    <2>2. \A g \in Generation : worker[g] # "none" => g \in 0..gen
      BY <2>1 DEF LifeInv, Generation
    <2>3. reaped' \subseteq 0..gen'
      <3>1. reaped' = reaped \cup {g \in Generation : worker[g] # "none" /\ supervisor[g] # "none"}
        BY <1>10 DEF ReloadSets
      <3>2. reaped' \subseteq 0..gen
        BY <2>2, <3>1 DEF TypeOK
      <3>3. gen' = gen + 1
        BY <1>10 DEF ReloadSets
      <3> QED
        BY <2>1, <3>2, <3>3
    <2>4. {draining', sealed'} \subseteq 0..gen' \cup {None}
      BY <1>10, <2>1 DEF ReloadSets, TypeOK
    <2>5. worker' \in [Generation -> {"none", "pending", "loading", "ready", "dead"}]
      BY <1>10 DEF ReloadSets, TypeOK
    <2> QED
      BY <1>10, <2>1, <2>3, <2>4, <2>5, WritesType DEF ReloadSets, TypeOK, Hand, threads
  <1>11. CASE StopChecks
    <2>1. hand' \in Hand
      BY <1>11, DecideType DEF StopChecks, Gates
    <2> QED
      BY <1>11, <2>1 DEF StopChecks, TypeOK, Hand, backend, threads, history
  <1>12. CASE StopSets
    <2>1. gen \in 0..gen
      BY DEF TypeOK, Generation
    <2> QED
      BY <1>12, <2>1, WritesType DEF StopSets, TypeOK, Hand, backend, threads
  <1>13. CASE StopSeals \/ StopGivesUp
    <2>1. CASE StopSeals
      BY <2>1 DEF StopSeals, TypeOK, backend, threads, history
    <2>2. CASE StopGivesUp
      BY <2>2 DEF StopGivesUp, TypeOK, backend, threads, history
    <2> QED
      BY <1>13, <2>1, <2>2
  <1>14. ASSUME NEW g \in Generation, Restart(g) \/ RestartFails(g) PROVE TypeOK'
    <2>1. worker' \in [Generation -> {"none", "pending", "loading", "ready", "dead"}]
      BY <1>14, Relaunches DEF TypeOK
    <2>2. asked' \in Seq(Request) /\ answers' \in Seq(Result)
      <3>1. asked' \in {<<>>, asked} /\ answers' \in {<<>>, answers}
        BY <1>14, Relaunches
      <3>2. asked \in Seq(Request) /\ answers \in Seq(Result)
        BY DEF TypeOK
      <3> QED
        BY <3>1, <3>2, EmptySeq
    <2>3. supervisor' \in [Generation -> {"none", "drain", "ready", "watch", "died", "fatal", "failed", "done"}]
      BY <1>14, Relaunches DEF TypeOK
    <2>4. UNCHANGED <<gate, gen, fatal, loop, reaped, wake, exiting, down, history>> /\ hung' \subseteq hung
      BY <1>14, Relaunches
    <2> QED
      BY <2>1, <2>2, <2>3, <2>4 DEF TypeOK, loop, history
  <1>15. ASSUME NEW g \in Generation, Loaded(g) \/ Dies(g) \/ Hangs(g) PROVE TypeOK'
    BY <1>15 DEF Loaded, Dies, Hangs, TypeOK, loop, threads, history
  <1>16. ASSUME NEW g \in Generation, Answers(g) PROVE TypeOK'
    <2>1. PICK status \in {"ok", "busy", "failed"} :
             answers' = Append(answers, [id |-> Head(asked).id, gen |-> Head(asked).gen, status |-> status])
      BY <1>16 DEF Answers
    <2>2. Head(asked) \in Request /\ asked' \in Seq(Request)
      BY <1>16, Queue DEF Answers, TypeOK
    <2>3. [id |-> Head(asked).id, gen |-> Head(asked).gen, status |-> status] \in Result
      BY <2>2 DEF Request, Result
    <2>4. answers' \in Seq(Result)
      BY <2>1, <2>3, Queue DEF TypeOK
    <2> QED
      BY <1>16, <2>2, <2>4 DEF Answers, TypeOK, loop, threads, history
  <1>17. ASSUME NEW g \in Generation, Supervisor(g) PROVE TypeOK'
    <2>1. supervisor' \in [Generation -> {"none", "drain", "ready", "watch", "died", "fatal", "failed", "done"}]
      BY <1>17 DEF Supervisor, ReadyChecks, ReadySets, SeesDeath, LatchesFatal, LatchesFailed,
         WakesWaiters, Supervises, TypeOK
    <2>2. gate' \in Gates /\ {fatal', wake', exiting'} \subseteq BOOLEAN
      BY <1>17 DEF Supervisor, ReadyChecks, ReadySets, SeesDeath, LatchesFatal, LatchesFailed,
         WakesWaiters, TypeOK, Gates
    <2>3. UNCHANGED <<gen, loop, backend, down, history>>
      BY <1>17 DEF Supervisor, ReadyChecks, ReadySets, SeesDeath, LatchesFatal, LatchesFailed,
         WakesWaiters
    <2> QED
      BY <2>1, <2>2, <2>3 DEF TypeOK, loop, backend, history
  <1>18. CASE Exits
    BY <1>18 DEF Exits, TypeOK, loop, backend, history
  <1>19. CASE UNCHANGED vars
    BY <1>19 DEF vars, TypeOK, loop, backend, threads, history
  <1> QED
    BY <1>1, <1>2, <1>3, <1>4, <1>5, <1>6, <1>7, <1>8, <1>9, <1>10, <1>11, <1>12, <1>13, <1>14,
       <1>15, <1>16, <1>17, <1>18, <1>19 DEF Next, Writing, Sending, Working

----------------------------------------------------------------------------
(* The loop, the workers and the supervisor threads.                       *)

\* Between two awaits a handler is alone: what it has seen still holds of what it writes.
LEMMA HandStep == TypeOK /\ HandInv /\ [Next]_vars => HandInv'
  <1> SUFFICES ASSUME TypeOK, HandInv, [Next]_vars PROVE HandInv'
    OBVIOUS
  <1>1. CASE RebuildChecks
    BY <1>1 DEF RebuildChecks, Decide, HandInv, TypeOK
  <1>2. CASE ReloadChecks
    BY <1>2 DEF ReloadChecks, Decide, HandInv
  <1>3. CASE StopChecks
    BY <1>3 DEF StopChecks, Decide, HandInv
  <1>4. CASE ResolveChecks
    BY <1>4 DEF ResolveChecks, Decide, Verdict, HandInv
  <1>5. CASE Writing
    <2>1. hand' = Idle
      BY <1>5 DEF Writing, RebuildSets, ResolveSets, ReloadSets, StopSets, Writes
    <2> QED
      BY <2>1 DEF Idle, HandInv
  <1>6. CASE UNCHANGED <<hand, gen, rebuilds>>
    BY <1>6 DEF HandInv
  <1>7. CASE StopSeals \/ StopGivesUp \/ WakePending \/ Exits \/ UNCHANGED vars
    BY <1>6, <1>7 DEF StopSeals, StopGivesUp, WakePending, Exits, vars, loop
  <1>8. ASSUME NEW r, RebuildSent(r) \/ SendFails(r) \/ RebuildTimesOut(r) PROVE HandInv'
    BY <1>6, <1>8 DEF RebuildSent, SendFails, RebuildTimesOut
  <1>9. ASSUME NEW g \in Generation, Supervisor(g) \/ Working(g) \/ Dies(g) \/ Hangs(g) PROVE HandInv'
    BY <1>6, <1>9 DEF Supervisor, ReadyChecks, ReadySets, SeesDeath, LatchesFatal, LatchesFailed,
       WakesWaiters, Working, Restart, RestartFails, Replaces, Loaded, Answers, Dies, Hangs, loop
  <1> QED
    BY <1>1, <1>2, <1>3, <1>4, <1>5, <1>7, <1>8, <1>9 DEF Next, Sending

\* The steps of the loop other than a reload leave the workers and the threads alone.
LEMMA LoopLeaves ==
    ASSUME \/ RebuildChecks \/ ReloadChecks \/ StopChecks \/ StopSeals \/ StopGivesUp
           \/ RebuildSets \/ ResolveSets \/ StopSets \/ ResolveChecks \/ WakePending \/ Exits
           \/ Sending \/ (\E r \in Rebuild : RebuildTimesOut(r)) \/ UNCHANGED vars
    PROVE  UNCHANGED <<gen, fatal, worker, reaped, supervisor>>
  <1>1. CASE RebuildChecks \/ ReloadChecks \/ StopChecks \/ StopSeals \/ StopGivesUp
    BY <1>1 DEF RebuildChecks, ReloadChecks, StopChecks, StopSeals, StopGivesUp, backend, threads
  <1>2. CASE RebuildSets \/ ResolveSets \/ StopSets \/ ResolveChecks \/ WakePending \/ Exits
    BY <1>2 DEF RebuildSets, ResolveSets, StopSets, ResolveChecks, WakePending, Exits, backend, threads
  <1>3. CASE Sending \/ (\E r \in Rebuild : RebuildTimesOut(r)) \/ UNCHANGED vars
    BY <1>3 DEF Sending, RebuildSent, SendFails, RebuildTimesOut, vars, backend, threads
  <1> QED
    BY <1>1, <1>2, <1>3

\* Workers come up with their generation, supervisors with their workers.
LEMMA LifeStep == TypeOK /\ HandInv /\ LifeInv /\ [Next]_vars => LifeInv'
  <1> SUFFICES ASSUME TypeOK, HandInv, LifeInv, [Next]_vars PROVE LifeInv'
    OBVIOUS
  <1>1. CASE UNCHANGED <<gen, worker, supervisor>>
    BY <1>1 DEF LifeInv
  <1>2. CASE ReloadSets
    <2>1. gen + 1 \in Generation /\ gen' = gen + 1 /\ gen \in Nat /\ Generation \subseteq Nat
      BY <1>2, BoundsAssumption DEF ReloadSets, Writes, HandInv, TypeOK, Generation
    <2>2. worker' = [worker EXCEPT ![gen + 1] = "pending"] /\ supervisor' = supervisor
      BY <1>2 DEF ReloadSets, threads
    <2>3. worker[gen + 1] = "none" /\ supervisor[gen + 1] = "none"
      BY <2>1 DEF LifeInv
    <2> QED
      BY <2>1, <2>2, <2>3 DEF LifeInv, TypeOK
  <1>3. ASSUME NEW g \in Generation, Restart(g) \/ RestartFails(g) PROVE LifeInv'
    <2>1. /\ supervisor' \in {supervisor, [supervisor EXCEPT ![g] = "drain"]}
          /\ gen' = gen /\ worker[g] = "pending"
      BY <1>3, Relaunches
    <2>2. PICK running \in {"dead", "loading"} :
             worker' = [h \in Generation |->
                 IF h = g THEN running ELSE IF h \in reaped THEN "dead" ELSE worker[h]]
      BY <1>3, Relaunches
    <2>3. \A h \in reaped : h <= gen
      BY BoundsAssumption DEF TypeOK, Generation
    <2>4. g <= gen
      BY <2>1, BoundsAssumption DEF LifeInv, TypeOK, Generation
    <2>5. supervisor[g] \in {"none", "drain"}
      BY <2>1 DEF LifeInv
    <2> QED
      BY <2>1, <2>2, <2>3, <2>4, <2>5, BoundsAssumption DEF LifeInv, TypeOK, Generation
  <1>4. ASSUME NEW g \in Generation, Loaded(g) \/ Dies(g) \/ Hangs(g) PROVE LifeInv'
    BY <1>4 DEF Loaded, Dies, Hangs, threads, LifeInv, TypeOK
  <1>5. ASSUME NEW g \in Generation, Answers(g) PROVE LifeInv'
    BY <1>1, <1>5 DEF Answers, threads
  <1>6. ASSUME NEW g \in Generation, Supervisor(g) PROVE LifeInv'
    <2>1. /\ UNCHANGED <<gen, worker>>
          /\ \E to \in {"ready", "watch", "died", "done", "fatal", "failed"} :
                supervisor' = [supervisor EXCEPT ![g] = to]
          /\ worker[g] \in {"ready", "dead"} \/ supervisor[g] \notin {"none", "drain"}
      BY <1>6 DEF Supervisor, ReadyChecks, ReadySets, SeesDeath, LatchesFatal, LatchesFailed,
         WakesWaiters, Supervises, backend
    <2> QED
      BY <2>1 DEF LifeInv, TypeOK
  <1> QED
    BY <1>1, <1>2, <1>3, <1>4, <1>5, <1>6, LoopLeaves DEF Next, Writing, Working

\* The two excuses stay true once they are.
LEMMA HistoryGrows == TypeOK /\ [Next]_vars => (torn => torn') /\ (stale => stale')
  <1> SUFFICES ASSUME TypeOK, [Next]_vars PROVE (torn => torn') /\ (stale => stale')
    OBVIOUS
  <1>1. CASE Writing
    <2>1. stale' = stale /\ \E at \in {"rebuild", "resolve", "reload", "stop"} : Writes(at)
      BY <1>1 DEF Writing, RebuildSets, ResolveSets, ReloadSets, StopSets
    <2>2. torn => torn'
      BY <2>1, Zenon DEF Writes
    <2> QED
      BY <2>1, <2>2
  <1>2. CASE Sending
    <2>1. stale' = stale
      BY <1>2 DEF Sending, RebuildSent, SendFails, history
    <2>2. torn => torn'
      BY <1>2, Zenon DEF Sending, RebuildSent, SendFails, history
    <2> QED
      BY <2>1, <2>2
  <1>3. CASE ResolveChecks
    BY <1>3 DEF ResolveChecks
  <1>4. CASE RebuildChecks \/ ReloadChecks \/ StopChecks \/ StopSeals \/ StopGivesUp \/ WakePending
             \/ Exits \/ (\E r \in Rebuild : RebuildTimesOut(r)) \/ UNCHANGED vars
    BY <1>4 DEF RebuildChecks, ReloadChecks, StopChecks, StopSeals, StopGivesUp, WakePending, Exits,
       RebuildTimesOut, vars, history
  <1>5. ASSUME NEW g \in Generation, Supervisor(g) \/ Working(g) \/ Dies(g) \/ Hangs(g)
        PROVE  UNCHANGED history
    BY <1>5 DEF Supervisor, ReadyChecks, ReadySets, SeesDeath, LatchesFatal, LatchesFailed,
       WakesWaiters, Working, Restart, RestartFails, Replaces, Loaded, Answers, Dies, Hangs
  <1> QED
    BY <1>1, <1>2, <1>3, <1>4, <1>5 DEF Next, history

\* A step of the loop that moves the gate under nobody's write: no supervisor is opening it.
LEMMA LoopWrites ==
    ASSUME ~torn',
           RebuildChecks \/ ReloadChecks \/ StopChecks \/ StopSeals \/ StopGivesUp
           \/ RebuildSets \/ ResolveSets \/ StopSets \/ ResolveChecks \/ WakePending \/ Exits
           \/ Sending \/ (\E r \in Rebuild : RebuildTimesOut(r)) \/ UNCHANGED vars
    PROVE  gate' = gate \/ ~Opening
  <1>1. CASE RebuildChecks \/ ReloadChecks \/ StopChecks \/ StopSeals \/ StopGivesUp
    BY <1>1 DEF RebuildChecks, ReloadChecks, StopChecks, StopSeals, StopGivesUp
  <1>2. CASE RebuildSets \/ ResolveSets \/ StopSets \/ ResolveChecks \/ WakePending \/ Exits
    BY <1>2 DEF RebuildSets, ResolveSets, StopSets, Writes, ResolveChecks, WakePending, Exits
  <1>3. CASE Sending \/ (\E r \in Rebuild : RebuildTimesOut(r)) \/ UNCHANGED vars
    BY <1>3 DEF Sending, RebuildSent, SendFails, RebuildTimesOut, vars
  <1> QED
    BY <1>1, <1>2, <1>3

\* A supervisor that is about to write belongs to the current workers, unless it has been
\* overtaken.
LEMMA ThreadStep == TypeOK /\ HandInv /\ LifeInv /\ ThreadInv /\ [Next]_vars => ThreadInv'
  <1> SUFFICES ASSUME TypeOK, HandInv, LifeInv, ThreadInv, [Next]_vars, ~torn' PROVE ThreadInv'
    BY DEF ThreadInv
  <1>1. /\ ~torn
        /\ \A g \in Generation : supervisor[g] \in {"ready", "died", "fatal"} => g = gen
        /\ fatal => supervisor[gen] \in {"fatal", "failed", "done"}
        /\ supervisor[gen] = "fatal" => fatal
        /\ supervisor[gen] = "ready" => gate = "loading"
    BY HistoryGrows DEF ThreadInv
  <1>2. ASSUME UNCHANGED <<gen, fatal, supervisor>>, gate' = gate \/ ~Opening PROVE ThreadInv'
    BY <1>1, <1>2 DEF ThreadInv, Opening
  <1>3. CASE ReloadSets
    <2>1. gen + 1 \in Generation /\ gen' = gen + 1 /\ gen \in Nat /\ Generation \subseteq Nat
      BY <1>3, BoundsAssumption DEF ReloadSets, Writes, HandInv, TypeOK, Generation
    <2>2. ~fatal' /\ supervisor' = supervisor /\ supervisor[gen] \notin {"ready", "died", "fatal"}
      BY <1>3 DEF ReloadSets, Writes, threads, Opening, Latching
    <2>3. supervisor[gen + 1] = "none"
      BY <2>1 DEF LifeInv
    <2> QED
      BY <1>1, <2>1, <2>2, <2>3 DEF ThreadInv
  <1>4. ASSUME NEW g \in Generation, Restart(g) \/ RestartFails(g) PROVE ThreadInv'
    <2>1. /\ supervisor' \in {supervisor, [supervisor EXCEPT ![g] = "drain"]} /\ worker[g] = "pending"
          /\ UNCHANGED <<gate, gen, fatal>>
      BY <1>4, Relaunches
    <2>2. supervisor[g] \in {"none", "drain"}
      BY <2>1 DEF LifeInv
    <2> QED
      BY <1>1, <2>1, <2>2 DEF ThreadInv, TypeOK
  <1>5. ASSUME NEW g \in Generation, Loaded(g) \/ Dies(g) \/ Hangs(g) \/ Answers(g) PROVE ThreadInv'
    BY <1>2, <1>5 DEF Loaded, Dies, Hangs, Answers, threads
  <1>6. ASSUME NEW g \in Generation, Supervisor(g) PROVE ThreadInv'
    <2>1. CASE ReadyChecks(g)
      BY <1>1, <2>1 DEF ReadyChecks, Supervises, ThreadInv, TypeOK
    <2>2. CASE ReadySets(g)
      BY <1>1, <2>2 DEF ReadySets, Supervises, ThreadInv, TypeOK
    <2>3. CASE SeesDeath(g)
      BY <1>1, <2>3 DEF SeesDeath, Supervises, ThreadInv, TypeOK
    <2>4. CASE LatchesFatal(g)
      BY <1>1, <2>4 DEF LatchesFatal, Supervises, ThreadInv, TypeOK
    <2>5. CASE LatchesFailed(g)
      BY <1>1, <2>5 DEF LatchesFailed, Supervises, ThreadInv, TypeOK
    <2>6. CASE WakesWaiters(g)
      BY <1>1, <2>6 DEF WakesWaiters, Supervises, ThreadInv, TypeOK
    <2> QED
      BY <1>6, <2>1, <2>2, <2>3, <2>4, <2>5, <2>6 DEF Supervisor
  <1> QED
    BY <1>2, <1>3, <1>4, <1>5, <1>6, LoopLeaves, LoopWrites DEF Next, Writing, Working

\* What a write of the loop that tears nothing has seen: the gate and the latch as they are.
LEMMA CleanWrites ==
    ASSUME NEW at, Writes(at), ~torn'
    PROVE  /\ gate = hand.saw[1] /\ fatal = hand.saw[2] /\ hand.at = at
           /\ gate' = hand.to /\ hand' = Idle
           /\ ~Opening /\ (at = "reload" => ~Latching)
  <1>1. /\ <<gate, fatal>> = hand.saw /\ hand.at = at /\ gate' = hand.to /\ hand' = Idle
        /\ ~Opening /\ (at = "reload" => ~Latching)
    BY DEF Writes
  <1>2. <<gate, fatal>>[1] = gate /\ <<gate, fatal>>[2] = fatal
    OBVIOUS
  <1> QED
    BY <1>1, <1>2

\* Who moves the gate: a write of the loop, a failed send, or a supervisor.
LEMMA GateMoves ==
    ASSUME [Next]_vars, gate' # gate
    PROVE  \/ Writing \/ (\E r \in Request : SendFails(r))
           \/ \E g \in Generation : ReadySets(g) \/ LatchesFailed(g)
  <1>1. CASE RebuildChecks \/ ReloadChecks \/ StopChecks \/ StopSeals \/ StopGivesUp
             \/ ResolveChecks \/ WakePending \/ Exits \/ UNCHANGED vars
    BY <1>1 DEF RebuildChecks, ReloadChecks, StopChecks, StopSeals, StopGivesUp, ResolveChecks,
       WakePending, Exits, vars
  <1>2. CASE Sending \/ (\E r \in Rebuild : RebuildTimesOut(r))
    BY <1>2 DEF Sending, RebuildSent, RebuildTimesOut
  <1>3. ASSUME NEW g \in Generation, Supervisor(g) \/ Working(g) \/ Dies(g) \/ Hangs(g)
        PROVE  ReadySets(g) \/ LatchesFailed(g)
    BY <1>3 DEF Supervisor, ReadyChecks, SeesDeath, LatchesFatal, WakesWaiters, Working,
       Restart, RestartFails, Replaces, Loaded, Answers, Dies, Hangs
  <1> QED
    BY <1>1, <1>2, <1>3 DEF Next

\* A latched death keeps the gate shut: a handler that had not seen it is "torn".
LEMMA LatchStep ==
    TypeOK /\ HandInv /\ LifeInv /\ ThreadInv /\ FatalLatched /\ [Next]_vars => FatalLatched'
  <1> SUFFICES ASSUME TypeOK, HandInv, LifeInv, ThreadInv, FatalLatched, [Next]_vars,
                      fatal', \A g \in Generation : supervisor'[g] # "fatal", ~torn'
               PROVE  gate' \in {"failed", "stopping"}
    BY DEF FatalLatched
  <1>1. ~torn
    BY HistoryGrows
  <1>2. CASE \E g \in Generation : LatchesFailed(g)
    BY <1>2 DEF LatchesFailed
  <1>3. CASE ReloadSets
    BY <1>3 DEF ReloadSets
  <1>4. ASSUME ~(\E g \in Generation : LatchesFailed(g)), ~ReloadSets
        PROVE  fatal /\ \A g \in Generation : supervisor[g] # "fatal"
    <2>1. ASSUME NEW g \in Generation, LatchesFatal(g) PROVE FALSE
      BY <2>1 DEF LatchesFatal, Supervises, TypeOK
    <2>2. ASSUME NEW g \in Generation, Supervisor(g)
          PROVE  fatal' = fatal /\ \A h \in Generation : supervisor[h] = "fatal" => supervisor'[h] = "fatal"
      BY <1>4, <2>1, <2>2 DEF Supervisor, ReadyChecks, ReadySets, SeesDeath, WakesWaiters,
         Supervises, TypeOK
    <2>3. ASSUME NEW g \in Generation, Working(g) \/ Dies(g) \/ Hangs(g)
          PROVE  fatal' = fatal /\ \A h \in Generation : supervisor[h] = "fatal" => supervisor'[h] = "fatal"
      BY <2>3 DEF Working, Restart, RestartFails, Replaces, Loaded, Answers, Dies, Hangs, threads,
         TypeOK, LifeInv
    <2> QED
      BY <1>4, <2>2, <2>3, LoopLeaves DEF Next, Writing
  <1>5. ASSUME fatal, \A g \in Generation : supervisor[g] # "fatal"
        PROVE  gate' \in {"failed", "stopping"}
    <2>1. gate \in {"failed", "stopping"}
      BY <1>1, <1>5 DEF FatalLatched
    <2>2. CASE RebuildSets
      BY <2>1, <2>2, CleanWrites DEF RebuildSets, HandInv
    <2>3. CASE ResolveSets
      BY <1>5, <2>3, CleanWrites DEF ResolveSets, HandInv
    <2>4. CASE StopSets
      BY <2>4, CleanWrites DEF StopSets, HandInv
    <2>5. ASSUME NEW r, SendFails(r) PROVE FALSE
      BY <2>1, <2>5 DEF SendFails
    <2>6. ASSUME NEW g \in Generation, ReadySets(g) PROVE FALSE
      BY <1>1, <1>5, <2>6 DEF ReadySets, Supervises, ThreadInv
    <2> QED
      BY <1>2, <1>3, <2>1, <2>2, <2>3, <2>4, <2>5, <2>6, GateMoves DEF Writing
  <1> QED
    BY <1>2, <1>3, <1>4, <1>5

----------------------------------------------------------------------------
(* The rebuild on its way.                                                 *)

\* The places in a queue that hold something of generation n.
Of(q, n) == {i \in DOMAIN q : q[i].gen = n}

\* Something joins the queue at its end.
LEMMA Pushed ==
    ASSUME NEW S, NEW q \in Seq(S), NEW e \in S, NEW n
    PROVE  /\ e.gen # n => Of(Append(q, e), n) = Of(q, n)
           /\ e.gen = n /\ Of(q, n) = {} => AtMostOne(Of(Append(q, e), n))
           /\ \A b : (\A i \in DOMAIN q : q[i].gen <= b) /\ e.gen <= b
                        => \A i \in DOMAIN Append(q, e) : Append(q, e)[i].gen <= b
  <1>1. /\ DOMAIN Append(q, e) = 1..(Len(q) + 1) /\ DOMAIN q = 1..Len(q) /\ Len(q) \in Nat
        /\ \A i \in DOMAIN q : Append(q, e)[i] = q[i]
        /\ Append(q, e)[Len(q) + 1] = e
    BY Queue
  <1>2. \A i \in DOMAIN Append(q, e) : i \in DOMAIN q \/ i = Len(q) + 1
    BY <1>1
  <1>3. \A i \in DOMAIN q : i \in DOMAIN Append(q, e)
    BY <1>1
  <1>4. e.gen # n => Of(Append(q, e), n) = Of(q, n)
    BY <1>1, <1>2, <1>3 DEF Of
  <1>5. e.gen = n /\ Of(q, n) = {} => AtMostOne(Of(Append(q, e), n))
    BY <1>1, <1>2 DEF Of, AtMostOne
  <1>6. \A b : (\A i \in DOMAIN q : q[i].gen <= b) /\ e.gen <= b
                  => \A i \in DOMAIN Append(q, e) : Append(q, e)[i].gen <= b
    BY <1>1, <1>2
  <1> QED
    BY <1>4, <1>5, <1>6

\* Its head leaves.
LEMMA Popped ==
    ASSUME NEW S, NEW q \in Seq(S), q # <<>>, NEW n
    PROVE  /\ Head(q) \in S /\ Tail(q) \in Seq(S)
           /\ Of(q, n) = {} => Of(Tail(q), n) = {}
           /\ Head(q).gen = n => Of(q, n) # {}
           /\ AtMostOne(Of(q, n)) => AtMostOne(Of(Tail(q), n))
           /\ AtMostOne(Of(q, n)) /\ Head(q).gen = n => Of(Tail(q), n) = {}
           /\ \A b : (\A i \in DOMAIN q : q[i].gen <= b)
                        => Head(q).gen <= b /\ \A i \in DOMAIN Tail(q) : Tail(q)[i].gen <= b
  <1>1. /\ Head(q) \in S /\ Head(q) = q[1] /\ Tail(q) \in Seq(S) /\ 1 \in DOMAIN q
        /\ \A i \in DOMAIN Tail(q) : i \in Nat /\ i >= 1 /\ i + 1 \in DOMAIN q /\ Tail(q)[i] = q[i + 1]
    BY Queue
  <1>2. \A i \in Of(Tail(q), n) : i \in Nat /\ i >= 1 /\ i + 1 \in Of(q, n)
    BY <1>1 DEF Of
  <1>3. Head(q).gen = n => 1 \in Of(q, n)
    BY <1>1 DEF Of
  <1> QED
    BY <1>1, <1>2, <1>3 DEF AtMostOne

\* What that says of the answers of this generation.
LEMMA PoppedAnswer ==
    ASSUME answers \in Seq(Result), answers # <<>>
    PROVE  /\ Head(answers).gen = gen => Of(answers, gen) # {}
           /\ AtMostOne(Of(answers, gen)) /\ Head(answers).gen = gen
                => Of(Tail(answers), gen) = {}
  <1>1. \A n : /\ Head(answers).gen = n => Of(answers, n) # {}
               /\ AtMostOne(Of(answers, n)) /\ Head(answers).gen = n
                    => Of(Tail(answers), n) = {}
    BY Popped
  <1> QED
    BY <1>1

\* The queues of the rebuilds, seen with Of.
LEMMA CurrentOf == \A q : Current(q) = Of(q, gen)
  BY DEF Current, Of

\* The same after a step that stays in the generation.
LEMMA CurrentOfNext ==
    ASSUME gen' = gen
    PROVE  /\ (Current(asked))' = Of(asked', gen) /\ (Current(answers))' = Of(answers', gen)
           /\ Sent' = {r \in sending' : r.gen = gen}
  BY DEF Current, Of, Sent

\* No request outlives its turn.
LEMMA PastStep == TypeOK /\ HandInv /\ PastInv /\ [Next]_vars => PastInv'
  <1> SUFFICES ASSUME TypeOK, HandInv, PastInv, [Next]_vars PROVE PastInv'
    OBVIOUS
  <1> USE BoundsAssumption
  <1>1. CASE UNCHANGED <<gen, sending, asked, answers>>
    BY <1>1 DEF PastInv
  <1>2. CASE RebuildSets
    BY <1>2 DEF RebuildSets, PastInv, TypeOK, Generation, backend
  <1>3. ASSUME NEW r \in Request, RebuildSent(r) PROVE PastInv'
    <2>1. /\ r \in sending /\ sending' \subseteq sending /\ asked' = Append(asked, r)
          /\ UNCHANGED <<gen, answers>>
      BY <1>3 DEF RebuildSent
    <2>2. asked \in Seq(Request) /\ r.gen <= gen
      BY <2>1 DEF TypeOK, PastInv
    <2>3. \A i \in DOMAIN Append(asked, r) : Append(asked, r)[i].gen <= gen
      BY <2>2, Pushed DEF PastInv
    <2> QED
      BY <2>1, <2>3 DEF PastInv
  <1>4. ASSUME NEW r \in Request, SendFails(r) PROVE PastInv'
    BY <1>4 DEF SendFails, PastInv, backend
  <1>5. CASE ResolveChecks
    <2>1. answers # <<>> /\ answers' = Tail(answers) /\ UNCHANGED <<gen, sending, asked>>
      BY <1>5 DEF ResolveChecks
    <2>2. \A i \in DOMAIN Tail(answers) : Tail(answers)[i].gen <= gen
      BY <2>1, Popped DEF TypeOK, PastInv
    <2> QED
      BY <2>1, <2>2 DEF PastInv
  <1>6. CASE ReloadSets
    <2>1. gen' = gen + 1 /\ gen \in Nat /\ UNCHANGED <<sending, asked, answers>>
      BY <1>6 DEF ReloadSets, TypeOK, Generation
    <2>2. sending \subseteq Request /\ \A r \in Request : r.gen \in Nat
      BY DEF TypeOK, Request, Generation
    <2>3. (\A i \in DOMAIN asked : asked[i].gen \in Nat) /\ (\A i \in DOMAIN answers : answers[i].gen \in Nat)
      <3>1. (\A i \in DOMAIN asked : asked[i] \in Request) /\ (\A i \in DOMAIN answers : answers[i] \in Result)
        BY Queue DEF TypeOK
      <3> QED
        BY <3>1 DEF Request, Result, Generation
    <2> QED
      BY <2>1, <2>2, <2>3 DEF PastInv
  <1>7. ASSUME NEW g \in Generation, Restart(g) \/ RestartFails(g) PROVE PastInv'
    BY <1>7 DEF Restart, RestartFails, Replaces, PastInv, loop
  <1>8. ASSUME NEW g \in Generation, Answers(g) PROVE PastInv'
    <2>1. PICK status \in {"ok", "busy", "failed"} :
             answers' = Append(answers, [id |-> Head(asked).id, gen |-> Head(asked).gen, status |-> status])
      BY <1>8 DEF Answers
    <2>2. asked # <<>> /\ asked' = Tail(asked) /\ UNCHANGED <<gen, sending>>
      BY <1>8 DEF Answers, loop
    <2>3. Head(asked) \in Request /\ Head(asked).gen <= gen
          /\ \A i \in DOMAIN Tail(asked) : Tail(asked)[i].gen <= gen
      BY <2>2, Popped DEF TypeOK, PastInv
    <2>4. [id |-> Head(asked).id, gen |-> Head(asked).gen, status |-> status] \in Result
      BY <2>3 DEF Request, Result
    <2>5. \A i \in DOMAIN answers' : answers'[i].gen <= gen
      BY <2>1, <2>3, <2>4, Pushed DEF TypeOK, PastInv
    <2> QED
      BY <2>2, <2>3, <2>5 DEF PastInv
  <1>9. CASE RebuildChecks \/ ReloadChecks \/ StopChecks \/ StopSeals \/ StopGivesUp
             \/ ResolveSets \/ StopSets \/ WakePending \/ Exits
             \/ (\E r \in Rebuild : RebuildTimesOut(r)) \/ UNCHANGED vars
    BY <1>1, <1>9 DEF RebuildChecks, ReloadChecks, StopChecks, StopSeals, StopGivesUp, ResolveSets,
       StopSets, WakePending, Exits, RebuildTimesOut, vars, loop, backend
  <1>10. ASSUME NEW g \in Generation, Supervisor(g) \/ Loaded(g) \/ Dies(g) \/ Hangs(g) PROVE PastInv'
    BY <1>1, <1>10 DEF Supervisor, ReadyChecks, ReadySets, SeesDeath, LatchesFatal, LatchesFailed,
       WakesWaiters, Loaded, Dies, Hangs, loop, backend
  <1> QED
    BY <1>2, <1>3, <1>4, <1>5, <1>6, <1>7, <1>8, <1>9, <1>10 DEF Next, Writing, Sending, Working

\* A step that leaves the rebuild where it is keeps what the workers and the gate owe it.
LEMMA RebuildStays ==
    ASSUME OneRebuild, gen' = gen, Clean' => Clean,
           UNCHANGED <<sending, asked, answers>>, Resolving' => Resolving,
           Clean' /\ Underway /\ Served => Served',
           Clean' /\ Underway /\ Served /\ ~fatal' => ~fatal /\ (gate = "rebuilding" => gate' = "rebuilding")
    PROVE  OneRebuild'
  <1>1. Sent' = Sent /\ (Current(asked))' = Current(asked) /\ (Current(answers))' = Current(answers)
    BY DEF Sent, Current
  <1>2. Underway' => Underway
    BY <1>1 DEF Underway
  <1>3. OneUnderway => OneUnderway'
    BY <1>1 DEF OneUnderway
  <1> QED
    BY <1>2, <1>3 DEF OneRebuild

\* The rebuild of this generation moves on: it is in one place again, or nowhere.
LEMMA RebuildMoves ==
    ASSUME OneRebuild, UNCHANGED <<gen, fatal>>, Clean' => Clean,
           Clean' /\ Underway => UNCHANGED gate,
           Clean' /\ Underway' => Underway,
           Clean' /\ Underway /\ Served => Served',
           Clean' /\ Underway' /\ OneUnderway => OneUnderway'
    PROVE  OneRebuild'
  BY DEF OneRebuild

\* A reload leaves the rebuilds of earlier generations behind.
LEMMA RebuildReloads == TypeOK /\ HandInv /\ PastInv /\ ReloadSets => OneRebuild'
  <1> SUFFICES ASSUME TypeOK, PastInv, ReloadSets PROVE ~Underway'
    BY DEF OneRebuild
  <1>1. /\ gen' = gen + 1 /\ gen \in Nat /\ UNCHANGED <<sending, asked, answers>> /\ hand' = Idle
    BY BoundsAssumption DEF ReloadSets, Writes, TypeOK, Generation
  <1>2. \A r \in sending : r.gen # gen'
    BY <1>1, BoundsAssumption DEF PastInv, TypeOK, Request, Generation
  <1>3. \A i \in DOMAIN asked : asked[i].gen # gen'
    <2>1. \A i \in DOMAIN asked : asked[i] \in Request
      BY Queue DEF TypeOK
    <2> QED
      BY <1>1, <2>1, BoundsAssumption DEF PastInv, Request, Generation
  <1>4. \A i \in DOMAIN answers : answers[i].gen # gen'
    <2>1. \A i \in DOMAIN answers : answers[i] \in Result
      BY Queue DEF TypeOK
    <2> QED
      BY <1>1, <2>1, BoundsAssumption DEF PastInv, Result, Generation
  <1> QED
    BY <1>1, <1>2, <1>3, <1>4 DEF Underway, Sent, Current, Resolving, Idle

\* The handlers of a rebuild, and the workers that answer it.
LEMMA RebuildTravels ==
    ASSUME TypeOK, HandInv, OneRebuild, ServingReady, [Next]_vars,
           \/ RebuildSets \/ ResolveSets \/ ResolveChecks
           \/ (\E r \in Request : RebuildSent(r) \/ SendFails(r))
           \/ (\E g \in Generation : Answers(g) \/ Restart(g) \/ RestartFails(g))
    PROVE  OneRebuild'
  <1>0. Clean' => Clean
    BY HistoryGrows DEF Clean
  <1>t. asked \in Seq(Request) /\ answers \in Seq(Result)
    BY DEF TypeOK
  <1>1. CASE RebuildSets
    <2> SUFFICES ASSUME Clean' PROVE Served' /\ (~fatal' => gate' = "rebuilding" /\ OneUnderway')
      BY DEF OneRebuild
    <2>1. gate = "serving" /\ gate' = "rebuilding" /\ hand' = Idle /\ hand.at = "rebuild"
      BY <1>1, CleanWrites DEF RebuildSets, HandInv, Clean
    <2>2. /\ sending' = sending \cup {[id |-> rebuilds, gen |-> gen]}
          /\ UNCHANGED <<gen, fatal, worker, supervisor, asked, answers>>
      BY <1>1 DEF RebuildSets, backend, threads
    <2>3. Served'
      BY <1>0, <2>1, <2>2 DEF ServingReady, Served, Clean
    <2>4. ASSUME ~fatal' PROVE OneUnderway'
      <3>1. ~Underway
        BY <1>0, <2>1, <2>2, <2>4 DEF OneRebuild
      <3>2. Sent' = {[id |-> rebuilds, gen |-> gen]} /\ (Current(asked))' = {} /\ (Current(answers))' = {}
        BY <2>2, <3>1 DEF Underway, Sent, Current
      <3>3. ~Resolving'
        BY <2>1 DEF Resolving, Idle
      <3> QED
        BY <3>2, <3>3 DEF OneUnderway, AtMostOne
    <2> QED
      BY <2>1, <2>3, <2>4
  <1>2. CASE ResolveSets
    <2>1. UNCHANGED <<gen, fatal, worker, supervisor, sending, asked, answers>>
      BY <1>2 DEF ResolveSets, backend, threads
    <2>2. Clean' => hand' = Idle /\ hand.at = "resolve"
      BY <1>2, CleanWrites DEF ResolveSets, Clean
    <2>3. Clean' => Underway /\ ~Resolving'
      BY <2>2 DEF Underway, Resolving, Idle
    <2>4. Sent' = Sent /\ (Current(asked))' = Current(asked) /\ (Current(answers))' = Current(answers)
      BY <2>1 DEF Sent, Current
    <2>5. Clean' /\ OneUnderway => ~Underway'
      BY <2>2, <2>3, <2>4 DEF OneUnderway, Underway, Resolving
    <2>6. Served => Served'
      BY <2>1 DEF Served
    <2> QED
      BY <1>0, <2>1, <2>3, <2>5, <2>6 DEF OneRebuild
  <1>3. CASE ResolveChecks
    <2>1. /\ answers # <<>> /\ answers' = Tail(answers) /\ hand = Idle /\ hand'.at = "resolve"
          /\ stale' = (stale \/ Head(answers).gen # gen)
          /\ UNCHANGED <<gate, gen, fatal, worker, supervisor, sending, asked>>
      BY <1>3 DEF ResolveChecks, Free, Decide, threads
    <2>2. Clean' => Head(answers).gen = gen
      BY <2>1 DEF Clean
    <2>3. /\ Head(answers).gen = gen => Of(answers, gen) # {}
          /\ AtMostOne(Of(answers, gen)) /\ Head(answers).gen = gen => Of(Tail(answers), gen) = {}
      BY <1>t, <2>1, PoppedAnswer
    <2>4. Clean' => Current(answers) # {}
      BY <2>2, <2>3, CurrentOf
    <2>5. Clean' /\ OneUnderway => OneUnderway'
      <3> SUFFICES ASSUME Clean', OneUnderway PROVE OneUnderway'
        OBVIOUS
      <3>1. Sent' = {} /\ (Current(asked))' = {}
        BY <2>1, <2>4 DEF OneUnderway, Sent, Current
      <3>2. (Current(answers))' = {}
        BY <2>1, <2>2, <2>3, CurrentOf, CurrentOfNext DEF OneUnderway
      <3> QED
        BY <3>1, <3>2 DEF OneUnderway
    <2> QED
      BY <1>0, <2>1, <2>4, <2>5, RebuildMoves DEF Underway, Served
  <1>4. ASSUME NEW r \in Request, RebuildSent(r) PROVE OneRebuild'
    <2>1. /\ r \in sending /\ sending' = sending \ {r} /\ asked' = Append(asked, r)
          /\ UNCHANGED <<gate, gen, fatal, hand, worker, supervisor, answers>>
      BY <1>4 DEF RebuildSent, threads
    <2>2. /\ r.gen # gen => Of(asked', gen) = Of(asked, gen)
          /\ r.gen = gen /\ Of(asked, gen) = {} => AtMostOne(Of(asked', gen))
      BY <1>t, <2>1, Pushed
    <2>3. /\ Sent' = Sent \ {r} /\ (Current(answers))' = Current(answers) /\ Resolving' = Resolving
          /\ (Current(asked))' = Of(asked', gen) /\ Current(asked) = Of(asked, gen)
          /\ (r.gen = gen <=> r \in Sent)
      BY <2>1, CurrentOf, CurrentOfNext DEF Sent, Resolving, Current
    <2>4. Underway' => Underway
      BY <2>2, <2>3 DEF Underway
    <2>5. OneUnderway => OneUnderway'
      <3>1. CASE r.gen # gen
        <4>1. Sent' = Sent /\ (Current(asked))' = Current(asked)
          BY <2>2, <2>3, <3>1
        <4> QED
          BY <2>3, <4>1 DEF OneUnderway
      <3>2. CASE r.gen = gen
        BY <2>2, <2>3, <3>2 DEF OneUnderway, AtMostOne
      <3> QED
        BY <3>1, <3>2
    <2> QED
      BY <1>0, <2>1, <2>4, <2>5, RebuildMoves DEF Served
  <1>5. ASSUME NEW r \in Request, SendFails(r) PROVE OneRebuild'
    <2>1. /\ r \in sending /\ sending' = sending \ {r}
          /\ UNCHANGED <<gen, fatal, hand, worker, supervisor, asked, answers>>
          /\ Clean' => r.gen = gen
      BY <1>5 DEF SendFails, backend, threads, Clean
    <2>2. /\ Sent' = Sent \ {r} /\ (Current(answers))' = Current(answers) /\ Resolving' = Resolving
          /\ (Current(asked))' = Current(asked) /\ (r.gen = gen => r \in Sent)
      BY <2>1 DEF Sent, Current, Resolving
    <2>3. Clean' => Underway
      BY <2>1, <2>2 DEF Underway
    <2>4. Clean' /\ OneUnderway => ~Underway'
      BY <2>1, <2>2 DEF OneUnderway, AtMostOne, Underway
    <2>5. Served' = Served
      BY <2>1 DEF Served
    <2> QED
      BY <1>0, <2>1, <2>3, <2>4, <2>5 DEF OneRebuild
  <1>6. ASSUME NEW g \in Generation, Answers(g) PROVE OneRebuild'
    <2>1. PICK status \in {"ok", "busy", "failed"} :
             answers' = Append(answers, [id |-> Head(asked).id, gen |-> Head(asked).gen, status |-> status])
      BY <1>6 DEF Answers
    <2> DEFINE m == [id |-> Head(asked).id, gen |-> Head(asked).gen, status |-> status]
    <2>2. /\ asked # <<>> /\ asked' = Tail(asked)
          /\ UNCHANGED <<gate, gen, fatal, hand, sending, worker, supervisor>>
      BY <1>6 DEF Answers, loop, threads
    <2>3. Head(asked) \in Request
      BY <1>t, <2>2, Popped
    <2>4. m \in Result /\ m.gen = Head(asked).gen
      BY <2>3 DEF Request, Result
    <2>5. /\ Of(asked, gen) = {} => Of(asked', gen) = {}
          /\ Head(asked).gen = gen => Of(asked, gen) # {}
          /\ AtMostOne(Of(asked, gen)) => AtMostOne(Of(asked', gen))
          /\ AtMostOne(Of(asked, gen)) /\ Head(asked).gen = gen => Of(asked', gen) = {}
      BY <1>t, <2>2, Popped
    <2>6. /\ m.gen # gen => Of(answers', gen) = Of(answers, gen)
          /\ m.gen = gen /\ Of(answers, gen) = {} => AtMostOne(Of(answers', gen))
      <3>1. answers' = Append(answers, m)
        BY <2>1
      <3> HIDE DEF m
      <3> QED
        BY <1>t, <2>4, <3>1, Pushed
    <2> HIDE DEF m
    <2>7. /\ Sent' = Sent /\ Resolving' = Resolving
          /\ (Current(asked))' = Of(asked', gen) /\ Current(asked) = Of(asked, gen)
          /\ (Current(answers))' = Of(answers', gen) /\ Current(answers) = Of(answers, gen)
      BY <2>2, CurrentOf, CurrentOfNext DEF Sent, Resolving
    <2>8. Underway' => Underway
      BY <2>4, <2>5, <2>6, <2>7 DEF Underway
    <2>9. OneUnderway => OneUnderway'
      <3>1. CASE m.gen # gen
        BY <2>4, <2>5, <2>6, <2>7, <3>1 DEF OneUnderway
      <3>2. CASE m.gen = gen
        BY <2>4, <2>5, <2>6, <2>7, <3>2 DEF OneUnderway
      <3> QED
        BY <3>1, <3>2
    <2> QED
      BY <1>0, <2>2, <2>8, <2>9, RebuildMoves DEF Served
  <1>7. ASSUME NEW g \in Generation, Restart(g) \/ RestartFails(g) PROVE OneRebuild'
    <2>1. /\ asked' \in {<<>>, asked} /\ answers' \in {<<>>, answers}
          /\ UNCHANGED <<gate, gen, fatal, hand, sending>> /\ worker[g] = "pending"
          /\ \E running \in {"dead", "loading"} :
                worker' = [h \in Generation |->
                    IF h = g THEN running ELSE IF h \in reaped THEN "dead" ELSE worker[h]]
          /\ supervisor' \in {supervisor, [supervisor EXCEPT ![g] = "drain"]}
      BY <1>7, Relaunches DEF loop
    <2>2. /\ Sent' = Sent /\ Resolving' = Resolving
          /\ (Current(asked))' \in {{}, Current(asked)}
          /\ (Current(answers))' \in {{}, Current(answers)}
      BY <2>1 DEF Sent, Resolving, Current
    <2>3. Underway' => Underway
      BY <2>2 DEF Underway
    <2>4. OneUnderway => OneUnderway'
      BY <2>2 DEF OneUnderway
    <2>5. Served => Served'
      BY <2>1 DEF Served, TypeOK
    <2> QED
      BY <1>0, <2>1, <2>3, <2>4, <2>5, RebuildMoves
  <1> QED
    BY <1>1, <1>2, <1>3, <1>4, <1>5, <1>6, <1>7

\* Everybody else leaves the rebuild where it is: what may write the gate under it has looked.
LEMMA RebuildStep ==
    TypeOK /\ HandInv /\ LifeInv /\ ThreadInv /\ PastInv /\ OneRebuild /\ ServingReady /\ [Next]_vars
        => OneRebuild'
  <1> SUFFICES ASSUME TypeOK, HandInv, LifeInv, ThreadInv, PastInv, OneRebuild, ServingReady, [Next]_vars
               PROVE  OneRebuild'
    OBVIOUS
  <1>0. Clean' => Clean
    BY HistoryGrows DEF Clean
  <1>1. CASE RebuildChecks \/ ReloadChecks \/ StopChecks
    <2>1. /\ UNCHANGED <<gate, gen, fatal, sending, asked, answers, worker, supervisor>>
          /\ hand'.at # "resolve"
      BY <1>1 DEF RebuildChecks, ReloadChecks, StopChecks, Decide, backend, threads
    <2> QED
      BY <1>0, <2>1, RebuildStays DEF Resolving, Served
  <1>2. CASE StopSeals \/ StopGivesUp \/ WakePending \/ Exits \/ (\E r \in Rebuild : RebuildTimesOut(r))
             \/ UNCHANGED vars
    <2>1. UNCHANGED <<gate, gen, fatal, hand, sending, asked, answers, worker, supervisor>>
      BY <1>2 DEF StopSeals, StopGivesUp, WakePending, Exits, RebuildTimesOut, vars, loop, backend, threads
    <2> QED
      BY <1>0, <2>1, RebuildStays DEF Resolving, Served
  <1>3. CASE StopSets
    <2>1. UNCHANGED <<gen, fatal, sending, asked, answers, worker, supervisor>>
      BY <1>3 DEF StopSets, backend, threads
    <2>2. Clean' => hand' = Idle /\ gate # "rebuilding"
      BY <1>3, CleanWrites DEF StopSets, HandInv, Clean
    <2>3. hand' = Idle
      BY <1>3 DEF StopSets, Writes
    <2>4. Clean' /\ Underway => fatal
      BY <1>0, <2>2 DEF OneRebuild
    <2> QED
      BY <1>0, <2>1, <2>3, <2>4, RebuildStays DEF Resolving, Idle, Served
  <1>4. ASSUME NEW g \in Generation, Loaded(g) \/ Dies(g) \/ Hangs(g) PROVE OneRebuild'
    <2>1. /\ UNCHANGED <<gate, gen, fatal, hand, sending, asked, answers, supervisor>>
          /\ worker' = worker \/ \E w \in {"ready", "dead"} : worker' = [worker EXCEPT ![g] = w]
      BY <1>4 DEF Loaded, Dies, Hangs, loop, threads
    <2>2. Served => Served'
      BY <2>1 DEF Served, TypeOK
    <2> QED
      BY <1>0, <2>1, <2>2, RebuildStays DEF Resolving
  <1>5. ASSUME NEW g \in Generation, Supervisor(g) PROVE OneRebuild'
    <2>1. UNCHANGED <<gen, hand, sending, asked, answers, worker>>
      BY <1>5 DEF Supervisor, ReadyChecks, ReadySets, SeesDeath, LatchesFatal, LatchesFailed,
         WakesWaiters, loop, backend
    <2>2. Served => Served'
      BY <1>5, <2>1 DEF Supervisor, ReadyChecks, ReadySets, SeesDeath, LatchesFatal, LatchesFailed,
         WakesWaiters, Supervises, Served, TypeOK
    <2>3. Clean' /\ Served /\ ~fatal' => ~fatal /\ gate' = gate
      <3>1. CASE ReadySets(g)
        BY <1>0, <3>1 DEF ReadySets, Supervises, ThreadInv, Served, Clean
      <3>2. CASE LatchesFailed(g)
        BY <1>0, <3>2 DEF LatchesFailed, Supervises, ThreadInv, Clean
      <3>3. CASE LatchesFatal(g)
        BY <3>3 DEF LatchesFatal
      <3> QED
        BY <1>5, <3>1, <3>2, <3>3 DEF Supervisor, ReadyChecks, SeesDeath, WakesWaiters
    <2> QED
      BY <1>0, <2>1, <2>2, <2>3, RebuildStays DEF Resolving
  <1> QED
    BY <1>1, <1>2, <1>3, <1>4, <1>5, RebuildTravels, RebuildReloads DEF Next, Writing, Sending, Working

----------------------------------------------------------------------------
(* The open gate and the closed one.                                       *)

\* Workers that serve go on serving, in their generation.
LEMMA ServedStays == TypeOK /\ [Next]_vars /\ gen' = gen /\ Served => Served'
  <1> SUFFICES ASSUME TypeOK, [Next]_vars, gen' = gen, Served PROVE Served'
    OBVIOUS
  <1>1. ASSUME NEW g \in Generation, Supervisor(g) PROVE Served'
    BY <1>1 DEF Supervisor, ReadyChecks, ReadySets, SeesDeath, LatchesFatal, LatchesFailed,
       WakesWaiters, Supervises, backend, Served, TypeOK
  <1>2. ASSUME NEW g \in Generation, Restart(g) \/ RestartFails(g) PROVE Served'
    BY <1>2 DEF Restart, RestartFails, Replaces, Served, TypeOK
  <1>3. ASSUME NEW g \in Generation, Loaded(g) \/ Dies(g) \/ Hangs(g) \/ Answers(g) PROVE Served'
    BY <1>3 DEF Loaded, Dies, Hangs, Answers, threads, Served, TypeOK
  <1>4. ~ReloadSets
    BY DEF ReloadSets, TypeOK, Generation
  <1>5. CASE UNCHANGED <<worker, supervisor>>
    BY <1>5 DEF Served
  <1> QED
    BY <1>1, <1>2, <1>3, <1>4, <1>5, LoopLeaves DEF Next, Writing, Working

\* The gate opens only for workers that serve.
LEMMA ServingStep ==
    TypeOK /\ HandInv /\ LifeInv /\ ThreadInv /\ OneRebuild /\ ServingReady /\ [Next]_vars
        => ServingReady'
  <1> SUFFICES ASSUME TypeOK, HandInv, LifeInv, ThreadInv, OneRebuild, ServingReady, [Next]_vars,
                      gate' = "serving", Clean'
               PROVE  Served'
    BY DEF ServingReady, Clean, Served
  <1>0. Clean /\ ~torn'
    BY HistoryGrows DEF Clean
  <1>1. gate = "serving" => Served
    BY <1>0 DEF ServingReady, Clean, Served
  <1>2. Underway => Served
    BY <1>0 DEF OneRebuild
  <1>3. CASE gate = "serving" /\ gen' = gen
    BY <1>1, <1>3, ServedStays
  <1>4. ~ReloadSets /\ ~RebuildSets /\ ~StopSets
    BY CleanWrites, <1>0 DEF ReloadSets, RebuildSets, StopSets, HandInv
  <1>5. CASE ResolveSets
    <2>1. Underway
      BY <1>0, <1>5, CleanWrites DEF ResolveSets, Underway, Resolving
    <2>2. gen' = gen
      BY <1>5 DEF ResolveSets
    <2> QED
      BY <1>2, <2>1, <2>2, ServedStays
  <1>6. ASSUME NEW r \in Request, SendFails(r) PROVE Served'
    <2>1. r \in Sent /\ gen' = gen
      BY <1>6, <1>0 DEF SendFails, Sent
    <2> QED
      BY <1>2, <2>1, ServedStays DEF Underway
  <1>7. ASSUME NEW g \in Generation, ReadySets(g) PROVE Served'
    <2>1. g = gen /\ supervisor[g] = "ready"
      BY <1>0, <1>7 DEF ReadySets, Supervises, ThreadInv, Clean
    <2>2. worker[g] \in {"ready", "dead"}
      BY <2>1 DEF LifeInv
    <2> QED
      BY <1>7, <2>1, <2>2 DEF ReadySets, Supervises, backend, Served, TypeOK
  <1>8. ASSUME NEW g \in Generation PROVE ~LatchesFailed(g)
    BY DEF LatchesFailed
  <1>9. gate # gate' \/ gen' = gen
    <2>1. ASSUME NEW g \in Generation, Supervisor(g) \/ Working(g) \/ Dies(g) \/ Hangs(g) PROVE gen' = gen
      BY <2>1 DEF Supervisor, ReadyChecks, ReadySets, SeesDeath, LatchesFatal, LatchesFailed,
         WakesWaiters, Working, Restart, RestartFails, Replaces, Loaded, Answers, Dies, Hangs
    <2> QED
      BY <1>4, <2>1, LoopLeaves DEF Next, Writing
  <1> QED
    BY <1>3, <1>4, <1>5, <1>6, <1>7, <1>8, <1>9, GateMoves DEF Writing

\* A stop holds the gate of its generation against everybody who might open it.
LEMMA StopStep ==
    TypeOK /\ HandInv /\ ThreadInv /\ OneRebuild /\ StopInv /\ [Next]_vars => StopInv'
  <1> SUFFICES ASSUME TypeOK, HandInv, ThreadInv, OneRebuild, StopInv, [Next]_vars,
                      Clean', gen' \in {sealed', draining'}
               PROVE  gate' \in {"stopping", "failed"}
    BY DEF StopInv
  <1>0. Clean /\ ~torn'
    BY HistoryGrows DEF Clean
  <1>1. CASE StopSets
    BY <1>0, <1>1, CleanWrites DEF StopSets, HandInv
  <1>2. ASSUME ~StopSets PROVE gen \in {sealed, draining} /\ ~ReloadSets
    <2>1. {sealed', draining'} \subseteq {sealed, draining, None}
      <3>1. ASSUME NEW g \in Generation, Supervisor(g) \/ Working(g) \/ Dies(g) \/ Hangs(g)
            PROVE  UNCHANGED <<sealed, draining>>
        BY <3>1 DEF Supervisor, ReadyChecks, ReadySets, SeesDeath, LatchesFatal, LatchesFailed,
           WakesWaiters, Working, Restart, RestartFails, Replaces, Loaded, Answers, Dies, Hangs, loop
      <3>2. CASE RebuildChecks \/ ReloadChecks \/ StopChecks \/ StopSeals \/ StopGivesUp \/ RebuildSets
                 \/ ReloadSets \/ ResolveSets
        BY <3>2 DEF RebuildChecks, ReloadChecks, StopChecks, StopSeals, StopGivesUp, RebuildSets,
           ReloadSets, ResolveSets
      <3>3. CASE Sending \/ ResolveChecks \/ WakePending \/ Exits \/ (\E r \in Rebuild : RebuildTimesOut(r))
                 \/ UNCHANGED vars
        BY <3>3 DEF Sending, RebuildSent, SendFails, ResolveChecks, WakePending, Exits, RebuildTimesOut,
           vars, loop
      <3> QED
        BY <1>2, <3>1, <3>2, <3>3 DEF Next, Writing
    <2>2. ~ReloadSets
      <3> SUFFICES ASSUME ReloadSets PROVE FALSE
        OBVIOUS
      <3>1. /\ gen \in Nat /\ gen + 1 < None /\ gen' = gen + 1 /\ {sealed', draining'} = {sealed, draining}
        BY BoundsAssumption DEF ReloadSets, Writes, HandInv, TypeOK, Generation, None
      <3>2. {sealed, draining} \subseteq 0..gen \cup {None}
        BY DEF TypeOK
      <3> QED
        BY <3>1, <3>2
    <2>3. gen' = gen
      <3>1. ASSUME NEW g \in Generation, Supervisor(g) \/ Working(g) \/ Dies(g) \/ Hangs(g) PROVE gen' = gen
        BY <3>1 DEF Supervisor, ReadyChecks, ReadySets, SeesDeath, LatchesFatal, LatchesFailed,
           WakesWaiters, Working, Restart, RestartFails, Replaces, Loaded, Answers, Dies, Hangs
      <3> QED
        BY <2>2, <3>1, LoopLeaves DEF Next, Writing
    <2>4. gen # None
      BY BoundsAssumption DEF TypeOK, Generation, None
    <2> QED
      BY <2>1, <2>2, <2>3, <2>4
  <1>3. ASSUME gen \in {sealed, draining}, ~ReloadSets, ~StopSets PROVE gate' \in {"stopping", "failed"}
    <2>1. gate \in {"stopping", "failed"}
      BY <1>0, <1>3 DEF StopInv
    <2>2. CASE RebuildSets
      BY <1>0, <2>1, <2>2, CleanWrites DEF RebuildSets, HandInv
    <2>3. CASE ResolveSets
      <3>1. Underway
        BY <1>0, <2>3, CleanWrites DEF ResolveSets, Underway, Resolving
      <3>2. fatal
        BY <1>0, <2>1, <3>1 DEF OneRebuild
      <3> QED
        BY <1>0, <2>3, <3>2, CleanWrites DEF ResolveSets, HandInv
    <2>4. ASSUME NEW r \in Request, SendFails(r) PROVE FALSE
      BY <1>0, <2>1, <2>4 DEF SendFails
    <2>5. ASSUME NEW g \in Generation, ReadySets(g) PROVE FALSE
      BY <1>0, <2>1, <2>5 DEF ReadySets, Supervises, ThreadInv, Clean
    <2>6. ASSUME NEW g \in Generation, LatchesFailed(g) PROVE gate' = "failed"
      BY <2>6 DEF LatchesFailed
    <2> QED
      BY <1>3, <2>1, <2>2, <2>3, <2>4, <2>5, <2>6, GateMoves DEF Writing
  <1> QED
    BY <1>1, <1>2, <1>3

----------------------------------------------------------------------------
(* The theorems.                                                           *)

IInv ==
    /\ TypeOK /\ HandInv /\ LifeInv /\ ThreadInv /\ PastInv /\ OneRebuild
    /\ FatalLatched /\ ServingReady /\ StopInv

\* The boot: nobody on the loop, nothing on its way, the gate at "loading".
LEMMA InitInv == Init => IInv
  <1> SUFFICES ASSUME Init PROVE IInv
    OBVIOUS
  <1>1. TypeOK /\ LifeInv /\ HandInv
    BY InitType
  <1>2. 0 \in Generation /\ MaxReloads \in Nat
    BY BoundsAssumption DEF Generation
  <1>3. ThreadInv
    BY <1>2 DEF Init, ThreadInv
  <1>4. PastInv
    BY DEF Init, PastInv
  <1>5. ~Underway
    BY DEF Init, Underway, Sent, Current, Resolving, Idle
  <1>6. FatalLatched /\ ServingReady
    BY DEF Init, FatalLatched, ServingReady
  <1>7. StopInv
    BY <1>2 DEF Init, StopInv, None
  <1> QED
    BY <1>1, <1>3, <1>4, <1>5, <1>6, <1>7 DEF IInv, OneRebuild

LEMMA Invariant == Spec => []IInv
  <1>1. IInv /\ [Next]_vars => IInv'
    BY TypeStep, HandStep, LifeStep, ThreadStep, PastStep, RebuildStep, LatchStep, ServingStep, StopStep
       DEF IInv
  <1> QED
    BY InitInv, <1>1, PTL DEF Spec

\* The state of the frontend has the types it is declared with.
THEOREM TypeCorrect == Spec => []TypeOK
  <1>1. IInv => TypeOK
    BY DEF IInv
  <1> QED
    BY Invariant, <1>1, PTL

\* A death that has been latched keeps the server from admitting work until a reload, unless
\* somebody has overwritten a gate it had not seen.
THEOREM DeathLatched == Spec => []FatalLatched
  <1>1. IInv => FatalLatched
    BY DEF IInv
  <1> QED
    BY Invariant, <1>1, PTL

\* The gate is open only over workers of the current generation that have loaded.
THEOREM OpenMeansReady == Spec => []ServingReady
  <1>1. IInv => ServingReady
    BY DEF IInv
  <1> QED
    BY Invariant, <1>1, PTL

\* After a stop has closed the gate of a generation, nothing opens it again.
THEOREM StopKeepsClosed == Spec => []SealedStaysClosed
  <1>1. IInv => SealedStaysClosed
    BY DEF IInv, StopInv, SealedStaysClosed, Clean
  <1> QED
    BY Invariant, <1>1, PTL

\* At most one rebuild of the current workers is on its way, in the loop, in a queue or in the
\* hands of the listener, and until its reply it holds the gate at "rebuilding", unless the
\* workers have died: what makes it sound that replies carry no generation and no number.
THEOREM RebuildsAlone == Spec => []OneRebuild
  <1>1. IInv => OneRebuild
    BY DEF IInv
  <1> QED
    BY Invariant, <1>1, PTL
=============================================================================
