----------------------- MODULE CoreDNSSupervisorProofs -----------------------
(***************************************************************************)
(* Proofs about CoreDNSSupervisor for any number of supervisor goroutines, *)
(* processes and callers.                                                  *)
(***************************************************************************)
EXTENDS CoreDNSSupervisor, TLAPS

\* Every behaviour of the code starts in the inductive invariant.
LEMMA InitIInv == Init => IInv
<1> SUFFICES ASSUME Init PROVE IInv
  OBVIOUS
<1>1. TypeOK
  <2>1. booted \in BOOLEAN /\ ctxDone \in BOOLEAN
    BY Zenon DEF Init
  <2>2. failures \in 0 .. MaxFailures
    BY SupervisorAssumption DEF Init
  <2>3. /\ sup \in [Sup -> SupState] /\ own \in [Sup -> Proc \cup {NoProc}]
        /\ proc \in [Proc -> ProcState]
    BY DEF Init, SupState, ProcState
  <2>4. /\ dnsCmd \in Proc \cup {NoProc} /\ wdCmd \in Proc \cup {NoProc}
        /\ intr \subseteq Proc /\ killPending \subseteq Proc
        /\ willSpawn \subseteq Handlers /\ wdPc \in WdState
    BY DEF Init, WdState
  <2> QED
    BY <2>1, <2>2, <2>3, <2>4 DEF TypeOK
<1>2. WaitersOwnCmd /\ OneWaiter
  BY DEF Init, WaitersOwnCmd, OneWaiter
<1>3. LiveIsCmd /\ NoOrphanCmd /\ StoppedOnRequest /\ killPending \subseteq intr
  BY DEF Init, LiveIsCmd, Alive, NoOrphanCmd, StoppedOnRequest
<1>4. BelowLimit
  BY SupervisorAssumption DEF Init, BelowLimit
<1> QED
  BY <1>1, <1>2, <1>3, <1>4 DEF IInv

\* "go startCoreDNS" only moves a slot from "none" to "check".
LEMMA SpawnKeeps ==
  ASSUME IInv, SpawnSupervisor
  PROVE  /\ sup' \in [Sup -> SupState]
         /\ \A s \in Sup : (sup'[s] = "wait") <=> (sup[s] = "wait")
BY DEF IInv, TypeOK, SpawnSupervisor, SupState

\* Type correctness alone, one step per action of the code.
LEMMA TypeStep == IInv /\ [Next]_vars => TypeOK'
<1> SUFFICES ASSUME IInv, [Next]_vars PROVE TypeOK'
  OBVIOUS
<1> USE SupervisorAssumption DEF IInv, TypeOK, supVars, wdVars
<1>1. CASE Boot
  BY <1>1, SpawnKeeps DEF Boot
<1>2. CASE Shutdown
  BY <1>2 DEF Shutdown
<1>3. ASSUME NEW s \in Sup, SupervisorStep(s) PROVE TypeOK'
  <2> USE DEF SupState
  <2>1. CASE SupervisorQuits(s)
    BY <2>1 DEF SupervisorQuits
  <2>2. CASE SupervisorProceeds(s)
    BY <2>2 DEF SupervisorProceeds
  <2>3. CASE SupervisorPolls(s)
    BY <2>3 DEF SupervisorPolls
  <2>4. ASSUME NEW p \in Proc, StartProcess(s, p) PROVE TypeOK'
    BY <2>4 DEF StartProcess, StartAllowed, ProcState
  <2>5. CASE StartFails(s)
    BY <2>5 DEF StartFails
  <2>6. CASE Reap(s)
    BY <2>6 DEF Reap, WaitReturns, CmdAfterWait
  <2>7. CASE AfterReap(s)
    BY <2>7 DEF AfterReap
  <2> QED
    BY <1>3, <2>1, <2>2, <2>3, <2>4, <2>5, <2>6, <2>7 DEF SupervisorStep
<1>4. ASSUME NEW h \in Handlers, RestartReadsDown(h) \/ RestartSpawns(h)
      PROVE TypeOK'
  <2>1. CASE RestartReadsDown(h)
    BY <2>1 DEF RestartReadsDown
  <2>2. CASE RestartSpawns(h)
    BY <2>2, SpawnKeeps DEF RestartSpawns
  <2> QED
    BY <1>4, <2>1, <2>2
<1>5. CASE WatchdogStep
  <2> USE DEF WdState
  <2>1. CASE ProbeOk
    BY <2>1 DEF ProbeOk
  <2>2. CASE ProbeFails
    BY <2>2 DEF ProbeFails, BelowLimit
  <2>3. CASE ForceRestartReads
    BY <2>3 DEF ForceRestartReads
  <2>4. CASE ForceRestartSignals
    BY <2>4
    DEF ForceRestartSignals, KillScheduled, FailuresAfterRestart
  <2>5. CASE ForceRestartSpawns
    BY <2>5, SpawnKeeps
    DEF ForceRestartSpawns, FailuresAfterRestart
  <2>6. CASE Settle
    BY <2>6 DEF Settle
  <2>7. CASE WatchdogQuits
    BY <2>7 DEF WatchdogQuits
  <2> QED
    BY <1>5, <2>1, <2>2, <2>3, <2>4, <2>5, <2>6, <2>7 DEF WatchdogStep
<1>6. ASSUME NEW p \in Proc, ProcessStep(p) PROVE TypeOK'
  <2> USE DEF ProcState, Ends
  <2>1. CASE Crash(p)
    BY <2>1 DEF Crash
  <2>2. CASE Hang(p)
    BY <2>2 DEF Hang
  <2>3. CASE ObeyInterrupt(p)
    BY <2>3 DEF ObeyInterrupt
  <2>4. CASE DelayedKill(p)
    BY <2>4 DEF DelayedKill, KillTarget
  <2>5. CASE ContextKill(p)
    BY <2>5 DEF ContextKill, DiesWithContext
  <2> QED
    BY <1>6, <2>1, <2>2, <2>3, <2>4, <2>5 DEF ProcessStep
<1>7. CASE UNCHANGED vars
  BY <1>7 DEF vars
<1> QED
  BY <1>1, <1>2, <1>3, <1>4, <1>5, <1>6, <1>7 DEF Next

\* The rest of the invariant.  Only the actions that touch dnsCmd, own, a
\* "wait" program counter or a process can disturb it.
LEMMA InvStep == IInv /\ [Next]_vars => IInv'
<1> SUFFICES ASSUME IInv, [Next]_vars PROVE IInv'
  OBVIOUS
<1> DEFINE Rest == /\ WaitersOwnCmd /\ OneWaiter /\ LiveIsCmd /\ NoOrphanCmd
                   /\ killPending \subseteq intr /\ StoppedOnRequest /\ BelowLimit
<1>0. TypeOK'
  BY TypeStep
<1> USE SupervisorAssumption
    DEF IInv, TypeOK, supVars, wdVars, Alive, WaitersOwnCmd, OneWaiter,
        LiveIsCmd, NoOrphanCmd, StoppedOnRequest, BelowLimit
<1>1. CASE Boot
  <2>1. Rest'
    BY <1>1, SpawnKeeps DEF Boot
  <2> QED
    BY <1>0, <2>1
<1>2. CASE Shutdown
  <2>1. Rest'
    BY <1>2 DEF Shutdown
  <2> QED
    BY <1>0, <2>1
<1>3. ASSUME NEW s \in Sup, SupervisorStep(s) PROVE IInv'
  <2>1. CASE SupervisorQuits(s)
    BY <1>0, <2>1 DEF SupervisorQuits
  <2>2. CASE SupervisorProceeds(s)
    BY <1>0, <2>2 DEF SupervisorProceeds
  <2>3. CASE SupervisorPolls(s)
    BY <1>0, <2>3 DEF SupervisorPolls
  <2>4. ASSUME NEW p \in Proc, StartProcess(s, p) PROVE IInv'
    BY <1>0, <2>4 DEF StartProcess, StartAllowed, Unused
  <2>5. CASE StartFails(s)
    BY <1>0, <2>5 DEF StartFails
  <2>6. CASE Reap(s)
    BY <1>0, <2>6 DEF Reap, WaitReturns, CmdAfterWait
  <2>7. CASE AfterReap(s)
    BY <1>0, <2>7 DEF AfterReap
  <2> QED
    BY <1>3, <2>1, <2>2, <2>3, <2>4, <2>5, <2>6, <2>7 DEF SupervisorStep
<1>4. ASSUME NEW h \in Handlers, RestartReadsDown(h) \/ RestartSpawns(h)
      PROVE IInv'
  <2>1. CASE RestartReadsDown(h)
    BY <1>0, <2>1 DEF RestartReadsDown
  <2>2. CASE RestartSpawns(h)
    BY <1>0, <2>2, SpawnKeeps DEF RestartSpawns
  <2> QED
    BY <1>4, <2>1, <2>2
<1>5. CASE WatchdogStep
  <2>1. CASE ProbeOk
    BY <1>0, <2>1 DEF ProbeOk
  <2>2. CASE ProbeFails
    BY <1>0, <2>2 DEF ProbeFails
  <2>3. CASE ForceRestartReads
    BY <1>0, <2>3 DEF ForceRestartReads
  <2>4. CASE ForceRestartSignals
    BY <1>0, <2>4
    DEF ForceRestartSignals, KillScheduled, FailuresAfterRestart
  <2>5. CASE ForceRestartSpawns
    BY <1>0, <2>5, SpawnKeeps
    DEF ForceRestartSpawns, FailuresAfterRestart
  <2>6. CASE Settle
    BY <1>0, <2>6 DEF Settle
  <2>7. CASE WatchdogQuits
    BY <1>0, <2>7 DEF WatchdogQuits
  <2> QED
    BY <1>5, <2>1, <2>2, <2>3, <2>4, <2>5, <2>6, <2>7 DEF WatchdogStep
<1>6. ASSUME NEW p \in Proc, ProcessStep(p) PROVE IInv'
  <2> USE DEF Ends
  <2>1. CASE Crash(p)
    BY <1>0, <2>1 DEF Crash
  <2>2. CASE Hang(p)
    BY <1>0, <2>2 DEF Hang
  <2>3. CASE ObeyInterrupt(p)
    BY <1>0, <2>3 DEF ObeyInterrupt
  <2>4. CASE DelayedKill(p)
    BY <1>0, <2>4 DEF DelayedKill, KillTarget
  <2>5. CASE ContextKill(p)
    BY <1>0, <2>5 DEF ContextKill, DiesWithContext
  <2> QED
    BY <1>6, <2>1, <2>2, <2>3, <2>4, <2>5 DEF ProcessStep
<1>7. CASE UNCHANGED vars
  BY <1>0, <1>7 DEF vars
<1> QED
  BY <1>1, <1>2, <1>3, <1>4, <1>5, <1>6, <1>7 DEF Next

-----------------------------------------------------------------------------
(* Theorems                                                                *)

\* The inductive invariant holds throughout every behaviour.
LEMMA AlwaysIInv == Spec => []IInv
<1>1. Init => IInv
  BY InitIInv
<1>2. IInv /\ [Next]_vars => IInv'
  BY InvStep
<1> QED
  BY <1>1, <1>2, PTL DEF Spec

\* The variables of the supervision stay in their ranges; in particular the
\* watchdog never counts past its limit (watchdog.go:46-55).
THEOREM TypeCorrect == Spec => []TypeOK
<1>1. IInv => TypeOK
  BY DEF IInv
<1> QED
  BY <1>1, AlwaysIInv, PTL

\* However many calls of startCoreDNS run, two CoreDNS processes are never
\* alive together (dns.go:310-400).
THEOREM AtMostOneProcess == Spec => []SingleProcess
<1>1. IInv => SingleProcess
  BY DEF IInv, LiveIsCmd, SingleProcess
<1> QED
  BY <1>1, AlwaysIInv, PTL

\* A live process is always the one in dnsCmd, with a supervisor waiting for
\* it (dns.go:381-387).
THEOREM AlwaysSupervised == Spec => []Supervised
<1>1. IInv => Supervised
  BY SupervisorAssumption
  DEF IInv, LiveIsCmd, NoOrphanCmd, Supervised, Alive, TypeOK
<1> QED
  BY <1>1, AlwaysIInv, PTL

\* dnsCmd always has a supervisor that will clear it (dns.go:381-387).
THEOREM CmdAlwaysReaped == Spec => []NoOrphanCmd
<1>1. IInv => NoOrphanCmd
  BY DEF IInv
<1> QED
  BY <1>1, AlwaysIInv, PTL

\* The delayed kill of forceRestartCoreDNS ends no process but the one it was
\* scheduled for (dns.go:427-433).
THEOREM KillsOnlyItsTarget == Spec => []StoppedOnRequest
<1>1. IInv => StoppedOnRequest
  BY DEF IInv
<1> QED
  BY <1>1, AlwaysIInv, PTL

\* After appCancel no process is started, whatever the supervisors were doing
\* when the context was cancelled (dns.go:332-345).
THEOREM NothingStartsAfterShutdown == Spec => NoStartAfterShutdown
<1> DEFINE NoStart == ctxDone => \A p \in Proc : Alive(p)' => Alive(p)
<1>1. ASSUME IInv, [Next]_vars PROVE NoStart
  <2> SUFFICES ASSUME ctxDone, NEW p \in Proc, Alive(p)' PROVE Alive(p)
    OBVIOUS
  <2> USE DEF IInv, TypeOK, Alive, Ends
  <2>1. CASE \E s \in Sup : SupervisorStep(s)
    BY <1>1, <2>1
    DEF SupervisorStep, SupervisorQuits, SupervisorProceeds, SupervisorPolls,
        StartProcess, StartAllowed, StartFails, Reap, AfterReap
  <2>2. CASE WatchdogStep
    BY <1>1, <2>2
    DEF WatchdogStep, ProbeOk, ProbeFails, ForceRestartReads,
        ForceRestartSignals, ForceRestartSpawns, Settle, WatchdogQuits
  <2>3. ASSUME NEW q \in Proc, ProcessStep(q) PROVE Alive(p)
    BY <1>1, <2>3
    DEF ProcessStep, Crash, Hang, ObeyInterrupt, DelayedKill, KillTarget,
        ContextKill, DiesWithContext
  <2>4. CASE \/ Boot \/ Shutdown \/ UNCHANGED vars
             \/ \E h \in Handlers : RestartReadsDown(h) \/ RestartSpawns(h)
    BY <1>1, <2>4 DEF Boot, Shutdown, vars, RestartReadsDown, RestartSpawns
  <2> QED
    BY <1>1, <2>1, <2>2, <2>3, <2>4 DEF Next
<1>2. IInv /\ [Next]_vars => [NoStart]_vars
  BY <1>1
<1> QED
  BY <1>2, AlwaysIInv, PTL DEF Spec, NoStartAfterShutdown
=============================================================================
