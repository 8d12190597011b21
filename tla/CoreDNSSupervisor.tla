-------------------------- MODULE CoreDNSSupervisor --------------------------
(***************************************************************************)
(* The supervision of the CoreDNS child process by the Go backend:         *)
(* startCoreDNS, restartCoreDNS and forceRestartCoreDNS of admin/dns.go,   *)
(* the watchdog of admin/watchdog.go and the boot sequence of main.go.     *)
(*                                                                         *)
(* Every call of startCoreDNS is a goroutine of its own; restartCoreDNS    *)
(* and forceRestartCoreDNS start further ones, and none of them ends       *)
(* before the application context is cancelled.  What keeps a single       *)
(* CoreDNS process on port 53 is only the discipline on dnsCmd.            *)
(***************************************************************************)
EXTENDS FiniteSets, Naturals

CONSTANTS
  Sup,        \* slots for supervisor goroutines (calls of startCoreDNS)
  Proc,       \* slots for CoreDNS processes (exec.Cmd objects)
  Handlers,   \* callers of restartCoreDNS (API handlers, updaters)
  MaxFailures,\* consecutive failed probes that trigger a restart (3)
  NoProc      \* dnsCmd == nil

ASSUME SupervisorAssumption ==
  /\ NoProc \notin Proc
  /\ MaxFailures \in Nat \ {0}

VARIABLES
  booted,      \* main.go has reached "go startCoreDNS(appCtx)"
  ctxDone,     \* appCtx has been cancelled
  sup,         \* program counter of each supervisor goroutine
  own,         \* the cmd a supervisor started and waits for
  dnsCmd,      \* the shared variable, guarded by dnsCmdLock
  proc,        \* life cycle of each process
  intr,        \* processes that were sent os.Interrupt
  killPending, \* processes a delayed p.Kill() is scheduled for
  willSpawn,   \* handlers that read "not running" and have not spawned yet
  failures,    \* failureCount of the watchdog
  wdPc,        \* program counter of the watchdog
  wdCmd        \* the cmd forceRestartCoreDNS has read

vars == <<booted, ctxDone, sup, own, dnsCmd, proc, intr, killPending,
          willSpawn, failures, wdPc, wdCmd>>

supVars == <<sup, own>>
wdVars  == <<failures, wdPc, wdCmd>>

SupState  == {"none", "check", "start", "wait", "pause", "returned"}
ProcState == {"unborn", "running", "hung", "crashed", "stopped"}
WdState   == {"tick", "restart", "signal", "settle", "returned"}

Alive(p) == proc[p] \in {"running", "hung"}

\* No variable of the program refers to p: the slot can stand for the fresh
\* exec.Cmd the next start creates.
Unused(p) ==
  /\ ~Alive(p)
  /\ p \notin killPending
  /\ p \notin {dnsCmd, wdCmd}
  /\ \A s \in Sup : own[s] # p

Serving  == \E p \in Proc : proc[p] = "running"

TypeOK ==
  /\ booted \in BOOLEAN
  /\ ctxDone \in BOOLEAN
  /\ sup \in [Sup -> SupState]
  /\ own \in [Sup -> Proc \cup {NoProc}]
  /\ dnsCmd \in Proc \cup {NoProc}
  /\ proc \in [Proc -> ProcState]
  /\ intr \subseteq Proc
  /\ killPending \subseteq Proc
  /\ willSpawn \subseteq Handlers
  /\ failures \in 0 .. MaxFailures
  /\ wdPc \in WdState
  /\ wdCmd \in Proc \cup {NoProc}

Init ==
  /\ booted = FALSE
  /\ ctxDone = FALSE
  /\ sup = [s \in Sup |-> "none"]
  /\ own = [s \in Sup |-> NoProc]
  /\ dnsCmd = NoProc
  /\ proc = [p \in Proc |-> "unborn"]
  /\ intr = {}
  /\ killPending = {}
  /\ willSpawn = {}
  /\ failures = 0
  /\ wdPc = "tick"
  /\ wdCmd = NoProc

-----------------------------------------------------------------------------
(* Supervisor goroutines                                                   *)

\* "go startCoreDNS(appCtx)".  When every slot of Sup is taken the new
\* goroutine is not tracked: it would only poll like the ones there are.
SpawnSupervisor ==
  IF \E s \in Sup : sup[s] = "none"
  THEN \E s \in Sup : /\ sup[s] = "none"
                      /\ sup' = [sup EXCEPT ![s] = "check"]
  ELSE UNCHANGED sup

\* main.go: the first supervisor starts once the blocklists are loaded.
Boot ==
  /\ ~booted
  /\ booted' = TRUE
  /\ SpawnSupervisor
  /\ UNCHANGED <<ctxDone, own, dnsCmd, proc, intr, killPending, willSpawn,
                 wdVars>>

\* The select at the head of the loop, context cancelled: the process in
\* dnsCmd is interrupted and the goroutine returns.
SupervisorQuits(s) ==
  /\ sup[s] = "check"
  /\ ctxDone
  /\ intr' = intr \cup ({dnsCmd} \ {NoProc})
  /\ sup' = [sup EXCEPT ![s] = "returned"]
  /\ UNCHANGED <<booted, ctxDone, own, dnsCmd, proc, killPending, willSpawn,
                 wdVars>>

\* The default branch of that select: the context was alive when it was read.
SupervisorProceeds(s) ==
  /\ sup[s] = "check"
  /\ ~ctxDone
  /\ sup' = [sup EXCEPT ![s] = "start"]
  /\ UNCHANGED <<booted, ctxDone, own, dnsCmd, proc, intr, killPending,
                 willSpawn, wdVars>>

\* Under dnsCmdLock: another supervisor's process is there, poll in a second.
SupervisorPolls(s) ==
  /\ sup[s] = "start"
  /\ dnsCmd # NoProc
  /\ sup' = [sup EXCEPT ![s] = IF ctxDone THEN "returned" ELSE "check"]
  /\ UNCHANGED <<booted, ctxDone, own, dnsCmd, proc, intr, killPending,
                 willSpawn, wdVars>>

\* The check under dnsCmdLock, and exec.CommandContext's refusal to start
\* anything on a done context.
StartAllowedUnchecked  == ~ctxDone           \* mutant: no check of dnsCmd
StartAllowedAnyContext == dnsCmd = NoProc    \* mutant: exec.Command
StartAllowed           == dnsCmd = NoProc /\ ~ctxDone

\* Under dnsCmdLock: cmd.Start succeeds and dnsCmd is published before the
\* lock is released.
StartProcess(s, p) ==
  /\ sup[s] = "start"
  /\ StartAllowed
  /\ Unused(p)
  /\ proc' = [proc EXCEPT ![p] = "running"]
  /\ intr' = intr \ {p}
  /\ dnsCmd' = p
  /\ own' = [own EXCEPT ![s] = p]
  /\ sup' = [sup EXCEPT ![s] = "wait"]
  /\ UNCHANGED <<booted, ctxDone, killPending, willSpawn, wdVars>>

\* cmd.Start fails (missing binary, fork failure, done context): try again.
StartFails(s) ==
  /\ sup[s] = "start"
  /\ dnsCmd = NoProc
  /\ sup' = [sup EXCEPT ![s] = IF ctxDone THEN "returned" ELSE "check"]
  /\ UNCHANGED <<booted, ctxDone, own, dnsCmd, proc, intr, killPending,
                 willSpawn, wdVars>>

\* What cmd.Wait waits for, and what dnsCmd is set to after it.
WaitReturnsEarly(p) == proc[p] # "running"   \* mutant: a hung process counts
WaitReturns(p)      == ~Alive(p)
CmdAfterWait        == NoProc

\* cmd.Wait returns once the process is gone; dnsCmd is cleared under lock.
Reap(s) ==
  /\ sup[s] = "wait"
  /\ WaitReturns(own[s])
  /\ dnsCmd' = CmdAfterWait
  /\ own' = [own EXCEPT ![s] = NoProc]
  /\ sup' = [sup EXCEPT ![s] = "pause"]
  /\ UNCHANGED <<booted, ctxDone, proc, intr, killPending, willSpawn, wdVars>>

\* The select after Wait: return, or sleep a second and loop.
AfterReap(s) ==
  /\ sup[s] = "pause"
  /\ sup' = [sup EXCEPT ![s] = IF ctxDone THEN "returned" ELSE "check"]
  /\ UNCHANGED <<booted, ctxDone, own, dnsCmd, proc, intr, killPending,
                 willSpawn, wdVars>>

-----------------------------------------------------------------------------
(* restartCoreDNS                                                          *)

\* The handler reads "running" under dnsCmdLock and releases the lock.
RestartReadsDown(h) ==
  /\ h \notin willSpawn
  /\ dnsCmd = NoProc
  /\ willSpawn' = willSpawn \cup {h}
  /\ UNCHANGED <<booted, ctxDone, supVars, dnsCmd, proc, intr, killPending,
                 wdVars>>

\* ... and only then starts the goroutine, whatever happened in between.
RestartSpawns(h) ==
  /\ h \in willSpawn
  /\ willSpawn' = willSpawn \ {h}
  /\ SpawnSupervisor
  /\ UNCHANGED <<booted, ctxDone, own, dnsCmd, proc, intr, killPending,
                 wdVars>>

-----------------------------------------------------------------------------
(* The watchdog and forceRestartCoreDNS                                    *)

\* The probe resolved: only a serving CoreDNS answers.
ProbeOk ==
  /\ wdPc = "tick"
  /\ ~ctxDone
  /\ Serving
  /\ failures' = 0
  /\ UNCHANGED <<booted, ctxDone, supVars, dnsCmd, proc, intr, killPending,
                 willSpawn, wdPc, wdCmd>>

\* The probe failed: CoreDNS is absent or hung, or it serves and its upstream
\* did not answer in five seconds.  The third failure in a row restarts.
ProbeFails ==
  /\ wdPc = "tick"
  /\ failures' = failures + 1
  /\ wdPc' = IF failures' >= MaxFailures THEN "restart" ELSE "tick"
  /\ UNCHANGED <<booted, ctxDone, supVars, dnsCmd, proc, intr, killPending,
                 willSpawn, wdCmd>>

\* forceRestartCoreDNS reads dnsCmd under the lock and releases it.
ForceRestartReads ==
  /\ wdPc = "restart"
  /\ wdCmd' = dnsCmd
  /\ wdPc' = "signal"
  /\ UNCHANGED <<booted, ctxDone, supVars, dnsCmd, proc, intr, killPending,
                 willSpawn, failures>>

KillScheduledNever   == {}                   \* mutant: interrupt only
KillScheduled        == {wdCmd}
FailuresAfterRestart == 0

\* There was a process: interrupt it and kill it two seconds later.
ForceRestartSignals ==
  /\ wdPc = "signal"
  /\ wdCmd # NoProc
  /\ intr' = intr \cup {wdCmd}
  /\ killPending' = killPending \cup KillScheduled
  /\ wdCmd' = NoProc
  /\ failures' = FailuresAfterRestart
  /\ wdPc' = "settle"
  /\ UNCHANGED <<booted, ctxDone, supVars, dnsCmd, proc, willSpawn>>

\* There was none: start a further supervisor.
ForceRestartSpawns ==
  /\ wdPc = "signal"
  /\ wdCmd = NoProc
  /\ SpawnSupervisor
  /\ failures' = FailuresAfterRestart
  /\ wdPc' = "settle"
  /\ UNCHANGED <<booted, ctxDone, own, dnsCmd, proc, intr, killPending,
                 willSpawn, wdCmd>>

\* The ten seconds after a restart, then the next tick.
Settle ==
  /\ wdPc = "settle"
  /\ ~ctxDone
  /\ wdPc' = "tick"
  /\ UNCHANGED <<booted, ctxDone, supVars, dnsCmd, proc, intr, killPending,
                 willSpawn, failures, wdCmd>>

\* ctx.Done in either select of the watchdog.
WatchdogQuits ==
  /\ wdPc \in {"tick", "settle"}
  /\ ctxDone
  /\ wdPc' = "returned"
  /\ UNCHANGED <<booted, ctxDone, supVars, dnsCmd, proc, intr, killPending,
                 willSpawn, failures, wdCmd>>

-----------------------------------------------------------------------------
(* Processes and the environment                                           *)

Ends(p, how) == proc' = [proc EXCEPT ![p] = how]

\* CoreDNS dies on its own (bad Corefile, out of memory, panic).
Crash(p) ==
  /\ Alive(p)
  /\ Ends(p, "crashed")
  /\ UNCHANGED <<booted, ctxDone, supVars, dnsCmd, intr, killPending,
                 willSpawn, wdVars>>

\* CoreDNS stops answering and ignores os.Interrupt from now on.
Hang(p) ==
  /\ proc[p] = "running"
  /\ Ends(p, "hung")
  /\ UNCHANGED <<booted, ctxDone, supVars, dnsCmd, intr, killPending,
                 willSpawn, wdVars>>

\* A serving CoreDNS shuts down on os.Interrupt.
ObeyInterrupt(p) ==
  /\ proc[p] = "running"
  /\ p \in intr
  /\ Ends(p, "stopped")
  /\ UNCHANGED <<booted, ctxDone, supVars, dnsCmd, intr, killPending,
                 willSpawn, wdVars>>

\* The goroutine holds the os.Process it was created for.
KillTargetCurrent(p) == IF dnsCmd = NoProc THEN p ELSE dnsCmd  \* mutant
KillTarget(p)        == p

\* The goroutine of forceRestartCoreDNS, two seconds on: p.Kill() addresses
\* the process it was created for and does nothing once that is gone.
DelayedKill(p) ==
  /\ p \in killPending
  /\ killPending' = killPending \ {p}
  /\ IF Alive(KillTarget(p)) THEN Ends(KillTarget(p), "stopped") ELSE UNCHANGED proc
  /\ UNCHANGED <<booted, ctxDone, supVars, dnsCmd, intr, willSpawn, wdVars>>

InterruptedByContext(p) == proc[p] = "running"  \* mutant: no SIGKILL
DiesWithContext(p)      == Alive(p)

\* exec.CommandContext kills its process when the context is done.
ContextKill(p) ==
  /\ ctxDone
  /\ DiesWithContext(p)
  /\ Ends(p, "stopped")
  /\ UNCHANGED <<booted, ctxDone, supVars, dnsCmd, intr, killPending,
                 willSpawn, wdVars>>

\* main.go on SIGTERM: appCancel().
Shutdown ==
  /\ ~ctxDone
  /\ ctxDone' = TRUE
  /\ UNCHANGED <<booted, supVars, dnsCmd, proc, intr, killPending, willSpawn,
                 wdVars>>

-----------------------------------------------------------------------------
SupervisorStep(s) ==
  \/ SupervisorQuits(s)
  \/ SupervisorProceeds(s)
  \/ SupervisorPolls(s)
  \/ \E p \in Proc : StartProcess(s, p)
  \/ StartFails(s)
  \/ Reap(s)
  \/ AfterReap(s)

WatchdogStep ==
  \/ ProbeOk
  \/ ProbeFails
  \/ ForceRestartReads
  \/ ForceRestartSignals
  \/ ForceRestartSpawns
  \/ Settle
  \/ WatchdogQuits

ProcessStep(p) ==
  \/ Crash(p)
  \/ Hang(p)
  \/ ObeyInterrupt(p)
  \/ DelayedKill(p)
  \/ ContextKill(p)

Next ==
  \/ Boot
  \/ Shutdown
  \/ \E s \in Sup : SupervisorStep(s)
  \/ \E h \in Handlers : RestartReadsDown(h) \/ RestartSpawns(h)
  \/ WatchdogStep
  \/ \E p \in Proc : ProcessStep(p)

Spec == Init /\ [][Next]_vars

(***************************************************************************)
(* Fairness: goroutines that can run do run, timers fire, the initial      *)
(* downloads end (they have timeouts), and a start that is retried every   *)
(* second does not fail for ever.  Nothing is assumed of crashes, hangs,   *)
(* API calls or the shutdown.                                              *)
(***************************************************************************)
Fairness ==
  /\ WF_vars(Boot)
  /\ \A s \in Sup : WF_vars(SupervisorStep(s))
  /\ SF_vars(\E s \in Sup, p \in Proc : StartProcess(s, p))
  /\ \A h \in Handlers : WF_vars(RestartSpawns(h))
  /\ WF_vars(WatchdogStep)
  /\ \A p \in Proc : /\ WF_vars(ObeyInterrupt(p))
                     /\ WF_vars(DelayedKill(p))
                     /\ WF_vars(ContextKill(p))

FairSpec == Spec /\ Fairness

-----------------------------------------------------------------------------
(* Properties                                                              *)

\* However many goroutines run startCoreDNS, at most one CoreDNS process is
\* alive: two would fight for port 53 (dns.go:323-352).
SingleProcess == \A p, q \in Proc : Alive(p) /\ Alive(q) => p = q

\* A live process is the one in dnsCmd and some supervisor waits for it: it
\* can be interrupted and its exit is noticed (dns.go:381-387).
Supervised ==
  \A p \in Proc : Alive(p) =>
    /\ dnsCmd = p
    /\ \E s \in Sup : sup[s] = "wait" /\ own[s] = p

\* dnsCmd is never left pointing at a process nobody will reap, which would
\* keep every supervisor polling and CoreDNS down for ever.
NoOrphanCmd ==
  dnsCmd # NoProc => \E s \in Sup : sup[s] = "wait" /\ own[s] = dnsCmd

\* A process ends by a signal of the backend only if that very process was
\* addressed: the kill scheduled for a predecessor, two seconds late, never
\* takes its healthy successor down (dns.go:427-433).
StoppedOnRequest ==
  \A p \in Proc : proc[p] = "stopped" => p \in intr \/ ctxDone

\* Once the context is cancelled no CoreDNS process is started any more,
\* although supervisors may be past their ctx check (dns.go:332-345).
NoStartAfterShutdown ==
  [][ctxDone => \A p \in Proc : Alive(p)' => Alive(p)]_vars

\* A missing, crashed or hung CoreDNS is replaced by a serving one, by its
\* supervisor or by the watchdog, unless the program is shut down.
Recovers == (booted /\ ~Serving) ~> (Serving \/ ctxDone)

\* After the shutdown no CoreDNS process is left behind.
ShutsDown == ctxDone ~> [](\A p \in Proc : ~Alive(p))

-----------------------------------------------------------------------------
(* The inductive invariant of the proofs                                   *)

\* A waiting supervisor waits for the process in dnsCmd; others own nothing.
WaitersOwnCmd ==
  \A s \in Sup : IF sup[s] = "wait"
                 THEN own[s] # NoProc /\ dnsCmd = own[s]
                 ELSE own[s] = NoProc

OneWaiter == \A s, t \in Sup : sup[s] = "wait" /\ sup[t] = "wait" => s = t

LiveIsCmd == \A p \in Proc : Alive(p) => dnsCmd = p

\* Between two probes the watchdog has not reached its limit.
BelowLimit == wdPc \in {"tick", "settle"} => failures < MaxFailures

IInv ==
  /\ TypeOK
  /\ WaitersOwnCmd
  /\ OneWaiter
  /\ LiveIsCmd
  /\ NoOrphanCmd
  /\ killPending \subseteq intr
  /\ StoppedOnRequest
  /\ BelowLimit
=============================================================================
