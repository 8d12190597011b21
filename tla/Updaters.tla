------------------------------- MODULE Updaters -------------------------------
(***************************************************************************)
(* The background workers that follow the settings: the upstream health    *)
(* checker, with the list in the Corefile CoreDNS forwards to, and the     *)
(* updater of the malicious-address feed (admin/dns_upstream.go,           *)
(* updateCorefile in dns_corefile.go, malicious.go, and the handlers that  *)
(* change what they follow: handleConfig, toggle_malicious_ip_blocking).   *)
(*                                                                         *)
(* The Corefile lists the upstreams of the last check, not those of the    *)
(* settings: an upstream gets into it by being found healthy.  A check     *)
(* regenerates the Corefile only for smart selection.  updateCorefile runs *)
(* in the check and in handlers, reads under locks and writes after them.  *)
(* The updater of the feed waits for its ticker with the settings it read  *)
(* and is told of a change through a channel that holds one signal.        *)
(*                                                                         *)
(* Plain and encrypted upstreams are one set here; their order, which is   *)
(* by latency, and the addresses of the feed are left out.                 *)
(***************************************************************************)
EXTENDS Naturals, FiniteSets

CONSTANTS
  Servers,   \* the upstreams there are
  Handlers,  \* goroutines that regenerate the Corefile, besides the check
  Fallback,  \* the resolvers written for an empty list (8.8.8.8, 1.1.1.1)
  Feeds, Off, \* settings of the feed (an interval); it is off
  MaxEdits,  \* bound: changes of the settings, and restarts
  MaxFlips   \* bound: upstreams that go up or down

ASSUME UpdatersAssumption ==
  /\ MaxEdits \in Nat /\ MaxFlips \in Nat
  /\ Off \in Feeds
  /\ Fallback # {} /\ Fallback \cap Servers = {}

VARIABLES
  configured, smart, \* config.Upstreams with UpstreamDoT; UseFastestUpstream
  feed,              \* MaliciousIPBlockingEnabled, MaliciousIPInterval
  up,                \* what answers
  healthy,           \* healthyUpstreams with healthyDoT
  check,             \* the check under way; isCheckingUpstreams is that there is one
  writer,            \* what each handler still has to do
  corefile,          \* the list in the Corefile
  updater,           \* startMaliciousUpdater, with the setting it read
  signal,            \* maliciousSignal is full
  edits, flips,      \* bounded
  lag,               \* ghost: why the Corefile may lag behind healthy
  untold             \* ghost: the feed was changed and the updater not told since
checkVars == <<up, healthy, check, corefile, flips, lag>>
feedVars  == <<updater, signal, untold>>
settings  == <<configured, smart, feed>>
updatersVars == <<settings, checkVars, feedVars, writer, edits>>

Idle == [pc |-> "idle", ups |-> {}, smart |-> FALSE, left |-> {}, found |-> {}]
Out == [pc |-> "out", ups |-> {}]

UpdatersTypeOK ==
  /\ configured \subseteq Servers /\ smart \in BOOLEAN /\ up \subseteq Servers
  /\ healthy \subseteq Servers
  /\ check \in [pc : {"idle", "probe", "clone", "write"}, ups : SUBSET Servers, smart : BOOLEAN,
                left : SUBSET Servers, found : SUBSET Servers]
  /\ writer \in [Handlers -> [pc : {"out", "notify", "clone", "write"}, ups : SUBSET Servers]]
  /\ feed \in Feeds /\ signal \in BOOLEAN /\ untold \in BOOLEAN
  /\ updater \in [pc : {"read", "wait", "sync"}, view : Feeds]
  /\ corefile \subseteq Servers \cup Fallback
  /\ edits \in 0 .. MaxEdits /\ flips \in 0 .. MaxFlips
  /\ lag \subseteq {"smart was off", "overtaken"}

\* main: a Corefile is written before the first check has found anything.
UpdatersInit ==
  /\ configured \in SUBSET Servers /\ smart \in BOOLEAN /\ up \in SUBSET Servers
  /\ feed \in Feeds /\ updater = [pc |-> "read", view |-> Off]
  /\ signal = FALSE /\ untold = FALSE
  /\ healthy = {} /\ check = Idle /\ writer = [h \in Handlers |-> Out]
  /\ corefile = Fallback
  /\ edits = 0 /\ flips = 0 /\ lag = {}

Listed(ups) == IF ups = {} THEN Fallback ELSE ups

-----------------------------------------------------------------------------
(* The check                                                               *)

\* checkAll, if no check is under way: by the ticker, the settings page, a tool.
CheckStart ==
  /\ check.pc = "idle"
  /\ check' = [pc |-> "probe", ups |-> configured, smart |-> smart, left |-> configured,
               found |-> {}]
  /\ UNCHANGED <<settings, up, healthy, writer, corefile, edits, flips, lag, feedVars>>

\* Each upstream is probed on its own, with three attempts.
Probe(u) ==
  /\ check.pc = "probe" /\ u \in check.left
  /\ check' = [check EXCEPT !.left = @ \ {u}, !.found = IF u \in up THEN @ \cup {u} ELSE @]
  /\ UNCHANGED <<settings, up, healthy, writer, corefile, edits, flips, lag, feedVars>>

\* Who wants the Corefile regenerated, by the setting the check started with.
SomeAreDown == check.smart /\ check.found # check.ups            \* mutant
SomethingNew == check.smart /\ check.found # healthy

KeepsFlag == IF SomethingNew THEN [check EXCEPT !.pc = "clone"] ELSE check \* mutant
AfterCheck == IF SomethingNew THEN [check EXCEPT !.pc = "clone"] ELSE Idle

ReplaceHealthy ==
  /\ check.pc = "probe" /\ check.left = {}
  /\ healthy' = check.found
  /\ check' = AfterCheck
  /\ lag' = IF ~check.smart /\ check.found # healthy THEN lag \cup {"smart was off"} ELSE lag
  /\ UNCHANGED <<settings, up, writer, corefile, edits, flips, feedVars>>

-----------------------------------------------------------------------------
(* updateCorefile                                                          *)

WriteCorefile(ups) ==
  /\ corefile' = Listed(ups)
  /\ lag' = IF ups = healthy THEN {} ELSE {"overtaken"}
  /\ UNCHANGED <<settings, up, healthy, edits, flips, feedVars>>

CheckClone ==
  /\ check.pc = "clone"
  /\ check' = [check EXCEPT !.pc = "write", !.ups = healthy]
  /\ UNCHANGED <<settings, up, healthy, writer, corefile, edits, flips, lag, feedVars>>

CheckWrite ==
  /\ check.pc = "write"
  /\ WriteCorefile(check.ups)
  /\ check' = Idle /\ UNCHANGED writer

Clone(h) ==
  /\ writer[h].pc = "clone"
  /\ writer' = [writer EXCEPT ![h] = [pc |-> "write", ups |-> healthy]]
  /\ UNCHANGED <<settings, checkVars, feedVars, edits>>

WriteOut(h) ==
  /\ writer[h].pc = "write"
  /\ WriteCorefile(writer[h].ups)
  /\ writer' = [writer EXCEPT ![h] = Out] /\ UNCHANGED check

-----------------------------------------------------------------------------
(* The feed                                                                *)

UpdaterReads ==
  /\ updater.pc = "read"
  /\ updater' = [pc |-> "wait", view |-> feed]
  /\ UNCHANGED <<settings, checkVars, writer, edits, signal, untold>>

\* The ticker: syncMaliciousIPs downloads, for up to thirty seconds, and returns.
UpdaterSyncs ==
  /\ \/ updater.pc = "wait" /\ updater.view # Off /\ updater' = [updater EXCEPT !.pc = "sync"]
     \/ updater.pc = "sync" /\ updater' = [updater EXCEPT !.pc = "wait"]
  /\ UNCHANGED <<settings, checkVars, writer, edits, signal, untold>>

UpdaterIsTold ==
  /\ updater.pc = "wait" /\ signal
  /\ signal' = FALSE
  /\ updater' = [updater EXCEPT !.pc = "read"]
  /\ UNCHANGED <<settings, checkVars, writer, edits, untold>>

\* restartMaliciousUpdater: a signal that finds the channel full is dropped.  The
\* settings page regenerates the Corefile after it, the tool does not.
IfItWaits == signal \/ updater.pc = "wait"                        \* mutant
Buffered == TRUE

Notify(h) ==
  /\ writer[h].pc = "notify"
  /\ signal' = Buffered
  /\ untold' = FALSE
  /\ \E next \in {"clone", "out"} : writer' = [writer EXCEPT ![h].pc = next]
  /\ UNCHANGED <<settings, checkVars, edits, updater>>

-----------------------------------------------------------------------------
(* The settings, and the rest                                              *)

\* The settings are changed and saved, and what is next is done.
Change(h, ways) ==
  /\ edits < MaxEdits /\ edits' = edits + 1
  /\ writer[h].pc = "out"
  /\ feed' \in Feeds
  /\ \E next \in ways :
       /\ writer' = [writer EXCEPT ![h] = [pc |-> next, ups |-> {}]]
       /\ untold' = (untold \/ (next # "notify" /\ feed' # feed))
  /\ UNCHANGED <<checkVars, updater, signal>>

\* handleConfig and the tool tell the updater; a restore and a pull from the primary
\* do not, and a tool whose save failed does nothing more.  With nothing changed it
\* is any handler that regenerates the Corefile.
ChangeSettings(h) ==
  /\ configured' \in SUBSET Servers /\ smart' \in BOOLEAN
  /\ Change(h, {"notify", "clone", "out"})

\* toggle_malicious_ip_blocking: only the feed, and no Corefile.
ToggleFeed(h) == Change(h, {"notify", "out"}) /\ UNCHANGED <<configured, smart>>

Flip(u) ==
  /\ flips < MaxFlips /\ flips' = flips + 1
  /\ up' = (up \ {u}) \cup ({u} \ up)
  /\ UNCHANGED <<settings, healthy, check, writer, corefile, edits, lag, feedVars>>

Restart ==
  /\ edits < MaxEdits /\ edits' = edits + 1
  /\ healthy' = {} /\ check' = Idle /\ writer' = [h \in Handlers |-> Out]
  /\ corefile' = Fallback /\ lag' = {}
  /\ updater' = [pc |-> "read", view |-> Off] /\ signal' = FALSE /\ untold' = FALSE
  /\ UNCHANGED <<settings, up, flips>>

-----------------------------------------------------------------------------

CheckStep == CheckStart \/ (\E u \in Servers : Probe(u)) \/ ReplaceHealthy \/ CheckClone \/ CheckWrite
HandlerStep(h) == Notify(h) \/ Clone(h) \/ WriteOut(h)

UpdatersNext ==
  \/ CheckStep
  \/ UpdaterReads \/ UpdaterSyncs \/ UpdaterIsTold
  \/ \E h \in Handlers : HandlerStep(h) \/ ChangeSettings(h) \/ ToggleFeed(h)
  \/ \E u \in Servers : Flip(u)
  \/ Restart

UpdatersSpec == UpdatersInit /\ [][UpdatersNext]_updatersVars

\* The tickers never stop and every call returns; a channel that is ready when a
\* ticker is ready too is taken some time.
UpdatersFairSpec ==
  /\ UpdatersSpec
  /\ WF_updatersVars(CheckStep) /\ \A h \in Handlers : WF_updatersVars(HandlerStep(h))
  /\ WF_updatersVars(UpdaterReads) /\ WF_updatersVars(UpdaterSyncs) /\ SF_updatersVars(UpdaterIsTold)

-----------------------------------------------------------------------------
(* Properties                                                              *)

\* Between checks the Corefile lists what the last one found, but for two cases:
\* smart selection was off when the check that found something new started, or a
\* regeneration that had read the list before wrote it after (checkAll,
\* updateCorefile).
LagsOnlyIf ==
  check.pc \in {"idle", "probe"} /\ lag = {} => corefile = Listed(healthy)

\* But for these cases CoreDNS ends up forwarding to the upstreams that are
\* configured and answer, whatever was changed during a check.
Converges == <>[](lag = {}) => <>[](corefile = Listed(configured \cap up))

\* The updater ends up with the setting in force: no signal is lost by dropping one,
\* whatever it is doing when it comes (restartMaliciousUpdater).
FeedFollows == <>[]~untold => <>[](updater.view = feed)
===============================================================================
