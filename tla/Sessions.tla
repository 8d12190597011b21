------------------------------- MODULE Sessions -------------------------------
(***************************************************************************)
(* Logging in, and the life of a session (admin/auth.go,                   *)
(* auth_middleware.go, api_mfa.go, api_webauthn.go).                       *)
(*                                                                         *)
(* Sessions, pending registrations and failed attempts are in maps with    *)
(* locks of their own, and no handler holds one from its read to its       *)
(* write: a request is several steps, and the others go on between them.   *)
(* What the configuration says of factors is in module Credentials; here   *)
(* it is one bit, MFAEnabled.                                              *)
(*                                                                         *)
(* Passwords and codes are right or wrong; there is one client address.    *)
(* The node is set up and no replica (which refuses changes of password    *)
(* and factors).                                                           *)
(***************************************************************************)
EXTENDS Naturals, FiniteSets

CONSTANTS
  Requests,        \* requests under way at once
  Tokens,          \* values of the session cookie; NoSession is none
  NoSession,
  FailureLimit,    \* failed attempts before logins are refused (10)
  MaxChanges       \* bound: password changes

ASSUME SessionsAssumption ==
  /\ IsFiniteSet(Requests)
  /\ FailureLimit \in Nat \ {0} /\ MaxChanges \in Nat
  /\ NoSession \notin Tokens

VARIABLES
  mfa,        \* config.MFAEnabled
  sessions,   \* sessionStore
  pending,    \* tokens with an entry in pendingTOTPSecrets or waSessionStore
  failures,   \* loginFailures of the address
  req,        \* what each request has done
  changes     \* password changes so far
vars == <<mfa, sessions, pending, failures, req, changes>>

\* gen and late are ghosts: the password the session goes back to, and whether a
\* request that was under way during a change stored it.
Session == [verified : BOOLEAN, expired : BOOLEAN, gen : Nat, late : BOOLEAN]
Started(verified, gen, late) ==
  [verified |-> verified, expired |-> FALSE, gen |-> gen, late |-> late]

Idle == [pc |-> "idle", token |-> NoSession, by |-> "password",
         sess |-> Started(FALSE, 0, FALSE), gen |-> 0, late |-> FALSE]

TypeOK ==
  /\ mfa \in BOOLEAN
  /\ sessions \in [Tokens -> Session \cup {NoSession}]
  /\ pending \subseteq Tokens
  /\ failures \in Nat /\ changes \in 0 .. MaxChanges
  /\ req \in [Requests ->
       [pc : {"idle", "compare", "right", "found", "loaded"}, token : Tokens \cup {NoSession},
        by : {"password", "registration", "passkey", "code"},
        sess : Session, gen : Nat, late : BOOLEAN]]

Init ==
  /\ mfa = FALSE
  /\ sessions = [t \in Tokens |-> NoSession]
  /\ pending = {}
  /\ failures = 0 /\ changes = 0
  /\ req = [r \in Requests |-> Idle]

-----------------------------------------------------------------------------
(* The password                                                            *)

TriesLeftOver == failures <= FailureLimit                         \* mutant
TriesLeft == failures < FailureLimit

LoginCheck(r) ==
  /\ req[r].pc = "idle" /\ TriesLeft
  /\ req' = [req EXCEPT ![r] = [Idle EXCEPT !.pc = "compare", !.gen = changes]]
  /\ UNCHANGED <<mfa, sessions, pending, failures, changes>>

LoginFail(r) ==
  /\ req[r].pc = "compare"
  /\ failures' = failures + 1
  /\ req' = [req EXCEPT ![r] = Idle]
  /\ UNCHANGED <<mfa, sessions, pending, changes>>

\* The hash was read since, under the lock, and is compared after it; the counter
\* is deleted.
LoginPass(r) ==
  /\ req[r].pc = "compare"
  /\ failures' = 0
  /\ \E gen \in req[r].gen .. changes :
       req' = [req EXCEPT ![r].pc = "right", ![r].gen = gen]
  /\ UNCHANGED <<mfa, sessions, pending, changes>>

\* A session token is random: nobody has it.
Fresh(t) == sessions[t] = NoSession /\ t \notin pending /\ \A r \in Requests : req[r].token # t

\* MFAEnabled is read and the session stored.
LoginStore(r, t) ==
  /\ req[r].pc = "right" /\ Fresh(t)
  /\ sessions' = [sessions EXCEPT ![t] = Started(~mfa, req[r].gen, req[r].late)]
  /\ req' = [req EXCEPT ![r] = Idle]
  /\ UNCHANGED <<mfa, pending, failures, changes>>

\* handleAuthStatus: a request that came through Home Assistant needs no password.
IngressSession(t) ==
  /\ Fresh(t)
  /\ sessions' = [sessions EXCEPT ![t] = Started(TRUE, changes, FALSE)]
  /\ UNCHANGED <<mfa, pending, failures, req, changes>>

KeepsUnverified(s) == IF s # NoSession /\ s.verified THEN NoSession ELSE s \* mutant
AfterChange(s) == NoSession

\* handleChangePassword, which holds configLock; requests under way do not.
ChangePassword ==
  /\ changes < MaxChanges /\ changes' = changes + 1
  /\ sessions' = [t \in Tokens |-> AfterChange(sessions[t])]
  /\ req' = [r \in Requests |-> IF req[r].pc = "idle" THEN Idle ELSE [req[r] EXCEPT !.late = TRUE]]
  /\ UNCHANGED <<mfa, pending, failures>>

-----------------------------------------------------------------------------
(* The end of a session                                                    *)

\* handleLogout; authMiddleware, for a session of another address or browser.
Logout(t) ==
  /\ sessions[t] # NoSession
  /\ sessions' = [sessions EXCEPT ![t] = NoSession]
  /\ UNCHANGED <<mfa, pending, failures, req, changes>>

Holds(r, t) == req[r].pc = "loaded" /\ req[r].token = t

\* A day passes, for a session and for the copies requests hold of it.
Expire(t) ==
  /\ \/ sessions[t] # NoSession /\ ~sessions[t].expired
     \/ \E r \in Requests : Holds(r, t) /\ ~req[r].sess.expired
  /\ sessions' = [sessions EXCEPT ![t] =
       IF @ = NoSession THEN NoSession ELSE [@ EXCEPT !.expired = TRUE]]
  /\ req' = [r \in Requests |->
       IF Holds(r, t) THEN [req[r] EXCEPT !.sess.expired = TRUE] ELSE req[r]]
  /\ UNCHANGED <<mfa, pending, failures, changes>>

OutdatedVerified(s) == s # NoSession /\ s.expired /\ s.verified   \* mutant
Outdated(s) == s # NoSession /\ s.expired

\* The five-minute worker: expired sessions go, the failures are counted down.
Cleanup ==
  /\ failures > 0 \/ \E t \in Tokens : Outdated(sessions[t])
  /\ failures' = IF failures > 0 THEN failures - 1 ELSE 0
  /\ sessions' = [t \in Tokens |-> IF Outdated(sessions[t]) THEN NoSession ELSE sessions[t]]
  /\ UNCHANGED <<mfa, pending, req, changes>>

Restart ==
  /\ sessions' = [t \in Tokens |-> NoSession]
  /\ pending' = {}
  /\ failures' = 0
  /\ req' = [r \in Requests |-> Idle]
  /\ UNCHANGED <<mfa, changes>>

-----------------------------------------------------------------------------
(* The second factor                                                       *)

\* handleTOTPSetup and handleWebAuthnRegisterStart, behind authMiddleware.
Register(t) ==
  /\ sessions[t] # NoSession /\ ~sessions[t].expired
  /\ pending' = pending \cup {t}
  /\ UNCHANGED <<mfa, sessions, failures, req, changes>>

\* handleTOTPVerify and handleWebAuthnRegisterFinish, up to the save.  The session
\* may be gone by now; the pending entry is enough.
Enroll(r, t) ==
  /\ req[r].pc = "idle" /\ t \in pending
  /\ mfa' = TRUE
  /\ req' = [req EXCEPT ![r] = [Idle EXCEPT !.pc = "found", !.token = t, !.by = "registration"]]
  /\ UNCHANGED <<sessions, pending, failures, changes>>

\* handleWebAuthnLoginFinish, up to the save, with a cookie of any age.
PasskeyLogin(r, t) ==
  /\ req[r].pc = "idle" /\ mfa
  /\ req' = [req EXCEPT ![r] =
       [Idle EXCEPT !.pc = "found", !.token = t, !.by = "passkey", !.gen = changes]]
  /\ UNCHANGED <<mfa, sessions, pending, failures, changes>>

\* handleMFAChallenge, up to the comparison of the code.
Challenge(r, t) ==
  /\ req[r].pc = "idle"
  /\ sessions[t] # NoSession
  /\ req' = [req EXCEPT ![r] =
       [Idle EXCEPT !.pc = "loaded", !.token = t, !.by = "code", !.sess = sessions[t]]]
  /\ UNCHANGED <<mfa, sessions, pending, failures, changes>>

\* The session is loaded.
LoadSession(r) ==
  /\ req[r].pc = "found"
  /\ sessions[req[r].token] # NoSession
  /\ req' = [req EXCEPT ![r].pc = "loaded", ![r].sess = sessions[req[r].token]]
  /\ UNCHANGED <<mfa, sessions, pending, failures, changes>>

\* The entry used is deleted; one of the other kind may stay.
Forget(t) == pending' \in {pending, pending \ {t}}

\* There is none: a registration is done, a passkey login starts one.
NoneToLoad(r) ==
  /\ req[r].pc = "found" /\ sessions[req[r].token] = NoSession
  /\ \/ /\ req[r].by = "registration"
        /\ req' = [req EXCEPT ![r] = Idle]
        /\ Forget(req[r].token)
     \/ /\ req[r].by = "passkey"
        /\ req' = [req EXCEPT ![r].pc = "loaded",
                              ![r].sess = Started(TRUE, req[r].gen, req[r].late)]
        /\ UNCHANGED pending
  /\ UNCHANGED <<mfa, sessions, failures, changes>>

\* The copy is stored as verified, whether or not the session is still there.
StoreVerified(r) ==
  LET s == req[r].sess
  IN /\ req[r].pc = "loaded"
     /\ sessions' = [sessions EXCEPT ![req[r].token] =
          [s EXCEPT !.verified = TRUE, !.late = s.late \/ req[r].late]]
     /\ IF req[r].by = "code" THEN UNCHANGED pending ELSE Forget(req[r].token)
     /\ req' = [req EXCEPT ![r] = Idle]
     /\ UNCHANGED <<mfa, failures, changes>>

WrongCode(r) ==
  /\ req[r].pc = "loaded" /\ req[r].by = "code"
  /\ req' = [req EXCEPT ![r] = Idle]
  /\ UNCHANGED <<mfa, sessions, pending, failures, changes>>

\* handleMFADelete of the last factor, handleMFADisable.
DisableMFA ==
  /\ mfa /\ mfa' = FALSE
  /\ UNCHANGED <<sessions, pending, failures, req, changes>>

-----------------------------------------------------------------------------

Step(r) ==
  \/ LoginCheck(r) \/ LoginFail(r) \/ LoginPass(r)
  \/ LoadSession(r) \/ NoneToLoad(r) \/ StoreVerified(r) \/ WrongCode(r)
  \/ \E t \in Tokens : LoginStore(r, t) \/ Enroll(r, t) \/ PasskeyLogin(r, t) \/ Challenge(r, t)

Next ==
  \/ \E r \in Requests : Step(r)
  \/ \E t \in Tokens : IngressSession(t) \/ Logout(t) \/ Expire(t) \/ Register(t)
  \/ Cleanup \/ Restart \/ ChangePassword \/ DisableMFA

Spec == Init /\ [][Next]_vars

\* Time passes and the worker runs.
FairSpec == Spec /\ WF_vars(Cleanup) /\ \A t \in Tokens : WF_vars(Expire(t))

-----------------------------------------------------------------------------
(* Properties                                                              *)

\* Attempts that passed the check together may exceed the limit, each by one, and
\* no more (handleLogin, between its two uses of failureLock).
FailuresBounded == failures < FailureLimit + Cardinality(Requests)

\* A session that goes back to a password changed since exists only if a request
\* that was under way during the change stored it (handleChangePassword against
\* handleLogin and the handlers that load a session and store it again).
OldSessionsAreLate ==
  \A t \in Tokens : sessions[t] # NoSession /\ sessions[t].gen < changes => sessions[t].late

\* Every session ends, those stored again after their deletion too (cleanupSessions,
\* and an ExpiresAt that every copy keeps).
SessionsEnd == \A t \in Tokens : sessions[t] # NoSession ~> sessions[t] = NoSession
===============================================================================
