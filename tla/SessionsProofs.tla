--------------------------- MODULE SessionsProofs ---------------------------
(***************************************************************************)
(* Proofs about Sessions for any number of requests, cookies, attempts and *)
(* changes of the password.                                                *)
(***************************************************************************)
EXTENDS Sessions, FiniteSetTheorems, TLAPS

Request == [pc : {"idle", "compare", "right", "found", "loaded"}, token : Tokens \cup {NoSession},
            by : {"password", "registration", "passkey", "code"},
            sess : Session, gen : Nat, late : BOOLEAN]

\* What a request may store goes back to the password in force, unless the request
\* was under way when that was changed; and it has a cookie to store it under.
Sound(q) ==
  /\ q.pc \in {"compare", "right"} \/ (q.pc = "found" /\ q.by = "passkey") =>
       (q.gen < changes => q.late)
  /\ q.pc = "loaded" => (q.sess.gen < changes => q.sess.late \/ q.late)
  /\ q.pc \in {"found", "loaded"} => q.token \in Tokens

RequestsSound == \A r \in Requests : Sound(req[r])

SInv == TypeOK /\ OldSessionsAreLate /\ RequestsSound

LEMMA StartedType ==
  ASSUME NEW v \in BOOLEAN, NEW g \in Nat, NEW l \in BOOLEAN
  PROVE  /\ Started(v, g, l) \in Session
         /\ Started(v, g, l).gen = g /\ Started(v, g, l).late = l
BY DEF Started, Session

LEMMA IdleType == Idle \in Request /\ Sound(Idle) /\ Idle.pc = "idle"
<1>1. Started(FALSE, 0, FALSE) \in Session
  BY StartedType
<1> QED
  BY <1>1 DEF Idle, Request, Sound

\* One request goes on and no session changes.
LEMMA RequestGoesOn ==
  ASSUME SInv, NEW r \in Requests, NEW q \in Request, Sound(q),
         req' = [req EXCEPT ![r] = q],
         mfa' \in BOOLEAN, failures' \in Nat, pending' \subseteq Tokens,
         UNCHANGED <<sessions, changes>>
  PROVE  SInv'
<1> USE DEF SInv
<1>1. TypeOK'
  BY DEF TypeOK, Request
<1>2. OldSessionsAreLate'
  BY DEF OldSessionsAreLate
<1>3. \A s \in Requests : Sound(req'[s])
  BY DEF TypeOK, RequestsSound
<1>4. \A s \in Requests : Sound(req[s])'
  BY <1>3 DEF Sound
<1> QED
  BY <1>1, <1>2, <1>4 DEF RequestsSound

\* One session is stored by a request that is done with it.
LEMMA SessionStored ==
  ASSUME SInv, NEW r \in Requests, NEW t \in Tokens, NEW s \in Session,
         s.gen < changes => s.late,
         sessions' = [sessions EXCEPT ![t] = s],
         req' = req \/ req' = [req EXCEPT ![r] = Idle],
         pending' \subseteq Tokens,
         UNCHANGED <<mfa, failures, changes>>
  PROVE  SInv'
<1> USE DEF SInv
<1>1. \A p \in Requests : req'[p] \in Request /\ Sound(req'[p])
  BY IdleType DEF TypeOK, RequestsSound, Request
<1>2. req' \in [Requests -> Request]
  BY <1>1, IdleType DEF TypeOK, Request
<1>3. TypeOK'
  BY <1>2 DEF TypeOK, Request
<1>4. OldSessionsAreLate'
  BY DEF OldSessionsAreLate, TypeOK
<1>5. \A p \in Requests : Sound(req[p])'
  BY <1>1 DEF Sound
<1> QED
  BY <1>3, <1>4, <1>5 DEF RequestsSound

\* Sessions are deleted and nothing else matters.
LEMMA SessionsDeleted ==
  ASSUME SInv,
         sessions' \in [Tokens -> Session \cup {NoSession}],
         \A t \in Tokens : sessions'[t] \in {sessions[t], NoSession},
         failures' \in Nat, UNCHANGED <<mfa, pending, req, changes>>
  PROVE  SInv'
<1>1. TypeOK'
  BY DEF TypeOK, SInv
<1>2. OldSessionsAreLate'
  BY DEF OldSessionsAreLate, SInv
<1>3. RequestsSound'
  BY DEF RequestsSound, Sound, SInv
<1> QED
  BY <1>1, <1>2, <1>3 DEF SInv

LEMMA InitSInv == Init => SInv
<1> SUFFICES ASSUME Init PROVE SInv
  OBVIOUS
<1>1. TypeOK
  <2>1. pending \subseteq Tokens /\ failures \in Nat /\ changes \in 0 .. MaxChanges
    BY SessionsAssumption DEF Init
  <2>2. mfa \in BOOLEAN
    BY Zenon DEF Init
  <2>3. sessions \in [Tokens -> Session \cup {NoSession}]
    BY DEF Init
  <2>4. req \in [Requests -> Request]
    BY IdleType DEF Init
  <2> QED
    BY <2>1, <2>3, <2>4, <2>2 DEF TypeOK, Request
<1>2. OldSessionsAreLate /\ RequestsSound
  BY IdleType DEF Init, OldSessionsAreLate, RequestsSound
<1> QED
  BY <1>1, <1>2 DEF SInv

LEMMA PasswordStep ==
  ASSUME SInv, NEW r \in Requests, LoginCheck(r) \/ LoginFail(r) \/ LoginPass(r)
  PROVE  SInv'
<1>0. TypeOK /\ req[r] \in Request /\ Sound(req[r]) /\ changes \in Nat
  BY DEF SInv, TypeOK, Request, RequestsSound
<1>1. CASE LoginCheck(r)
  <2> DEFINE q == [Idle EXCEPT !.pc = "compare", !.gen = changes]
  <2>1. q \in Request /\ q.pc = "compare" /\ q.gen = changes
    BY <1>0, IdleType DEF Request
  <2>2. Sound(q)
    BY <1>0, <2>1 DEF Sound
  <2> HIDE DEF q
  <2> QED
    BY <1>0, <1>1, <2>1, <2>2, RequestGoesOn DEF LoginCheck, TypeOK, q
<1>2. CASE LoginFail(r)
  <2>1. failures' \in Nat
    BY <1>0, <1>2 DEF LoginFail, TypeOK
  <2> QED
    BY <1>0, <1>2, <2>1, IdleType, RequestGoesOn DEF LoginFail, TypeOK
<1>3. CASE LoginPass(r)
  <2>1. PICK gen \in req[r].gen .. changes :
          req' = [req EXCEPT ![r] = [req[r] EXCEPT !.pc = "right", !.gen = gen]]
    BY <1>0, <1>3 DEF LoginPass, TypeOK
  <2> DEFINE q == [req[r] EXCEPT !.pc = "right", !.gen = gen]
  <2>2. gen \in Nat /\ req[r].gen <= gen /\ gen <= changes /\ req[r].gen \in Nat
    BY <1>0 DEF Request
  <2>3. q \in Request /\ q.pc = "right" /\ q.gen = gen /\ q.late = req[r].late
    BY <1>0, <2>2 DEF Request
  <2>4. Sound(q)
    BY <1>0, <1>3, <2>2, <2>3 DEF Sound, LoginPass
  <2> HIDE DEF q
  <2>5. req' = [req EXCEPT ![r] = q]
    BY <2>1 DEF q
  <2> QED
    BY <1>0, <1>3, <2>3, <2>4, <2>5, RequestGoesOn DEF LoginPass, TypeOK
<1> QED
  BY <1>1, <1>2, <1>3

LEMMA LoginStoreStep ==
  ASSUME SInv, NEW r \in Requests, NEW t \in Tokens, LoginStore(r, t)
  PROVE  SInv'
<1>1. TypeOK /\ req[r] \in Request /\ Sound(req[r])
  BY DEF SInv, TypeOK, Request, RequestsSound
<1> DEFINE s == Started(~mfa, req[r].gen, req[r].late)
<1>2. s \in Session /\ s.gen = req[r].gen /\ s.late = req[r].late
  <2>1. (~mfa) \in BOOLEAN
    BY Zenon
  <2>2. req[r].gen \in Nat /\ req[r].late \in BOOLEAN
    BY <1>1 DEF Request
  <2> QED
    BY <2>1, <2>2, StartedType, Zenon
<1>3. s.gen < changes => s.late
  BY <1>1, <1>2 DEF Sound, LoginStore
<1> HIDE DEF s
<1>4. sessions' = [sessions EXCEPT ![t] = s]
  BY DEF LoginStore, s
<1>5. /\ req' = [req EXCEPT ![r] = Idle] /\ UNCHANGED <<mfa, failures, changes>>
      /\ pending' \subseteq Tokens
  BY <1>1 DEF LoginStore, TypeOK
<1> QED
  BY <1>2, <1>3, <1>4, <1>5, SessionStored

LEMMA IngressStep ==
  ASSUME SInv, NEW t \in Tokens, IngressSession(t)
  PROVE  SInv'
<1>1. TypeOK /\ changes \in Nat
  BY DEF SInv, TypeOK
<1> DEFINE s == Started(TRUE, changes, FALSE)
<1>2. s \in Session /\ s.gen = changes
  BY <1>1, StartedType
<1> HIDE DEF s
<1>3. sessions' = [sessions EXCEPT ![t] = s] /\ UNCHANGED <<mfa, pending, failures, req, changes>>
  BY DEF IngressSession, s
<1>4. TypeOK'
  BY <1>1, <1>2, <1>3 DEF TypeOK
<1>5. OldSessionsAreLate'
  BY <1>1, <1>2, <1>3 DEF OldSessionsAreLate, SInv, TypeOK
<1>6. RequestsSound'
  BY <1>3 DEF RequestsSound, SInv, Sound
<1> QED
  BY <1>4, <1>5, <1>6 DEF SInv

LEMMA ChangeStep ==
  ASSUME SInv, ChangePassword
  PROVE  SInv'
<1>1. TypeOK /\ req \in [Requests -> Request]
  BY DEF SInv, TypeOK, Request
<1>2. \A r \in Requests : /\ req'[r] \in Request
                          /\ \/ req'[r].pc = "idle"
                             \/ /\ req'[r].late
                                /\ req'[r].pc = req[r].pc /\ req'[r].token = req[r].token
  <2> TAKE r \in Requests
  <2>1. CASE req[r].pc = "idle"
    BY <2>1, IdleType DEF ChangePassword
  <2>2. CASE req[r].pc # "idle"
    <3>1. req'[r] = [req[r] EXCEPT !.late = TRUE]
      BY <2>2 DEF ChangePassword
    <3> QED
      BY <1>1, <3>1 DEF Request
  <2> QED
    BY <2>1, <2>2
<1>3. req' \in [Requests -> Request]
  BY <1>2 DEF ChangePassword
<1>4. changes' \in 0 .. MaxChanges /\ \A t \in Tokens : sessions'[t] = NoSession
  BY <1>1, SessionsAssumption DEF ChangePassword, AfterChange, TypeOK
<1>5. TypeOK'
  BY <1>1, <1>3, <1>4 DEF ChangePassword, AfterChange, TypeOK, Request
<1>6. OldSessionsAreLate'
  BY <1>4 DEF OldSessionsAreLate
<1>7. \A r \in Requests : Sound(req[r])'
  BY <1>2 DEF Sound, SInv, RequestsSound
<1> QED
  BY <1>5, <1>6, <1>7 DEF SInv, RequestsSound

LEMMA EndStep ==
  ASSUME SInv, Cleanup \/ (\E t \in Tokens : Logout(t) \/ Register(t)) \/ DisableMFA \/ Restart
  PROVE  SInv'
<1>0. TypeOK
  BY DEF SInv
<1>1. CASE Cleanup
  BY <1>0, <1>1, SessionsDeleted DEF Cleanup, TypeOK
<1>2. ASSUME NEW t \in Tokens, Logout(t) PROVE SInv'
  BY <1>0, <1>2, SessionsDeleted DEF Logout, TypeOK
<1>3. ASSUME NEW t \in Tokens, Register(t) PROVE SInv'
  BY <1>0, <1>3 DEF Register, SInv, TypeOK, OldSessionsAreLate, RequestsSound, Sound
<1>4. CASE DisableMFA
  BY <1>0, <1>4 DEF DisableMFA, SInv, TypeOK, OldSessionsAreLate, RequestsSound, Sound
<1>5. CASE Restart
  <2>1. \A r \in Requests : req'[r] \in Request /\ req'[r].pc = "idle"
    BY <1>5, IdleType DEF Restart
  <2>2. TypeOK'
    BY <1>0, <1>5, IdleType DEF Restart, TypeOK, Request
  <2>3. OldSessionsAreLate'
    BY <1>5 DEF Restart, OldSessionsAreLate
  <2>4. RequestsSound'
    BY <2>1 DEF RequestsSound, Sound
  <2> QED
    BY <2>2, <2>3, <2>4 DEF SInv
<1> QED
  BY <1>1, <1>2, <1>3, <1>4, <1>5

LEMMA ExpireStep ==
  ASSUME SInv, NEW t \in Tokens, Expire(t)
  PROVE  SInv'
<1>1. TypeOK /\ req \in [Requests -> Request]
  BY DEF SInv, TypeOK, Request
<1>2. \A r \in Requests :
        /\ req'[r] \in Request
        /\ req'[r].pc = req[r].pc /\ req'[r].by = req[r].by /\ req'[r].gen = req[r].gen
        /\ req'[r].late = req[r].late
        /\ req'[r].sess.gen = req[r].sess.gen /\ req'[r].sess.late = req[r].sess.late
  <2> TAKE r \in Requests
  <2>1. CASE ~Holds(r, t)
    BY <1>1, <2>1 DEF Expire
  <2>2. CASE Holds(r, t)
    <3> DEFINE s == [req[r].sess EXCEPT !.expired = TRUE]
    <3>1. s \in Session /\ s.gen = req[r].sess.gen /\ s.late = req[r].sess.late
      BY <1>1 DEF Session, Request
    <3> HIDE DEF s
    <3>2. req'[r] = [req[r] EXCEPT !.sess = s]
      BY <2>2 DEF Expire, s
    <3> QED
      BY <1>1, <3>1, <3>2 DEF Request
  <2> QED
    BY <2>1, <2>2
<1>3. req' \in [Requests -> Request]
  BY <1>2 DEF Expire
<1>4. \A u \in Tokens :
        \/ sessions'[u] = sessions[u]
        \/ /\ sessions'[u] \in Session /\ sessions[u] # NoSession
           /\ sessions'[u].gen = sessions[u].gen /\ sessions'[u].late = sessions[u].late
  BY <1>1 DEF Expire, TypeOK, Session
<1>5. sessions' \in [Tokens -> Session \cup {NoSession}]
  BY <1>1, <1>4 DEF Expire, TypeOK
<1>6. TypeOK'
  BY <1>1, <1>3, <1>5 DEF Expire, TypeOK, Request
<1>7. OldSessionsAreLate'
  BY <1>4 DEF Expire, OldSessionsAreLate, SInv
<1>8. RequestsSound'
  BY <1>2 DEF Expire, RequestsSound, Sound, SInv
<1> QED
  BY <1>6, <1>7, <1>8 DEF SInv

LEMMA FactorStarts ==
  ASSUME SInv, NEW r \in Requests, NEW t \in Tokens,
         Enroll(r, t) \/ PasskeyLogin(r, t) \/ Challenge(r, t)
  PROVE  SInv'
<1>0. TypeOK /\ changes \in Nat
  BY DEF SInv, TypeOK
<1>1. CASE Enroll(r, t)
  <2> DEFINE q == [Idle EXCEPT !.pc = "found", !.token = t, !.by = "registration"]
  <2>1. q \in Request /\ q.pc = "found" /\ q.by = "registration" /\ q.token = t
    BY IdleType DEF Request
  <2>2. Sound(q)
    BY <2>1 DEF Sound
  <2> HIDE DEF q
  <2>3. req' = [req EXCEPT ![r] = q]
    BY <1>1 DEF Enroll, q
  <2> QED
    BY <1>0, <1>1, <2>1, <2>2, <2>3, RequestGoesOn DEF Enroll, TypeOK
<1>2. CASE PasskeyLogin(r, t)
  <2> DEFINE q == [Idle EXCEPT !.pc = "found", !.token = t, !.by = "passkey", !.gen = changes]
  <2>1. q \in Request /\ q.pc = "found" /\ q.gen = changes /\ q.token = t
    BY <1>0, IdleType DEF Request
  <2>2. Sound(q)
    BY <1>0, <2>1 DEF Sound
  <2> HIDE DEF q
  <2>3. req' = [req EXCEPT ![r] = q]
    BY <1>2 DEF PasskeyLogin, q
  <2> QED
    BY <1>0, <1>2, <2>1, <2>2, <2>3, RequestGoesOn DEF PasskeyLogin, TypeOK
<1>3. CASE Challenge(r, t)
  <2> DEFINE s == sessions[t]
             q == [Idle EXCEPT !.pc = "loaded", !.token = t, !.by = "code", !.sess = s]
  <2>1. s \in Session /\ (s.gen < changes => s.late)
    BY <1>0, <1>3 DEF Challenge, TypeOK, SInv, OldSessionsAreLate
  <2>2. q \in Request /\ q.pc = "loaded" /\ q.sess = s /\ q.token = t
    BY <2>1, IdleType DEF Request
  <2>3. Sound(q)
    BY <2>1, <2>2 DEF Sound
  <2> HIDE DEF q
  <2>4. req' = [req EXCEPT ![r] = q]
    BY <1>3 DEF Challenge, q
  <2> QED
    BY <1>0, <1>3, <2>2, <2>3, <2>4, RequestGoesOn DEF Challenge, TypeOK
<1> QED
  BY <1>1, <1>2, <1>3

LEMMA LoadStep ==
  ASSUME SInv, NEW r \in Requests, LoadSession(r) \/ NoneToLoad(r) \/ WrongCode(r)
  PROVE  SInv'
<1>0. TypeOK /\ req[r] \in Request /\ Sound(req[r])
  BY DEF SInv, TypeOK, Request, RequestsSound
<1>1. ASSUME NEW s \in Session, s.gen < changes => s.late \/ req[r].late,
             req[r].token \in Tokens,
             req' = [req EXCEPT ![r].pc = "loaded", ![r].sess = s],
             pending' = pending, UNCHANGED <<mfa, sessions, failures, changes>>
      PROVE  SInv'
  <2> DEFINE q == [req[r] EXCEPT !.pc = "loaded", !.sess = s]
  <2>1. q \in Request /\ q.pc = "loaded" /\ q.sess = s /\ q.late = req[r].late
        /\ q.token \in Tokens
    BY <1>0, <1>1 DEF Request
  <2>2. Sound(q)
    BY <1>1, <2>1 DEF Sound
  <2>3. req' = [req EXCEPT ![r] = q]
    BY <1>0, <1>1 DEF TypeOK
  <2> HIDE DEF q
  <2> QED
    BY <1>0, <1>1, <2>1, <2>2, <2>3, RequestGoesOn DEF TypeOK
<1>2. CASE LoadSession(r)
  <2> DEFINE s == sessions[req[r].token]
  <2>1. req[r].token \in Tokens
    BY <1>0, <1>2 DEF LoadSession, Sound
  <2>2. s \in Session /\ (s.gen < changes => s.late)
    BY <1>0, <1>2, <2>1 DEF LoadSession, TypeOK, SInv, OldSessionsAreLate
  <2> QED
    BY <1>1, <1>2, <2>1, <2>2 DEF LoadSession
<1>3. CASE NoneToLoad(r) /\ req[r].by = "registration"
  <2>1. pending' \subseteq Tokens /\ req' = [req EXCEPT ![r] = Idle]
    BY <1>0, <1>3 DEF NoneToLoad, Forget, TypeOK
  <2> QED
    BY <1>0, <1>3, <2>1, IdleType, RequestGoesOn DEF NoneToLoad, TypeOK
<1>4. CASE NoneToLoad(r) /\ req[r].by = "passkey"
  <2> DEFINE s == Started(TRUE, req[r].gen, req[r].late)
  <2>1. s \in Session /\ s.gen = req[r].gen /\ s.late = req[r].late
    <3>1. req[r].gen \in Nat /\ req[r].late \in BOOLEAN
      BY <1>0 DEF Request
    <3> QED
      BY <3>1, StartedType, Zenon
  <2>2. s.gen < changes => s.late
    BY <1>0, <1>4, <2>1 DEF Sound, NoneToLoad
  <2> HIDE DEF s
  <2>3. req' = [req EXCEPT ![r].pc = "loaded", ![r].sess = s]
    BY <1>4 DEF NoneToLoad, s
  <2> QED
    BY <1>0, <1>1, <1>4, <2>1, <2>2, <2>3 DEF NoneToLoad, Sound
<1>5. CASE WrongCode(r)
  BY <1>0, <1>5, IdleType, RequestGoesOn DEF WrongCode, TypeOK
<1> QED
  BY <1>2, <1>3, <1>4, <1>5 DEF NoneToLoad

LEMMA StoreStep ==
  ASSUME SInv, NEW r \in Requests, StoreVerified(r)
  PROVE  SInv'
<1>0. TypeOK /\ req[r] \in Request /\ Sound(req[r])
  BY DEF SInv, TypeOK, Request, RequestsSound
<1> DEFINE l == req[r].sess.late \/ req[r].late
           s == [req[r].sess EXCEPT !.verified = TRUE, !.late = l]
<1>1. req[r].sess \in Session /\ req[r].token \in Tokens
  BY <1>0 DEF StoreVerified, Request, Sound
<1>2. l \in BOOLEAN
  OBVIOUS
<1>3. req[r].sess.gen < changes => l
  BY <1>0 DEF StoreVerified, Sound
<1>4. sessions' = [sessions EXCEPT ![req[r].token] = s]
  BY DEF StoreVerified
<1> HIDE DEF l
<1>5. s \in Session /\ s.gen = req[r].sess.gen /\ s.late = l
  BY <1>1, <1>2 DEF Session
<1> HIDE DEF s
<1>6. pending' \subseteq Tokens /\ req' = [req EXCEPT ![r] = Idle]
      /\ UNCHANGED <<mfa, failures, changes>>
  BY <1>0 DEF StoreVerified, Forget, TypeOK
<1> QED
  BY <1>1, <1>3, <1>4, <1>5, <1>6, SessionStored

LEMMA NextSInv == SInv /\ [Next]_vars => SInv'
<1> SUFFICES ASSUME SInv, [Next]_vars PROVE SInv'
  OBVIOUS
<1>1. CASE \E r \in Requests : Step(r)
  BY <1>1, PasswordStep, LoginStoreStep, FactorStarts, LoadStep, StoreStep DEF Step
<1>2. CASE \E t \in Tokens : IngressSession(t) \/ Logout(t) \/ Expire(t) \/ Register(t)
  BY <1>2, IngressStep, EndStep, ExpireStep
<1>3. CASE Cleanup \/ Restart \/ DisableMFA
  BY <1>3, EndStep
<1>4. CASE ChangePassword
  BY <1>4, ChangeStep
<1>5. CASE UNCHANGED vars
  BY <1>5 DEF vars, SInv, TypeOK, OldSessionsAreLate, RequestsSound, Sound
<1> QED
  BY <1>1, <1>2, <1>3, <1>4, <1>5 DEF Next

\* The variables stay in their types (the maps of models.go and what a request keeps).
THEOREM TypeCorrect == Spec => []TypeOK
<1>1. SInv => TypeOK
  BY DEF SInv
<1> QED
  BY <1>1, InitSInv, NextSInv, PTL DEF Spec

\* A session of a former password is one that a request under way during the change
\* stored (handleChangePassword and every handler that stores a session).
THEOREM OldSessions == Spec => []OldSessionsAreLate
<1>1. SInv => OldSessionsAreLate
  BY DEF SInv
<1> QED
  BY <1>1, InitSInv, NextSInv, PTL DEF Spec

-----------------------------------------------------------------------------
(* The number of failed attempts                                           *)

Comparing == {r \in Requests : req[r].pc = "compare"}

\* Every attempt under way may still fail.
AttemptsBounded == failures + Cardinality(Comparing) < FailureLimit + Cardinality(Requests)

LEMMA ComparingFinite ==
  /\ IsFiniteSet(Comparing) /\ Cardinality(Comparing) \in Nat
  /\ Cardinality(Comparing) <= Cardinality(Requests) /\ Cardinality(Requests) \in Nat
BY SessionsAssumption, FS_Subset, FS_CardinalityType DEF Comparing

LEMMA ComparingFinitePrimed ==
  /\ IsFiniteSet(Comparing') /\ Cardinality(Comparing') \in Nat
  /\ Cardinality(Comparing') <= Cardinality(Requests)
BY SessionsAssumption, FS_Subset, FS_CardinalityType DEF Comparing

\* No attempt starts, no failure is counted.
LEMMA NoNewAttempt ==
  ASSUME TypeOK, TypeOK', AttemptsBounded, Comparing' \subseteq Comparing, failures' <= failures
  PROVE  AttemptsBounded'
<1>1. Cardinality(Comparing') <= Cardinality(Comparing)
  BY ComparingFinite, FS_Subset
<1> QED
  BY <1>1, ComparingFinite, ComparingFinitePrimed, SessionsAssumption DEF AttemptsBounded, TypeOK

LEMMA NextAttempts ==
  SInv /\ AttemptsBounded /\ [Next]_vars => AttemptsBounded'
<1> SUFFICES ASSUME SInv, AttemptsBounded, [Next]_vars PROVE AttemptsBounded'
  OBVIOUS
<1>0. TypeOK /\ TypeOK' /\ req \in [Requests -> Request] /\ Idle.pc = "idle"
  BY NextSInv, IdleType DEF SInv, TypeOK, Request
<1>1. ASSUME NEW r \in Requests, LoginCheck(r) PROVE AttemptsBounded'
  <2>1. failures' <= FailureLimit - 1
    BY <1>0, <1>1, SessionsAssumption DEF LoginCheck, TriesLeft, TypeOK
  <2> QED
    BY <1>0, <2>1, ComparingFinitePrimed, ComparingFinite, SessionsAssumption
    DEF AttemptsBounded, TypeOK
<1>2. ASSUME NEW r \in Requests, LoginFail(r) PROVE AttemptsBounded'
  <2>1. r \in Comparing /\ Comparing' = Comparing \ {r}
    BY <1>0, <1>2 DEF LoginFail, Comparing
  <2>2. Cardinality(Comparing') = Cardinality(Comparing) - 1
    BY <2>1, ComparingFinite, FS_RemoveElement
  <2>3. failures' = failures + 1 /\ failures \in Nat
    BY <1>0, <1>2 DEF LoginFail, TypeOK
  <2> QED
    BY <2>2, <2>3, ComparingFinite, SessionsAssumption DEF AttemptsBounded
<1>3. ASSUME NEW r \in Requests, NEW q, q.pc # "compare", req' = [req EXCEPT ![r] = q],
             failures' = 0 \/ failures' = failures
      PROVE  AttemptsBounded'
  <2>1. failures' <= failures
    BY <1>0, <1>3 DEF TypeOK
  <2>2. Comparing' \subseteq Comparing
    BY <1>0, <1>3 DEF Comparing
  <2> QED
    BY <1>0, <2>1, <2>2, NoNewAttempt
<1>4. ASSUME NEW r \in Requests, LoginPass(r) PROVE AttemptsBounded'
  <2>1. PICK gen \in req[r].gen .. changes :
          req' = [req EXCEPT ![r] = [req[r] EXCEPT !.pc = "right", !.gen = gen]]
    BY <1>0, <1>4 DEF LoginPass
  <2>2. [req[r] EXCEPT !.pc = "right", !.gen = gen].pc = "right"
    BY <1>0 DEF Request
  <2> QED
    BY <1>3, <1>4, <2>1, <2>2 DEF LoginPass
<1>5. ASSUME NEW r \in Requests, NEW s, UNCHANGED failures,
             req' = [req EXCEPT ![r].pc = "loaded", ![r].sess = s]
      PROVE  AttemptsBounded'
  <2>1. req' = [req EXCEPT ![r] = [req[r] EXCEPT !.pc = "loaded", !.sess = s]]
    BY <1>0, <1>5
  <2>2. [req[r] EXCEPT !.pc = "loaded", !.sess = s].pc = "loaded"
    BY <1>0 DEF Request
  <2> QED
    BY <1>3, <1>5, <2>1, <2>2
<1>6. ASSUME NEW r \in Requests, LoadSession(r) \/ NoneToLoad(r) PROVE AttemptsBounded'
  BY <1>0, <1>3, <1>5, <1>6 DEF LoadSession, NoneToLoad
<1>7. ASSUME NEW r \in Requests, StoreVerified(r) \/ WrongCode(r) PROVE AttemptsBounded'
  BY <1>0, <1>3, <1>7 DEF StoreVerified, WrongCode
<1>8. ASSUME NEW r \in Requests, NEW t \in Tokens,
              LoginStore(r, t) \/ Enroll(r, t) \/ PasskeyLogin(r, t) \/ Challenge(r, t)
       PROVE  AttemptsBounded'
  <2>1. CASE LoginStore(r, t)
    BY <1>0, <1>3, <2>1 DEF LoginStore
  <2>2. /\ [Idle EXCEPT !.pc = "found", !.token = t, !.by = "registration"].pc = "found"
        /\ [Idle EXCEPT !.pc = "found", !.token = t, !.by = "passkey", !.gen = changes].pc = "found"
        /\ [Idle EXCEPT !.pc = "loaded", !.token = t, !.by = "code", !.sess = sessions[t]].pc = "loaded"
    BY DEF Idle
  <2>3. CASE Enroll(r, t)
    BY <1>3, <2>2, <2>3 DEF Enroll
  <2>4. CASE PasskeyLogin(r, t)
    BY <1>3, <2>2, <2>4 DEF PasskeyLogin
  <2>5. CASE Challenge(r, t)
    BY <1>3, <2>2, <2>5 DEF Challenge
  <2> QED
    BY <1>8, <2>1, <2>3, <2>4, <2>5
<1>9. ASSUME NEW t \in Tokens, IngressSession(t) \/ Logout(t) \/ Expire(t) \/ Register(t)
      PROVE  AttemptsBounded'
  <2>1. failures' = failures
    BY <1>9, Zenon DEF IngressSession, Logout, Expire, Register
  <2>2. failures' <= failures
    BY <1>0, <2>1 DEF TypeOK
  <2>3. \A r \in Requests : req'[r].pc = req[r].pc
    BY <1>0, <1>9 DEF IngressSession, Logout, Expire, Register, Request
  <2> QED
    BY <1>0, <2>2, <2>3, NoNewAttempt DEF Comparing
<1>10. CASE Cleanup \/ Restart \/ ChangePassword \/ DisableMFA
  <2>1. failures' <= failures
    BY <1>0, <1>10 DEF TypeOK, Cleanup, Restart, ChangePassword, DisableMFA
  <2>2. \A r \in Requests : req'[r].pc = req[r].pc \/ req'[r].pc = "idle"
    BY <1>0, <1>10 DEF Cleanup, Restart, ChangePassword, DisableMFA, Request
  <2> QED
    BY <1>0, <2>1, <2>2, NoNewAttempt DEF Comparing
<1>11. CASE UNCHANGED vars
  BY <1>11 DEF vars, AttemptsBounded, Comparing
<1> QED
  BY <1>1, <1>2, <1>4, <1>6, <1>7, <1>8, <1>9, <1>10, <1>11 DEF Next, Step

\* Failed attempts exceed the limit at most by the attempts that passed the check
\* together (handleLogin, which lets go of failureLock between check and count).
THEOREM FailuresAreBounded == Spec => []FailuresBounded
<1>1. Init => AttemptsBounded
  <2> SUFFICES ASSUME Init PROVE AttemptsBounded
    OBVIOUS
  <2>1. Comparing = {} /\ failures = 0
    BY IdleType DEF Init, Comparing
  <2>2. Cardinality(Comparing) = 0
    BY <2>1, FS_EmptySet
  <2> QED
    BY <2>1, <2>2, ComparingFinite, SessionsAssumption DEF AttemptsBounded
<1>2. SInv /\ AttemptsBounded => FailuresBounded
  BY ComparingFinite, SessionsAssumption DEF SInv, TypeOK, AttemptsBounded, FailuresBounded
<1> QED
  BY <1>1, <1>2, InitSInv, NextSInv, NextAttempts, PTL DEF Spec
=============================================================================
