--------------------------- MODULE BackofficeProofs ---------------------------
(***************************************************************************)
(* Proofs about Backoffice: its types, and what keeps dead sessions out    *)
(* and live ones in, for any number of sessions, admins, clients and keys, *)
(* however their requests, the log's writer and restarts interleave.       *)
(***************************************************************************)
EXTENDS Backoffice, TLAPS

(* What holds between the tokens handed out, the store and the requests: a *)
(* token that the store lacks is dead, one that it has was never revoked,  *)
(* and a request past the first look carries a token that was handed out.  *)
SessionsShape ==
    /\ tokenStore \cap ended = {}
    /\ \A token \in issued \ tokenStore : token \in ended \/ Expired(token)
    /\ \A a \in Admins :
        /\ request[a].token \in issued \cup {NoSession}
        /\ request[a].phase \in {"loaded", "authorized"} => request[a].token \in issued
        /\ request[a].phase = "loaded" /\ request[a].late => Expired(request[a].token)

SessionsInv == AuthTypeOK /\ SessionsShape /\ DeadTokenRefused /\ LiveTokenServed

-----------------------------------------------------------------------------
(* Sessions and requests keep their types. *)

LEMMA SessionsInit == Init => SessionsInv
BY AuthAssumption DEF Init, AuthInit, SessionsInv, AuthTypeOK, SessionsShape, DeadTokenRefused,
       LiveTokenServed, Idle, Request

LEMMA AuthTypeStep ==
    ASSUME AuthTypeOK, SessionsShape, [Next]_vars
    PROVE  AuthTypeOK'
<1> USE AuthAssumption DEF AuthTypeOK
<1>1. CASE Login
    BY <1>1 DEF Login
<1>2. CASE Tick
    BY <1>2 DEF Tick, Expired
<1>3. ASSUME NEW a \in Admins, LoadToken(a)
      PROVE  AuthTypeOK'
    <2>1. PICK token \in issued, kind \in Asks(a) :
            request' = [request EXCEPT ![a] =
                [phase |-> IF token \in tokenStore THEN "loaded" ELSE "refused", kind |-> kind,
                 token |-> token, late |-> Dead(token)]]
        BY <1>3 DEF LoadToken
    <2>2. Dead(token) \in BOOLEAN
        BY DEF Dead, Expired
    <2>3. request' \in [Admins -> Request]
        BY <2>1, <2>2 DEF Request
    <2> QED
        BY <1>3, <2>3 DEF LoadToken
<1>4. ASSUME NEW a \in Admins, CheckExpiry(a)
      PROVE  AuthTypeOK'
    BY <1>4 DEF CheckExpiry, Becomes, Request
<1>5. ASSUME NEW a \in Admins, Logout(a)
      PROVE  AuthTypeOK'
    <2>1. request[a].token \in issued
        BY <1>5 DEF Logout, SessionsShape
    <2>2. request' \in [Admins -> Request]
        BY <1>5 DEF Logout, Idle, Request
    <2> QED
        BY <1>5, <2>1, <2>2 DEF Logout
<1>6. ASSUME NEW a \in Admins, Answer(a)
      PROVE  AuthTypeOK'
    BY <1>6 DEF Answer, Idle, Request
<1>7. ASSUME NEW c \in Clients, AdmitCall(c) \/ EndCall(c)
      PROVE  AuthTypeOK'
    BY <1>7 DEF AdmitCall, EndCall
<1>8. ASSUME NEW a \in Admins, Logs(a)
      PROVE  AuthTypeOK'
    BY <1>8 DEF Logs, Idle, Request
<1>9. CASE Restart
    <2>1. request' \in [Admins -> Request] /\ caller' \in [Clients -> Keys \cup {NoKey}]
        BY <1>9 DEF Restart, AuthRestart, Idle, Request
    <2> QED
        BY <1>9, <2>1 DEF Restart, AuthRestart
<1>10. CASE UNCHANGED authVars
    BY <1>10 DEF authVars
<1> QED
    BY <1>1, <1>2, <1>3, <1>4, <1>5, <1>6, <1>7, <1>8, <1>9, <1>10
    DEF Next, Admin, vars

-----------------------------------------------------------------------------
(* Sessions. *)

(* The two looks of validateToken, the logout and the clock keep the shape: a *)
(* token found dead at the first look is either missing from the store or has *)
(* expired, and stays expired until the second.                               *)
LEMMA SessionsStep ==
    ASSUME SessionsInv, [Next]_vars
    PROVE  SessionsShape' /\ DeadTokenRefused' /\ LiveTokenServed'
<1> USE DEF SessionsInv, AuthTypeOK, SessionsShape, DeadTokenRefused, LiveTokenServed
<1>1. CASE Login
    BY <1>1, AuthAssumption DEF Login, Dead, Expired
<1>2. CASE Tick
    BY <1>2 DEF Tick, Dead, Expired
<1>3. ASSUME NEW a \in Admins, LoadToken(a)
      PROVE  SessionsShape' /\ DeadTokenRefused' /\ LiveTokenServed'
    <2>1. PICK token \in issued, kind \in Asks(a) :
            request' = [request EXCEPT ![a] =
                [phase |-> IF token \in tokenStore THEN "loaded" ELSE "refused", kind |-> kind,
                 token |-> token, late |-> Dead(token)]]
        BY <1>3 DEF LoadToken
    <2>2. token \in tokenStore /\ Dead(token) => Expired(token)
        BY DEF Dead
    <2>3. token \notin tokenStore => Dead(token)
        BY DEF Dead
    <2>4. UNCHANGED <<issued, age, tokenStore, ended>>
        BY <1>3 DEF LoadToken
    <2>5. \A t : (Expired(t)' <=> Expired(t)) /\ (Dead(t)' <=> Dead(t))
        BY <2>4 DEF Dead, Expired
    <2> QED
        BY <2>1, <2>2, <2>3, <2>4, <2>5
<1>4. ASSUME NEW a \in Admins, CheckExpiry(a)
      PROVE  SessionsShape' /\ DeadTokenRefused' /\ LiveTokenServed'
    <2>1. /\ request[a].phase = "loaded" /\ request[a].token \in issued
          /\ request[a].late => Expired(request[a].token)
        BY <1>4 DEF CheckExpiry
    <2>2. UNCHANGED <<issued, age, ended>>
        BY <1>4 DEF CheckExpiry
    <2>3. \A t : Expired(t)' <=> Expired(t)
        BY <2>2 DEF Expired
    <2>4. CASE Expired(request[a].token)
        <3>1. /\ tokenStore' = tokenStore \ {request[a].token}
              /\ request' = [request EXCEPT ![a].phase = "refused"]
            BY <1>4, <2>4 DEF CheckExpiry, Becomes
        <3> QED
            BY <2>1, <2>2, <2>3, <2>4, <3>1 DEF Dead, Request
    <2>5. CASE ~Expired(request[a].token)
        <3>1. /\ UNCHANGED tokenStore
              /\ request' = [request EXCEPT ![a].phase = "authorized"]
            BY <1>4, <2>5 DEF CheckExpiry, Becomes
        <3> QED
            BY <2>1, <2>2, <2>3, <2>5, <3>1 DEF Dead, Request
    <2> QED
        BY <2>4, <2>5
<1>5. ASSUME NEW a \in Admins, Logout(a)
      PROVE  SessionsShape' /\ DeadTokenRefused' /\ LiveTokenServed'
    BY <1>5 DEF Logout, Idle, Dead, Expired
<1>6. ASSUME NEW a \in Admins, Answer(a)
      PROVE  SessionsShape' /\ DeadTokenRefused' /\ LiveTokenServed'
    BY <1>6 DEF Answer, Idle, Dead, Expired
<1>7. ASSUME NEW c \in Clients, AdmitCall(c) \/ EndCall(c)
      PROVE  SessionsShape' /\ DeadTokenRefused' /\ LiveTokenServed'
    BY <1>7 DEF AdmitCall, EndCall, Dead, Expired
<1>8. ASSUME NEW a \in Admins, Logs(a)
      PROVE  SessionsShape' /\ DeadTokenRefused' /\ LiveTokenServed'
    BY <1>8 DEF Logs, Idle, Dead, Expired
<1>9. CASE Restart
    BY <1>9 DEF Restart, AuthRestart, Idle, Dead, Expired
<1>10. CASE UNCHANGED authVars
    BY <1>10 DEF authVars, Dead, Expired
<1> QED
    BY <1>1, <1>2, <1>3, <1>4, <1>5, <1>6, <1>7, <1>8, <1>9, <1>10
    DEF Next, Admin, vars

LEMMA SessionsInvariant == Spec => []SessionsInv
<1>1. SessionsInv /\ [Next]_vars => SessionsInv'
    BY AuthTypeStep, SessionsStep DEF SessionsInv
<1> QED
    BY SessionsInit, <1>1, PTL DEF Spec

(* No request is let in whose token was revoked, expired or of an earlier *)
(* process when it came.                                                  *)
THEOREM DeadTokensAreRefused == Spec => []DeadTokenRefused
BY SessionsInvariant, PTL DEF SessionsInv

(* Only a request whose own token is dead is refused, whatever the other *)
(* sessions and requests do.                                             *)
THEOREM LiveTokensAreServed == Spec => []LiveTokenServed
BY SessionsInvariant, PTL DEF SessionsInv

-----------------------------------------------------------------------------
(* The log. *)

(* Every call that was logged is dropped, queued, in the writer's hands or *)
(* settled; a line can lack its newline only where there is a line.        *)
LogShape ==
    /\ settled + Len(logChan) + (IF writing = NoEntry THEN 0 ELSE 1) <= calls
    /\ ~terminated => lines # <<>>

(* A row that runs into the last line leaves a sequence of lines. *)
LEMMA LastReplaced ==
    ASSUME NEW S, NEW s \in Seq(S), NEW e \in S
    PROVE  [s EXCEPT ![Len(s)] = e] \in Seq(S)
<1>1. s \in [1..Len(s) -> S] /\ Len(s) \in Nat
    OBVIOUS
<1>2. [s EXCEPT ![Len(s)] = e] \in [1..Len(s) -> S]
    BY <1>1
<1> QED
    BY <1>1, <1>2

LEMMA LogStep ==
    ASSUME SessionsInv, LogTypeOK, LogShape, [Next]_vars
    PROVE  LogTypeOK' /\ LogShape'
<1> USE LogAssumption, BackofficeAssumption DEF LogTypeOK, LogShape
<1>1. ASSUME NEW user \in Users, NEW status \in StatusCodes, Log(user, status)
      PROVE  LogTypeOK' /\ LogShape'
    <2>1. [id |-> calls', user |-> user, status |-> status] \in Entry
        BY <1>1 DEF Log, Entry
    <2> QED
        BY <1>1, <2>1 DEF Log
<1>2. CASE TakeEntry
    <2>1. Head(logChan) \in Entry /\ Tail(logChan) \in Seq(Entry)
          /\ Len(Tail(logChan)) = Len(logChan) - 1
        BY <1>2 DEF TakeEntry
    <2> QED
        BY <1>2, <2>1 DEF TakeEntry
<1>3. CASE WriteFails
    BY <1>3 DEF WriteFails
<1>4. ASSUME NEW line \in Entry \cup {Torn}, NEW whole \in BOOLEAN, Put(line, whole)
      PROVE  /\ lines' \in Seq(Entry \cup {Torn}) /\ lines' # <<>>
             /\ writing' = NoEntry /\ terminated' \in BOOLEAN
             /\ settled' = settled + 1 /\ settled' <= calls /\ settled' \in 0..MaxCalls
             /\ settled' + Len(logChan) <= calls
    <2>1. Appended(line) \in Seq(Entry \cup {Torn}) /\ Appended(line) # <<>>
        <3>1. CASE terminated
            BY <3>1 DEF Appended
        <3>2. CASE ~terminated
            <4>1. DOMAIN [lines EXCEPT ![Len(lines)] = Torn] = DOMAIN lines
                OBVIOUS
            <4>2. [lines EXCEPT ![Len(lines)] = Torn] \in Seq(Entry \cup {Torn})
                BY LastReplaced
            <4>3. lines # <<>> /\ Len(lines) \in DOMAIN lines
                BY <3>2
            <4>4. Appended(line) = [lines EXCEPT ![Len(lines)] = Torn]
                BY <3>2 DEF Appended
            <4> QED
                BY <4>1, <4>2, <4>3, <4>4
        <3> QED
            BY <3>1, <3>2
    <2> QED
        BY <1>4, <2>1 DEF Put
<1>5. CASE WriteWhole
    <2>1. writing \in Entry
        BY <1>5 DEF WriteWhole, Put
    <2>2. Put(writing, TRUE) /\ UNCHANGED cut
        BY <1>5 DEF WriteWhole
    <2>3. /\ lines' \in Seq(Entry \cup {Torn}) /\ lines' # <<>>
          /\ writing' = NoEntry /\ terminated' \in BOOLEAN
          /\ settled' <= calls /\ settled' \in 0..MaxCalls
          /\ settled' + Len(logChan) <= calls
        BY <1>4, <2>1, <2>2
    <2> QED
        BY <2>2, <2>3 DEF Put
<1>6. CASE WriteCut
    <2>1. PICK line \in {writing, Torn} : Put(line, FALSE)
        BY <1>6 DEF WriteCut
    <2>2. line \in Entry \cup {Torn}
        BY <2>1 DEF Put
    <2>3. /\ lines' \in Seq(Entry \cup {Torn}) /\ lines' # <<>>
          /\ writing' = NoEntry /\ terminated' \in BOOLEAN
          /\ settled' <= calls /\ settled' \in 0..MaxCalls
          /\ settled' + Len(logChan) <= calls
        BY <1>4, <2>1, <2>2
    <2>4. cut' \in 0..MaxFaults
        BY <1>6 DEF WriteCut
    <2> QED
        BY <2>1, <2>3, <2>4 DEF Put
<1>7. ASSUME NEW c \in Clients, EndCall(c)
      PROVE  LogTypeOK' /\ LogShape'
    <2>1. Username[caller[c]] \in Users
        BY <1>7 DEF EndCall, SessionsInv, AuthTypeOK
    <2>2. CASE UNCHANGED logVars
        BY <2>2 DEF logVars
    <2> QED
        BY <1>1, <1>7, <2>1, <2>2 DEF EndCall
<1>8. CASE Restart
    BY <1>8 DEF Restart, LogRestart
<1>9. CASE UNCHANGED logVars
    BY <1>9 DEF logVars
<1> QED
    BY <1>2, <1>3, <1>5, <1>6, <1>7, <1>8, <1>9 DEF Next, Writer, Logs, vars

(* Types of the whole: in particular the queue never holds more than it may,  *)
(* and the writer settles no more rows than were logged.                      *)
THEOREM BackofficeTypeInvariant == Spec => []TypeOK
<1>1. Init => LogTypeOK /\ LogShape
    BY LogAssumption DEF Init, LogInit, LogTypeOK, LogShape
<1>2. SessionsInv /\ LogTypeOK /\ LogShape /\ [Next]_vars => LogTypeOK' /\ LogShape'
    BY LogStep
<1>3. SessionsInv /\ LogTypeOK => TypeOK
    BY DEF SessionsInv, TypeOK
<1> QED
    BY SessionsInvariant, <1>1, <1>2, <1>3, PTL DEF Spec
=============================================================================
