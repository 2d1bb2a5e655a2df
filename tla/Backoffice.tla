------------------------------ MODULE Backoffice ------------------------------
(***************************************************************************)
(* Authentication and the call log in one process: the calls that clients' *)
(* keys admit leave rows in the log, admins with a session read them, and  *)
(* one restart takes the queue, the sessions and all requests in hand.     *)
(***************************************************************************)
EXTENDS Authentication, FileLogger

CONSTANT Username       \* whose key it is

ASSUME BackofficeAssumption == Username \in [Keys -> Users]

VARIABLE shown      \* history: the rows shown to an admin, but the newest of each answer

vars == <<authVars, logVars, shown>>

Everything == [user |-> AnyUser, status |-> 0..999]

TypeOK == AuthTypeOK /\ LogTypeOK

Init == AuthInit /\ LogInit /\ shown = {}

(* The handler is done with a call: a row, or none when no candidate answered. *)
EndCall(c) == /\ caller[c] # NoKey
              /\ caller' = [caller EXCEPT ![c] = NoKey]
              /\ \/ \E status \in StatusCodes : Log(Username[caller[c]], status)
                 \/ UNCHANGED logVars
              /\ UNCHANGED <<issued, age, tokenStore, request, ended, shown>>

(* AdminHandler.Logs; the reader may get to any line. *)
Logs(a) == /\ request[a].phase = "authorized" /\ request[a].kind = "logs"
           /\ \E n \in 0..Len(lines) :
                LET answer == Query(Everything, n)
                IN  shown' = shown \cup {answer[i] : i \in DOMAIN answer \ {1}}
           /\ request' = [request EXCEPT ![a] = Idle]
           /\ UNCHANGED <<issued, age, tokenStore, caller, ended, logVars>>

Restart == AuthRestart /\ LogRestart /\ UNCHANGED shown

Admin(a) == LoadToken(a) \/ CheckExpiry(a) \/ Logout(a) \/ Answer(a)

Next == \/ /\ Login \/ Tick \/ (\E a \in Admins : Admin(a)) \/ (\E c \in Clients : AdmitCall(c))
           /\ UNCHANGED <<logVars, shown>>
        \/ Writer /\ UNCHANGED <<authVars, shown>>
        \/ \E c \in Clients : EndCall(c)
        \/ \E a \in Admins : Logs(a)
        \/ Restart

(* The writer's goroutine is scheduled, and a write of the file system returns. *)
Spec == Init /\ [][Next]_vars /\ WF_vars(Writer /\ UNCHANGED <<authVars, shown>>)

-----------------------------------------------------------------------------
(* A row that an admin has been shown can be read for good, except the newest *)
(* of an answer when its newline was cut off: across logins and restarts.     *)
ShownRowsStay == \A row \in shown : \E j \in DOMAIN Rows : Rows[j] = row
=============================================================================
