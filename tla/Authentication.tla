---------------------------- MODULE Authentication ----------------------------
(***************************************************************************)
(* internal/middleware/auth.go: who is let in.  Admins hold session tokens *)
(* from a login, and what becomes of those is modelled here.  Clients hold *)
(* API keys; which of them are active at a time is ConfigStore's business, *)
(* so here any may be.  A request is let in by one check when it arrives   *)
(* and then goes on, whatever becomes of its token or key meanwhile.       *)
(***************************************************************************)
EXTENDS Naturals

CONSTANTS Sessions,     \* the tokens, drawn at random: numbered by the logins they come from
          Admins, Asks(_),      \* the admins' requests in hand, and what each may ask
          Clients, Keys,        \* the clients' calls, and their API keys
          MaxAge,               \* ticks that a session lasts
          NoSession, NoKey

ASSUME AuthAssumption == /\ MaxAge \in Nat /\ \A a \in Admins : Asks(a) \subseteq {"logs", "logout"}
                         /\ Sessions \subseteq Nat
                         /\ NoSession \notin Sessions /\ NoKey \notin Keys

VARIABLES issued, age,  \* the tokens handed out, and the ticks since
          tokenStore,   \* the tokens that the process knows
          request,      \* each admin's request in hand
          caller,       \* the key of each client's call in hand
          ended         \* history: tokens revoked, or of an earlier process

authVars == <<issued, age, tokenStore, request, caller, ended>>

(* late: history, the token was dead already when the request came. *)
Request == [phase : {"idle", "loaded", "refused", "authorized"}, kind : {"logs", "logout"},
            token : Sessions \cup {NoSession}, late : BOOLEAN]

Idle == [phase |-> "idle", kind |-> "logs", token |-> NoSession, late |-> FALSE]

AuthTypeOK ==
    /\ issued \subseteq Sessions /\ tokenStore \subseteq issued /\ ended \subseteq issued
    /\ age \in [Sessions -> 0..MaxAge + 1]
    /\ request \in [Admins -> Request] /\ caller \in [Clients -> Keys \cup {NoKey}]

AuthInit == /\ issued = {} /\ age = [t \in Sessions |-> 0] /\ tokenStore = {}
            /\ request = [a \in Admins |-> Idle] /\ caller = [c \in Clients |-> NoKey]
            /\ ended = {}

Expired(token) == age[token] > MaxAge

Dead(token) == token \notin issued \/ token \in ended \/ Expired(token)

Becomes(a, phase) == request' = [request EXCEPT ![a].phase = phase]

-----------------------------------------------------------------------------
(* Sessions. *)

(* Login with the right password; a wrong one changes nothing. *)
Login == /\ \E token \in Sessions \ issued :
                /\ \A t \in Sessions \ issued : token <= t
                /\ issued' = issued \cup {token}
                /\ tokenStore' = tokenStore \cup {token}
         /\ UNCHANGED <<age, request, caller, ended>>

(* validateToken looks the cookie's token up, of whatever age.  A request without *)
(* a token that was ever handed out is refused and changes nothing.               *)
LoadToken(a) ==
    /\ request[a].phase = "idle"
    /\ \E token \in issued, kind \in Asks(a) :
        request' = [request EXCEPT ![a] =
            [phase |-> IF token \in tokenStore THEN "loaded" ELSE "refused", kind |-> kind,
             token |-> token, late |-> Dead(token)]]
    /\ UNCHANGED <<issued, age, tokenStore, caller, ended>>

TrustsTheStore(a) ==    \* mutated CheckExpiry: whatever is stored is valid
    /\ request[a].phase = "loaded"
    /\ Becomes(a, "authorized")
    /\ UNCHANGED <<issued, age, tokenStore, caller, ended>>

ExpiresEarly(a) ==      \* mutated CheckExpiry: refused at the expiry, not after it
    /\ request[a].phase = "loaded"
    /\ IF age[request[a].token] >= MaxAge
       THEN Becomes(a, "refused") /\ tokenStore' = tokenStore \ {request[a].token}
       ELSE Becomes(a, "authorized") /\ UNCHANGED tokenStore
    /\ UNCHANGED <<issued, age, caller, ended>>

(* validateToken compares the expiry it has read with the clock. *)
CheckExpiry(a) ==
    /\ request[a].phase = "loaded"
    /\ IF Expired(request[a].token)
       THEN Becomes(a, "refused") /\ tokenStore' = tokenStore \ {request[a].token}
       ELSE Becomes(a, "authorized") /\ UNCHANGED tokenStore
    /\ UNCHANGED <<issued, age, caller, ended>>

(* RevokeToken, and the answer. *)
Logout(a) == /\ request[a].phase = "authorized" /\ request[a].kind = "logout"
             /\ tokenStore' = tokenStore \ {request[a].token}
             /\ ended' = ended \cup {request[a].token}
             /\ request' = [request EXCEPT ![a] = Idle]
             /\ UNCHANGED <<issued, age, caller>>

(* A refused request gets its 401. *)
Answer(a) == /\ request[a].phase = "refused"
             /\ request' = [request EXCEPT ![a] = Idle]
             /\ UNCHANGED <<issued, age, tokenStore, caller, ended>>

(* Time passes; beyond the last tick that matters an age stands still. *)
Tick == /\ \E token \in issued : ~Expired(token)
        /\ age' = [t \in Sessions |-> IF t \in issued /\ ~Expired(t) THEN age[t] + 1 ELSE age[t]]
        /\ UNCHANGED <<issued, tokenStore, request, caller, ended>>

-----------------------------------------------------------------------------
(* AuthMiddleware admits a call whose key is active; any other call ends there. *)
AdmitCall(c) == /\ caller[c] = NoKey
                /\ \E key \in Keys : caller' = [caller EXCEPT ![c] = key]
                /\ UNCHANGED <<issued, age, tokenStore, request, ended>>

(* The process ends and comes back: no session survives, and no call. *)
AuthRestart ==
    /\ tokenStore' = {} /\ ended' = issued
    /\ request' = [a \in Admins |-> Idle] /\ caller' = [c \in Clients |-> NoKey]
    /\ UNCHANGED <<issued, age>>

-----------------------------------------------------------------------------
(* Properties. *)

(* A request whose token was revoked, expired or of an earlier process when it *)
(* came is never let in, whatever happens between the two looks of             *)
(* validateToken; one that was live then may go on after its logout.           *)
DeadTokenRefused == \A a \in Admins : request[a].late => request[a].phase \in {"loaded", "refused"}

(* Nobody else's logout, expiry or clean-up ends a session: a request is only *)
(* refused when its own token is dead.                                        *)
LiveTokenServed == \A a \in Admins : request[a].phase = "refused" => Dead(request[a].token)
=============================================================================
