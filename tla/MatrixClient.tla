---------------------------- MODULE MatrixClient ----------------------------
(* One MatrixClient that several goroutines share: the Put, Post and Get     *)
(* requests with the access token of LoginRes, and the recovery that logs in *)
(* again when the server does not know the token and repeats the request.    *)
(* Put and Post hold mtx around the request, Get does not; when the request  *)
(* itself fails Put and Post return without unlocking.                       *)
EXTENDS Naturals, FiniteSets
CONSTANTS Lockers, Getters,  \* goroutines that call Put or Post, and Get
          Nobody,
          Replaces,          \* a login makes the server forget the tokens before it
          MaxLogins, MaxCalls, MaxErr, MaxForget  \* bounds: tokens, calls of a
                             \* goroutine, failed requests, tokens that expire
VARIABLES token,   \* client.LoginRes.AccessToken
          valid,   \* the tokens the server knows
          issued,  \* how many tokens it has given out
          mtx,     \* the goroutine that holds client.mtx
          pc,      \* where a goroutine is
          used,    \* the token of its request, or of its answer in Login
          again,   \* it is in the second request of a WithErrRecover
          result,  \* what its last call returned
          disturbed, \* since its call began another goroutine was logging in,
                     \* or the server has forgotten a token
          calls, errs, forgets

vars == <<token, valid, issued, mtx, pc, used, again, result, disturbed, calls, errs, forgets>>

Goroutines == Lockers \cup Getters

\* NewMatrixClient, with a login that succeeded.
Init ==
  /\ token = 1 /\ valid = {1} /\ issued = 1 /\ mtx = Nobody
  /\ pc = [g \in Goroutines |-> "idle"] /\ used = [g \in Goroutines |-> 0]
  /\ again = [g \in Goroutines |-> FALSE] /\ result = [g \in Goroutines |-> "none"]
  /\ disturbed = [g \in Goroutines |-> FALSE]
  /\ calls = [g \in Goroutines |-> 0] /\ errs = 0 /\ forgets = 0

LoggingIn == {"login", "logging", "assign"}

At(g, l) == pc[g] = l
Goto(g, l) == pc' = [pc EXCEPT ![g] = l]

Locks(g) == mtx = Nobody /\ mtx' = g

\* RequestUrl and the request: Put and Post wait for mtx, Get does not.
Send(g) ==
  /\ At(g, "idle") /\ calls[g] < MaxCalls
  /\ IF g \in Lockers THEN Locks(g) ELSE UNCHANGED mtx
  /\ used' = [used EXCEPT ![g] = token] /\ Goto(g, "sent")
  /\ again' = [again EXCEPT ![g] = FALSE]
  /\ disturbed' = [disturbed EXCEPT ![g] = \E h \in Goroutines : pc[h] \in LoggingIn]
  /\ calls' = [calls EXCEPT ![g] = @ + 1]
  /\ UNCHANGED <<token, valid, issued, result, errs, forgets>>

SendAgain(g) ==
  /\ At(g, "again")
  /\ IF g \in Lockers THEN Locks(g) ELSE UNCHANGED mtx
  /\ used' = [used EXCEPT ![g] = token] /\ Goto(g, "sent")
  /\ again' = [again EXCEPT ![g] = TRUE]
  /\ UNCHANGED <<token, valid, issued, result, disturbed, calls, errs, forgets>>

\* The deferred Unlock.
Unlocks(g) == mtx' = IF mtx = g THEN Nobody ELSE mtx

Returns(g, r) == Goto(g, "idle") /\ result' = [result EXCEPT ![g] = r]

Known(g) == used[g] \in valid

\* The server knows the token: the answer is good or some other error.
Answered(g) ==
  /\ At(g, "sent") /\ Known(g)
  /\ Unlocks(g) /\ Returns(g, "ok")
  /\ UNCHANGED <<token, valid, issued, used, again, disturbed, calls, errs, forgets>>

\* UNRECOGNISED_TOKEN_ERROR: the first time it leads to Login.
Refused(g) ==
  /\ At(g, "sent") /\ ~Known(g)
  /\ Unlocks(g)
  /\ IF again[g] THEN Returns(g, "refused") /\ UNCHANGED disturbed
     ELSE /\ Goto(g, "login") /\ UNCHANGED result
          /\ disturbed' = [h \in Goroutines |-> h # g \/ disturbed[h]]
  /\ UNCHANGED <<token, valid, issued, used, again, calls, errs, forgets>>

\* http.Post, http.Get or Do fails: Put and Post keep the mutex.
RequestFails(g) ==
  /\ At(g, "sent") /\ errs < MaxErr
  /\ errs' = errs + 1 /\ Returns(g, "failed")
  /\ UNCHANGED <<token, valid, issued, mtx, used, again, disturbed, calls, forgets>>

\* The Post of Login.
LoginSend(g) ==
  /\ At(g, "login") /\ Locks(g)
  /\ Goto(g, "logging")
  /\ UNCHANGED <<token, valid, issued, used, again, result, disturbed, calls, errs, forgets>>

LoginAnswered(g) ==
  /\ At(g, "logging") /\ issued < MaxLogins
  /\ issued' = issued + 1 /\ used' = [used EXCEPT ![g] = issued + 1]
  /\ valid' = (IF Replaces THEN {} ELSE valid) \cup {issued + 1}
  /\ Unlocks(g) /\ Goto(g, "assign")
  /\ UNCHANGED <<token, again, result, disturbed, calls, errs, forgets>>

\* Login returns an error: the server refused it, or the request failed and
\* the mutex is kept.  The call returns its first answer.
LoginFails(g) ==
  /\ At(g, "logging") /\ errs < MaxErr
  /\ errs' = errs + 1 /\ Returns(g, "not logged in")
  /\ Unlocks(g) \/ UNCHANGED mtx
  /\ UNCHANGED <<token, valid, issued, used, again, disturbed, calls, forgets>>

\* A mutation: the answer of the login is dropped.
AssignNothing(g) ==
  /\ At(g, "assign") /\ Goto(g, "again")
  /\ UNCHANGED <<token, valid, issued, mtx, used, again, result, disturbed, calls, errs, forgets>>

\* client.LoginRes = loginRes, after the unlock.
Assign(g) ==
  /\ At(g, "assign")
  /\ token' = used[g] /\ Goto(g, "again")
  /\ UNCHANGED <<valid, issued, mtx, used, again, result, disturbed, calls, errs, forgets>>

\* A token expires at the server.
Forget(t) ==
  /\ t \in valid /\ forgets < MaxForget
  /\ valid' = valid \ {t} /\ forgets' = forgets + 1
  /\ disturbed' = [g \in Goroutines |-> TRUE]
  /\ UNCHANGED <<token, issued, mtx, pc, used, again, result, calls, errs>>

Go(g) ==
  \/ SendAgain(g) \/ Answered(g) \/ Refused(g)
  \/ LoginSend(g) \/ LoginAnswered(g) \/ Assign(g)

Next ==
  \/ \E g \in Goroutines : Send(g) \/ Go(g) \/ RequestFails(g) \/ LoginFails(g)
  \/ \E t \in valid : Forget(t)

Spec == Init /\ [][Next]_vars

\* Requests are answered and sync.RWMutex starves nobody.
FairSpec == Spec /\ \A g \in Goroutines : SF_vars(Go(g))

-----------------------------------------------------------------------------
(* Every variable keeps its type, and the server only knows tokens it has    *)
(* given out; the token of the client is one of those.                       *)
TypeOK ==
  /\ issued \in 1 .. MaxLogins /\ token \in 1 .. issued /\ valid \subseteq 1 .. issued
  /\ mtx \in Goroutines \cup {Nobody}
  /\ pc \in [Goroutines -> {"idle", "sent", "again"} \cup LoggingIn]
  /\ used \in [Goroutines -> 0 .. issued] /\ again \in [Goroutines -> BOOLEAN]
  /\ result \in [Goroutines -> {"none", "ok", "refused", "failed", "not logged in"}]

(* The recovery works: a call of a WithErrRecover method that could log in   *)
(* is refused only if, since it began, another goroutine was logging in too  *)
(* (LoginRes is set after the unlock, so an older token may come last) or    *)
(* the server forgot a token.                                                *)
Recovers == \A g \in Goroutines : pc[g] = "idle" /\ result[g] = "refused" => disturbed[g]

(* As long as no request fails the mutex is held only around a request: the  *)
(* three ways out of Put, Post and Login unlock it.                          *)
LockHeld == errs = 0 /\ mtx # Nobody => pc[mtx] \in {"sent", "logging"}

(* As long as no request fails every call returns, though all of them queue  *)
(* for one mutex and each may have to log in.                                *)
CallEnds == \A g \in Goroutines : (pc[g] # "idle") ~> (pc[g] = "idle" \/ errs > 0)
=============================================================================
