---------------------------- MODULE Live_proofs -----------------------------
(***************************************************************************)
(* Proofs about the conversations of the console with the backend, for any *)
(* runs, projects and scripts and any number of streams, lookups, tokens,  *)
(* requests, retries and outages.                                          *)
(***************************************************************************)
EXTENDS MCLive, SequenceTheorems, TLAPS

-----------------------------------------------------------------------------
(* The session.  ShownIsStored is not inductive by itself: until init() is *)
(* done there is neither a form nor a request, while a password is changed *)
(* the token is the one it is changed under or none, and an answer to      *)
(* refreshMe comes only when the setup form has gone.                      *)

ServerType == [up : BOOLEAN, mode : {"on", "off"}, admin : BOOLEAN, valid : SUBSET Nat, issued : Nat]
AuthType == [mode : {"unknown", "on", "off"}, ready : BOOLEAN, me : Nat, needsBootstrap : BOOLEAN, busy : BOOLEAN]
OpType == [kind : {"none", "login", "bootstrap", "change"}, step : {"none", "ask", "pull"}, token : Nat]

SessionInv ==
    /\ server \in ServerType /\ auth \in AuthType /\ op \in OpType
    /\ S!TypeOK
    /\ token = stored
    /\ server.valid # {} => server.admin
    /\ init # "done" => ~auth.ready /\ auth.me = 0 /\ op = S!Idle /\ requests = {}
    /\ init \in {"setup", "me", "pull"} => server.mode = "on"
    /\ init \in {"me", "pull"} => auth.needsBootstrap = ~server.admin
    /\ init = "pull" => server.admin
    /\ op.step = "pull" => op.kind \in {"login", "bootstrap"} /\ op.token \in 1..server.issued
    /\ op.kind = "change" => token \in {0, op.token} /\ op.step = "ask" /\ op.token \in 0..server.issued
    /\ \A r \in requests : r.of = "me" => r.token # 0
    /\ auth.me # 0 \/ op.kind = "change" \/ (\E r \in requests : r.of = "me") => ~auth.needsBootstrap
    /\ auth.me # 0 /\ op.step # "pull" /\ auth.me \notin late => auth.me = token

\* The store after some of their fields were set.
LEMMA AuthSet ==
  ASSUME NEW a \in AuthType, NEW me \in Nat
  PROVE  /\ [a EXCEPT !.me = me, !.busy = FALSE] \in AuthType
         /\ [a EXCEPT !.me = me, !.busy = FALSE].me = me
         /\ [a EXCEPT !.me = me, !.busy = FALSE].mode = a.mode
         /\ [a EXCEPT !.me = me, !.busy = FALSE].needsBootstrap = a.needsBootstrap
         /\ [a EXCEPT !.me = me, !.busy = FALSE, !.needsBootstrap = FALSE] \in AuthType
         /\ [a EXCEPT !.me = me, !.busy = FALSE, !.needsBootstrap = FALSE].me = me
         /\ [a EXCEPT !.me = me, !.busy = FALSE, !.needsBootstrap = FALSE].mode = a.mode
         /\ [a EXCEPT !.me = me, !.busy = FALSE, !.needsBootstrap = FALSE].needsBootstrap = FALSE
BY DEF AuthType

LEMMA AuthNew ==
  ASSUME NEW n \in BOOLEAN
  PROVE  [mode |-> "on", ready |-> TRUE, me |-> 0, needsBootstrap |-> n, busy |-> FALSE] \in AuthType
BY DEF AuthType

\* The store after somebody was put in place, or nobody, by the callers' EXCEPTs.
LEMMA AuthMe ==
  ASSUME NEW a \in AuthType, NEW me \in Nat
  PROVE  /\ [a EXCEPT !.busy = FALSE] \in AuthType
         /\ [a EXCEPT !.busy = FALSE].me = a.me
         /\ [a EXCEPT !.busy = FALSE].mode = a.mode
         /\ [a EXCEPT !.busy = FALSE].ready = a.ready
         /\ [a EXCEPT !.busy = FALSE].needsBootstrap = a.needsBootstrap
         /\ [a EXCEPT !.me = me] \in AuthType
         /\ [a EXCEPT !.me = me].me = me
         /\ [a EXCEPT !.me = me].mode = a.mode
         /\ [a EXCEPT !.me = me].ready = a.ready
         /\ [a EXCEPT !.me = me].needsBootstrap = a.needsBootstrap
BY DEF AuthType

\* Types stay when a session is opened: one more token has been issued.
LEMMA Grown ==
  ASSUME NEW n \in Nat, NEW set, set \subseteq [of : S!Of, token : 0..n], NEW old, old \subseteq 1..n
  PROVE  /\ set \subseteq [of : S!Of, token : 0..(n + 1)]
         /\ S!Sent("me", n + 1) \in [of : S!Of, token : 0..(n + 1)]
         /\ old \subseteq 1..(n + 1) /\ n + 1 \in 1..(n + 1)
         /\ \A t \in 0..n : t \in 0..(n + 1) /\ (t # 0 => t \in 1..(n + 1))
<1>1. \A t \in 0..n : t \in 0..(n + 1) /\ (t # 0 => t \in 1..(n + 1))
  OBVIOUS
<1>2. ASSUME NEW r \in set PROVE r \in [of : S!Of, token : 0..(n + 1)]
  BY <1>1
<1>3. S!Sent("me", n + 1) \in [of : S!Of, token : 0..(n + 1)]
  BY DEF S!Sent, S!Of
<1> QED
  BY <1>1, <1>2, <1>3

\* What an answer does that is a refusal or changes no session: the token stays, or it is
\* dropped and nobody is shown.
LEMMA Refusals ==
  ASSUME SessionInv, NEW a \in AuthType, a.mode = auth.mode, a.me = auth.me,
         a.needsBootstrap = auth.needsBootstrap, S!Unauthorized(a) \/ S!Keep(a)
  PROVE  /\ auth' \in AuthType /\ auth'.mode = auth.mode /\ auth'.needsBootstrap = auth.needsBootstrap
         /\ token' = stored'
         /\ \/ token' = token /\ auth'.me = auth.me
            \/ token' = 0 /\ auth'.me = 0
<1>0. token = stored
  BY DEF SessionInv
<1>1. CASE S!Keep(a)
  BY <1>0, <1>1 DEF S!Keep
<1>2. CASE S!Unauthorized(a) /\ token # 0 /\ auth.mode = "on" /\ auth.me # 0
  <2>1. token' = 0 /\ stored' = 0 /\ auth' = [a EXCEPT !.me = 0]
    BY <1>2 DEF S!Unauthorized, S!Drop
  <2> QED
    BY <2>1, AuthMe
<1>3. CASE S!Unauthorized(a) /\ ~(token # 0 /\ auth.mode = "on" /\ auth.me # 0)
  <2>1. S!Keep(a)
    BY <1>3 DEF S!Unauthorized
  <2> QED
    BY <1>1, <2>1
<1> QED
  BY <1>1, <1>2, <1>3

\* A step that ends with the token kept, or with none and nobody shown, and adds no
\* request but of the app or logout.
LEMMA SessionSettled ==
  ASSUME SessionInv, init = "done", init' = "done", server' = server, late' = late,
         op' = op \/ op' = S!Idle, op.step # "pull" \/ op' = op,
         requests' \subseteq [of : S!Of, token : 0..server.issued],
         \A r \in requests' : r \in requests \/ r.of # "me",
         auth' \in AuthType, auth'.mode = auth.mode, auth'.needsBootstrap = auth.needsBootstrap,
         token' = stored',
         (token' = token /\ auth'.me = auth.me) \/ (token' = 0 /\ auth'.me = 0)
  PROVE  SessionInv'
<1>1. op' \in OpType /\ S!Idle.kind = "none" /\ S!Idle.step = "none"
  BY DEF SessionInv, OpType, S!Idle
<1>2. server.issued \in Nat /\ 0 \in 0..server.issued /\ token \in 0..server.issued
  BY DEF SessionInv, ServerType, S!TypeOK
<1>3. S!TypeOK'
  BY <1>2 DEF SessionInv, S!TypeOK
<1>4. \/ token' = token /\ auth'.me = auth.me
      \/ token' = 0 /\ auth'.me = 0
  OBVIOUS
<1>5. auth'.me # 0 \/ op'.kind = "change" \/ (\E r \in requests' : r.of = "me") => ~auth'.needsBootstrap
  BY <1>1 DEF SessionInv
<1>6. \A r \in requests' : r.of = "me" => r.token # 0
  BY DEF SessionInv
<1>7. /\ op'.step = "pull" => op'.kind \in {"login", "bootstrap"} /\ op'.token \in 1..server.issued
      /\ op'.kind = "change" => token' \in {0, op'.token} /\ op'.step = "ask" /\ op'.token \in 0..server.issued
  BY <1>1 DEF SessionInv
<1>8. auth'.me # 0 /\ op'.step # "pull" /\ auth'.me \notin late => auth'.me = token'
  BY <1>1 DEF SessionInv
<1> QED
  BY <1>1, <1>3, <1>5, <1>6, <1>7, <1>8 DEF SessionInv

\* Every action of the session keeps its invariant, one step per action.
LEMMA SessionStep == SessionInv /\ S!Next => SessionInv'
<1> SUFFICES ASSUME SessionInv, S!Next PROVE SessionInv'
  OBVIOUS
<1>0. /\ server \in ServerType /\ auth \in AuthType /\ op \in OpType /\ S!TypeOK /\ token = stored
      /\ server.issued \in Nat /\ token \in 0..server.issued /\ server.valid \subseteq 1..server.issued
      /\ requests \subseteq [of : S!Of, token : 0..server.issued] /\ late \subseteq 1..server.issued
      /\ auth.needsBootstrap \in BOOLEAN /\ auth.me \in 0..server.issued
  BY DEF SessionInv, ServerType, AuthType, S!TypeOK
<1>d. ASSUME init # "done" PROVE ~auth.ready /\ auth.me = 0 /\ op = S!Idle /\ requests = {}
  BY <1>d DEF SessionInv
<1>e. auth.ready \/ auth.me # 0 \/ op.kind # "none" \/ requests # {} => init = "done"
  BY <1>d DEF S!Idle
<1>1. CASE S!BackendStarts
  <2>1. /\ server' \in ServerType /\ server'.valid = server.valid /\ server'.issued = server.issued
        /\ server'.mode = server.mode /\ server'.admin = server.admin
    BY <1>0, <1>1 DEF S!BackendStarts, ServerType
  <2>2. UNCHANGED <<auth, token, stored, init, op, requests, late>>
    BY <1>1 DEF S!BackendStarts
  <2> QED
    BY <2>1, <2>2 DEF SessionInv, S!TypeOK
<1>2. ASSUME NEW t \in server.valid, S!Expire(t) PROVE SessionInv'
  <2>1. /\ server' \in ServerType /\ server'.valid \subseteq server.valid /\ server'.issued = server.issued
        /\ server'.mode = server.mode /\ server'.admin = server.admin
    BY <1>0, <1>2 DEF S!Expire, ServerType
  <2>2. UNCHANGED <<auth, token, stored, init, op, requests, late>>
    BY <1>2 DEF S!Expire
  <2> QED
    BY <2>1, <2>2 DEF SessionInv, S!TypeOK
<1>3. CASE S!InitProbe
  <2>1. /\ UNCHANGED <<server, op, requests, late>> /\ op = S!Idle /\ auth.me = 0 /\ requests = {} /\ init = "probe"
    BY <1>3, <1>d DEF S!InitProbe
  <2>2. CASE server.up /\ server.mode = "on"
    <3>1. init' = "setup" /\ UNCHANGED <<auth, token, stored>>
      BY <1>3, <2>2 DEF S!InitProbe, S!Keep
    <3> QED
      BY <2>1, <2>2, <3>1 DEF SessionInv, S!TypeOK
  <2>3. CASE ~(server.up /\ server.mode = "on")
    <3>1. init' = "done" /\ auth' \in AuthType /\ auth'.me = 0 /\ auth'.mode = "off"
      <4>1. init' = "done" /\ auth' = [auth EXCEPT !.mode = "off", !.ready = TRUE]
        BY <1>3, <2>3 DEF S!InitProbe
      <4> QED
        BY <1>0, <2>1, <4>1 DEF AuthType
    <3>2. token' = stored' /\ token' \in {0, token}
      BY <1>0, <1>3, <2>1, <2>3 DEF S!InitProbe, S!Drop
    <3> QED
      BY <1>0, <2>1, <3>1, <3>2 DEF SessionInv, S!TypeOK, S!Idle
  <2> QED
    BY <2>2, <2>3
<1>4. CASE S!InitSetup
  <2>1. auth' = [auth EXCEPT !.needsBootstrap = ~server.admin] /\ init = "setup" /\ init' = "me"
    BY <1>4 DEF S!InitSetup
  <2>2. /\ auth' \in AuthType /\ auth'.me = auth.me /\ auth'.ready = auth.ready /\ auth'.mode = auth.mode
        /\ auth'.needsBootstrap = ~server.admin
    BY <1>0, <2>1 DEF AuthType, ServerType
  <2>3. UNCHANGED <<server, token, stored, op, requests, late>>
    BY <1>4 DEF S!InitSetup
  <2> QED
    BY <1>0, <1>d, <2>1, <2>2, <2>3 DEF SessionInv, S!TypeOK, S!Idle
<1>5. CASE S!InitMe
  <2>1. /\ UNCHANGED <<server, op, requests, late>> /\ op = S!Idle /\ auth.me = 0 /\ requests = {}
        /\ init = "me"
    BY <1>5, <1>d DEF S!InitMe
  <2>2. CASE stored # 0 /\ S!Honoured(stored) /\ init' = "pull" /\ S!Keep(auth)
    <3>1. server.mode = "on" /\ server.admin
      BY <2>1, <2>2 DEF S!Honoured, SessionInv
    <3> QED
      BY <2>1, <2>2, <3>1 DEF SessionInv, S!TypeOK, S!Keep
  <2>3. CASE /\ init' = "done" /\ auth' = S!NotGated(auth.needsBootstrap)
             /\ IF stored # 0 THEN S!Drop ELSE UNCHANGED <<token, stored>>
    <3>1. auth' \in AuthType /\ auth'.me = 0 /\ auth'.mode = "on"
      BY <1>0, <2>3, AuthNew DEF S!NotGated
    <3>2. token' = stored' /\ token' \in {0, token}
      BY <1>0, <2>3 DEF S!Drop
    <3> QED
      BY <1>0, <2>1, <2>3, <3>1, <3>2 DEF SessionInv, S!TypeOK, S!Idle
  <2> QED
    BY <1>5, <2>2, <2>3 DEF S!InitMe
<1>6. CASE S!InitPull
  <2>1. /\ UNCHANGED <<server, token, stored, op, requests, late>> /\ op = S!Idle /\ requests = {}
        /\ init = "pull" /\ init' = "done" /\ auth' = S!Gated(auth.needsBootstrap)
    BY <1>6, <1>d DEF S!InitPull
  <2>2. ~auth.needsBootstrap
    BY <2>1 DEF SessionInv
  <2>3. auth' \in AuthType /\ auth'.me = token /\ auth'.mode = "on" /\ auth'.needsBootstrap = FALSE
    BY <1>0, <2>1, <2>2 DEF S!Gated, AuthType
  <2> QED
    BY <1>0, <2>1, <2>3 DEF SessionInv, S!TypeOK, S!Idle
<1>7. ASSUME NEW kind \in {"login", "bootstrap"}, S!SignIn(kind) PROVE SessionInv'
  <2>1. auth.ready /\ auth.mode = "on" /\ auth.me = 0 /\ init = "done"
    <3>1. S!Shows \in {"setup", "login"}
      BY <1>7 DEF S!SignIn
    <3>2. auth.ready /\ auth.mode = "on" /\ auth.me = 0
      BY <3>1 DEF S!Shows
    <3> QED
      BY <1>e, <3>2
  <2>2. /\ op' \in OpType /\ op'.step = "ask" /\ op'.kind \in {"login", "bootstrap"}
        /\ auth' \in AuthType /\ auth'.me = 0 /\ auth'.mode = "on" /\ auth'.needsBootstrap = auth.needsBootstrap
    BY <1>0, <1>7, <2>1 DEF S!SignIn, OpType, AuthType, S!Idle
  <2>3. UNCHANGED <<server, token, stored, init, requests, late>>
    BY <1>7 DEF S!SignIn
  <2> QED
    BY <1>0, <2>1, <2>2, <2>3 DEF SessionInv, S!TypeOK
<1>8. CASE S!SignInFails
  <2>1. /\ op' = S!Idle /\ auth' = [auth EXCEPT !.busy = FALSE] /\ op.step = "ask" /\ op.kind # "none"
        /\ UNCHANGED <<server, token, stored, init, requests, late>>
    BY <1>8 DEF S!SignInFails
  <2>2. /\ auth' \in AuthType /\ auth'.me = auth.me /\ auth'.mode = auth.mode
        /\ auth'.needsBootstrap = auth.needsBootstrap
    BY <1>0, <2>1, AuthMe
  <2> QED
    BY <1>0, <1>e, <2>1, <2>2, SessionSettled
<1>9. CASE S!SignInAnswer
  <2> DEFINE n == server.issued + 1
  <2>1. /\ init = "done" /\ op.kind \in {"login", "bootstrap"}
        /\ n \in Nat /\ n \in 1..MaxTokens /\ server.issued < n
    BY <1>0, <1>9, <1>e, BoundsAssumption DEF S!SignInAnswer, S!Issue
  <2>2. /\ server' \in ServerType /\ server'.valid = server.valid \cup {n} /\ server'.issued = n
        /\ server'.admin = TRUE /\ server'.mode = server.mode
    BY <1>0, <1>9, <2>1 DEF S!SignInAnswer, S!Issue, ServerType
  <2>3. op' \in OpType /\ op'.kind = op.kind /\ op'.token = n /\ op'.step = "pull"
    BY <1>0, <1>9, <2>1 DEF S!SignInAnswer, S!Issue, OpType
  <2>4. token' = n /\ stored' = n /\ UNCHANGED <<auth, init, requests, late>>
    BY <1>9 DEF S!SignInAnswer, S!Issue
  <2>5. /\ server.valid \cup {n} \subseteq 1..n /\ late \subseteq 1..n /\ n \in 0..n /\ auth.me \in 0..n
        /\ requests \subseteq [of : S!Of, token : 0..n] /\ n \in 1..n
    BY <1>0, <2>1, Grown
  <2> HIDE DEF n
  <2>6. S!TypeOK'
    BY <1>0, <2>1, <2>2, <2>4, <2>5 DEF S!TypeOK
  <2> QED
    BY <1>0, <2>1, <2>2, <2>3, <2>4, <2>5, <2>6 DEF SessionInv
<1>10. CASE S!SignInPulled
  <2>1. op.token \in 1..server.issued /\ op.step = "pull" /\ init = "done" /\ op.token \in Nat
    BY <1>0, <1>10, <1>e DEF S!SignInPulled, SessionInv
  <2>2. /\ auth' \in AuthType /\ auth'.me = op.token /\ auth'.mode = auth.mode /\ auth'.needsBootstrap = FALSE
    <3>1. auth' = [auth EXCEPT !.me = op.token, !.busy = FALSE, !.needsBootstrap = FALSE]
      BY <1>10 DEF S!SignInPulled, S!SignedIn
    <3> QED
      BY <1>0, <2>1, <3>1, AuthSet
  <2>3. /\ op' = S!Idle /\ op' \in OpType /\ UNCHANGED <<server, token, stored, init, requests>>
        /\ op'.kind = "none" /\ op'.step = "none"
    BY <1>10 DEF S!SignInPulled, OpType, S!Idle
  <2>4. late' \subseteq 1..server.issued /\ (op.token \notin late' => op.token = token)
    BY <1>0, <1>10, <2>1 DEF S!SignInPulled, S!Late
  <2>5. S!TypeOK'
    BY <1>0, <2>1, <2>2, <2>3, <2>4 DEF S!TypeOK
  <2> QED
    BY <1>0, <2>1, <2>2, <2>3, <2>4, <2>5 DEF SessionInv
<1>11. CASE S!Logout
  <2>1. /\ UNCHANGED <<server, auth, token, stored, init, op, late>> /\ auth.me # 0
        /\ requests' = requests \cup {S!Sent("logout", token)}
    BY <1>11 DEF S!Logout
  <2>2. S!Sent("logout", token) \in [of : S!Of, token : 0..server.issued] /\ S!Sent("logout", token).of # "me"
    BY <1>0 DEF S!Sent, S!Of
  <2> QED
    BY <1>0, <1>e, <2>1, <2>2, SessionSettled
<1>12. ASSUME NEW r \in requests, S!LogoutAnswer(r) PROVE SessionInv'
  <2>1. /\ UNCHANGED <<init, op, late>> /\ requests' \subseteq requests
        /\ token' = 0 /\ stored' = 0 /\ auth' = [auth EXCEPT !.me = 0]
        /\ server' = server \/ server' = [server EXCEPT !.valid = @ \ {r.token}]
    BY <1>12 DEF S!LogoutAnswer, S!Drop
  <2>2. /\ server' \in ServerType /\ server'.valid \subseteq server.valid /\ server'.issued = server.issued
        /\ server'.mode = server.mode /\ server'.admin = server.admin
    BY <1>0, <2>1 DEF ServerType
  <2>3. /\ auth' \in AuthType /\ auth'.me = 0 /\ auth'.mode = auth.mode
        /\ auth'.needsBootstrap = auth.needsBootstrap
    BY <1>0, <2>1, AuthMe
  <2>4. init = "done"
    BY <1>e
  <2>5. S!TypeOK'
    BY <1>0, <2>1, <2>2, <2>3 DEF S!TypeOK
  <2> QED
    BY <1>0, <2>1, <2>2, <2>3, <2>4, <2>5 DEF SessionInv
<1>13. CASE S!ChangePassword
  <2>1. /\ UNCHANGED <<server, token, stored, init, requests, late>> /\ auth.me # 0 /\ op = S!Idle
        /\ op' = [kind |-> "change", step |-> "ask", token |-> token]
        /\ auth' = [auth EXCEPT !.busy = TRUE]
    BY <1>13 DEF S!ChangePassword
  <2>2. op' \in OpType /\ op'.kind = "change" /\ op'.step = "ask" /\ op'.token = token /\ op.step = "none"
    BY <1>0, <2>1 DEF OpType, S!Idle
  <2>3. /\ auth' \in AuthType /\ auth'.me = auth.me /\ auth'.mode = auth.mode
        /\ auth'.needsBootstrap = auth.needsBootstrap
    BY <1>0, <2>1 DEF AuthType
  <2> QED
    BY <1>0, <1>e, <2>1, <2>2, <2>3 DEF SessionInv, S!TypeOK
<1>14. CASE S!Changed
  <2> DEFINE n == server.issued + 1
  <2>1. op' = S!Idle /\ op' \in OpType /\ op'.kind = "none" /\ op'.step = "none" /\ UNCHANGED <<init, late>> /\ init = "done"
    BY <1>14, <1>e DEF S!Changed, OpType, S!Idle
  <2>2. /\ n \in Nat /\ n \in 1..MaxTokens /\ server.issued < n /\ server.admin
        /\ op.kind = "change" /\ op.token \in server.valid /\ op.token # 0
    BY <1>0, <1>14, BoundsAssumption DEF S!Changed, S!Issue, SessionInv
  <2>3. PICK others \in SUBSET (server.valid \ {op.token}) :
              server' = [server EXCEPT !.valid = others \cup {n}, !.issued = n]
    BY <1>14 DEF S!Changed, S!Issue
  <2>4. /\ server' \in ServerType /\ server'.valid = others \cup {n} /\ server'.issued = n
        /\ server'.admin = server.admin /\ server'.mode = server.mode
    <3>1. others \cup {n} \in SUBSET Nat
      BY <1>0, <2>2
    <3> HIDE DEF n
    <3> QED
      BY <1>0, <2>2, <2>3, <3>1 DEF ServerType
  <2>5. /\ auth' \in AuthType /\ auth'.me = (IF auth.me = op.token THEN n ELSE auth.me)
        /\ auth'.mode = auth.mode /\ auth'.needsBootstrap = auth.needsBootstrap
    <3>1. auth' = [auth EXCEPT !.busy = FALSE, !.me = IF @ = op.token THEN n ELSE @]
      BY <1>14 DEF S!Changed, S!Issue
    <3> HIDE DEF n
    <3> QED
      BY <1>0, <2>2, <3>1 DEF AuthType
  <2>6. token' = n /\ stored' = n /\ requests' = requests \cup {S!Sent("me", n)}
    BY <1>14 DEF S!Changed, S!Issue, S!NewToken
  <2>7. /\ others \cup {n} \subseteq 1..n /\ late \subseteq 1..n /\ n \in 0..n /\ auth.me \in 0..n
        /\ requests \cup {S!Sent("me", n)} \subseteq [of : S!Of, token : 0..n] /\ n # 0
    <3>1. server.valid \subseteq 1..n
      BY <1>0, <2>2
    <3>2. late \subseteq 1..n /\ requests \subseteq [of : S!Of, token : 0..n]
      <4> late \subseteq 1..server.issued /\ requests \subseteq [of : S!Of, token : 0..server.issued]
          /\ server.issued \in Nat
        BY <1>0
      <4> QED
        BY Grown
    <3>3. n \in 1..n /\ n \in 0..n /\ n # 0 /\ auth.me \in 0..n
      BY <1>0, <2>2
    <3>4. S!Sent("me", n) \in [of : S!Of, token : 0..n]
      BY <3>3 DEF S!Sent, S!Of
    <3> HIDE DEF n
    <3> QED
      BY <3>1, <3>2, <3>3, <3>4
  <2>8. S!Sent("me", n).token = n
    BY DEF S!Sent
  <2> HIDE DEF n
  <2>9. S!TypeOK'
    BY <1>0, <2>1, <2>2, <2>4, <2>5, <2>6, <2>7 DEF S!TypeOK
  <2>10. auth.me # 0 /\ auth.me \notin late => auth.me = op.token
    BY <2>2 DEF SessionInv
  <2>11. ~auth.needsBootstrap /\ \A r \in requests' : r.of = "me" => r.token # 0
    BY <2>2, <2>6, <2>7, <2>8 DEF SessionInv
  <2> QED
    BY <2>1, <2>2, <2>4, <2>5, <2>6, <2>9, <2>10, <2>11 DEF SessionInv
<1>15. CASE S!NotChanged
  <2>1. /\ op' = S!Idle /\ UNCHANGED <<server, init, requests, late>> /\ op.kind = "change"
        /\ S!Unauthorized([auth EXCEPT !.busy = FALSE]) \/ S!Keep([auth EXCEPT !.busy = FALSE])
    BY <1>15 DEF S!NotChanged
  <2>2. op.step # "pull" /\ init = "done"
    BY <1>e, <2>1 DEF SessionInv
  <2>3. /\ [auth EXCEPT !.busy = FALSE] \in AuthType
        /\ [auth EXCEPT !.busy = FALSE].me = auth.me /\ [auth EXCEPT !.busy = FALSE].mode = auth.mode
        /\ [auth EXCEPT !.busy = FALSE].needsBootstrap = auth.needsBootstrap
    BY <1>0, AuthMe
  <2>4. /\ auth' \in AuthType /\ auth'.mode = auth.mode /\ auth'.needsBootstrap = auth.needsBootstrap
        /\ token' = stored'
        /\ \/ token' = token /\ auth'.me = auth.me
           \/ token' = 0 /\ auth'.me = 0
    BY <2>1, <2>3, Refusals
  <2> QED
    BY <1>0, <2>1, <2>2, <2>4, SessionSettled
<1>16. CASE S!Request
  <2>1. /\ UNCHANGED <<server, auth, token, stored, init, op, late>>
        /\ requests' = requests \cup {S!Sent("app", token)} /\ S!Shows = "app"
    BY <1>16 DEF S!Request
  <2>2. S!Sent("app", token) \in [of : S!Of, token : 0..server.issued] /\ S!Sent("app", token).of # "me"
    BY <1>0 DEF S!Sent, S!Of
  <2>3. init = "done"
    BY <1>e, <2>1 DEF S!Shows
  <2> QED
    BY <1>0, <2>1, <2>2, <2>3, SessionSettled
<1>17. ASSUME NEW r \in requests, requests' = requests \ {r}, UNCHANGED <<server, init, op, late>>,
              S!Keep(auth) \/ S!Unauthorized(auth)
       PROVE  SessionInv'
  <2>1. /\ auth' \in AuthType /\ auth'.mode = auth.mode /\ auth'.needsBootstrap = auth.needsBootstrap
        /\ token' = stored'
        /\ \/ token' = token /\ auth'.me = auth.me
           \/ token' = 0 /\ auth'.me = 0
    BY <1>0, <1>17, Refusals
  <2>2. init = "done"
    BY <1>e
  <2> QED
    BY <1>0, <1>17, <2>1, <2>2, SessionSettled
<1>18. ASSUME NEW r \in requests, S!Answer(r) PROVE SessionInv'
  BY <1>17, <1>18 DEF S!Answer
<1>19. ASSUME NEW r \in requests, S!MeAnswer(r) PROVE SessionInv'
  <2>1. requests' = requests \ {r} /\ UNCHANGED <<server, init, op>> /\ r.of = "me" /\ init = "done"
    BY <1>19, <1>e DEF S!MeAnswer
  <2>2. CASE S!Keep([auth EXCEPT !.me = r.token]) /\ late' = S!Late(r.token)
    <3>1. r.token \in 1..server.issued /\ r.token \in Nat
      BY <1>0, <2>1 DEF SessionInv
    <3>2. /\ auth' \in AuthType /\ auth'.me = r.token /\ auth'.mode = auth.mode
          /\ auth'.needsBootstrap = auth.needsBootstrap /\ UNCHANGED <<token, stored>>
      BY <1>0, <2>2, <3>1, AuthMe DEF S!Keep
    <3>3. late' \subseteq 1..server.issued /\ (r.token \notin late' => r.token = token)
      BY <1>0, <2>2, <3>1 DEF S!Late
    <3>4. ~auth.needsBootstrap
      BY <2>1 DEF SessionInv
    <3>5. S!TypeOK'
      BY <1>0, <2>1, <3>1, <3>2, <3>3 DEF S!TypeOK
    <3> QED
      BY <1>0, <2>1, <3>1, <3>2, <3>3, <3>4, <3>5 DEF SessionInv
  <2>3. CASE UNCHANGED late /\ (S!Keep(auth) \/ S!Unauthorized(auth))
    BY <1>17, <2>1, <2>3
  <2> QED
    BY <1>19, <2>2, <2>3 DEF S!MeAnswer, S!LeftAsIs
<1> QED
  BY <1>1, <1>2, <1>3, <1>4, <1>5, <1>6, <1>7, <1>8, <1>9, <1>10, <1>11, <1>12, <1>13, <1>14, <1>15, <1>16, <1>18, <1>19
     DEF S!Next, S!AnyAnswer

-----------------------------------------------------------------------------
(* The connect loop.                                                       *)

Probing == {r \in refreshes : r.who = "loop"}
LinkInv ==
    /\ up \in BOOLEAN /\ outages \in Nat /\ retries \in Nat /\ tries \in Nat /\ cached \in Nat
    /\ loop \in {"idle", "probing", "fast", "slow"}
    /\ refreshes \subseteq [who : S!Starters, at : {"probe", "capabilities"}]
    /\ \A r, q \in refreshes : r.who = q.who => r = q
    /\ S!LoopAlive
    /\ S!FastWhileNew
    /\ outages = 0 /\ retries = 0 =>
        /\ cached \in {S!Unresolved, S!Missing, 2}
        /\ cached = 2 => up
        /\ status = "available" \/ (\E r \in refreshes : r.at = "capabilities") => cached = 2

\* Starting a refresh, whoever starts it: none of the starter's is in flight.
LEMMA BeginRefresh ==
  ASSUME LinkInv, NEW who \in S!Starters, NEW c \in {S!Unresolved, cached}, NEW s, S!Begin(who, c, s), outages' = outages, up' = up
  PROVE  /\ refreshes' = refreshes \cup {[who |-> who, at |-> "probe"]}
         /\ refreshes' \subseteq [who : S!Starters, at : {"probe", "capabilities"}]
         /\ \A r, q \in refreshes' : r.who = q.who => r = q
         /\ \A r \in refreshes' : r.at = "capabilities" => r \in refreshes
         /\ \A r \in refreshes : r.who # who
         /\ cached' \in Nat
         /\ outages = 0 /\ retries = 0 => /\ cached' \in {S!Unresolved, S!Missing, 2}
                                          /\ cached' = 2 => up'
                                          /\ cached = 2 => cached' = 2
<1> DEFINE new == [who |-> who, at |-> "probe"]
<1>1. refreshes' = refreshes \cup {new} /\ who \notin {r.who : r \in refreshes} /\ cached' = S!Resolved(c)
  BY DEF S!Begin
<1>2. new.who = who /\ new.at = "probe" /\ new \in [who : S!Starters, at : {"probe", "capabilities"}]
  OBVIOUS
<1>3. /\ refreshes \subseteq [who : S!Starters, at : {"probe", "capabilities"}]
      /\ \A r, q \in refreshes : r.who = q.who => r = q
      /\ outages \in Nat /\ cached \in Nat
  BY DEF LinkInv
<1>4. \A r \in refreshes : r.who # who
  BY <1>1
<1> HIDE DEF new
<1>5. /\ refreshes' \subseteq [who : S!Starters, at : {"probe", "capabilities"}]
      /\ \A r, q \in refreshes' : r.who = q.who => r = q
      /\ \A r \in refreshes' : r.at = "capabilities" => r \in refreshes
  BY <1>1, <1>2, <1>3, <1>4
<1>6. cached' \in Nat
  BY <1>1, <1>3 DEF S!Resolved, S!Unresolved, S!Missing, S!Nth
<1>7. ASSUME outages = 0, retries = 0
      PROVE  /\ cached' \in {S!Unresolved, S!Missing, 2}
             /\ cached' = 2 => up'
             /\ cached = 2 => cached' = 2
  <2>1. cached \in {S!Unresolved, S!Missing, 2} /\ (cached = 2 => up)
    BY <1>7 DEF LinkInv
  <2>2. S!Nth = 2
    BY <1>7 DEF S!Nth
  <2> QED
    BY <1>1, <2>1, <2>2 DEF S!Resolved, S!Unresolved, S!Missing
<1> QED
  BY <1>1, <1>4, <1>5, <1>6, <1>7 DEF new

\* The loop counts a probe that failed.
LEMMA LoopFailed ==
  ASSUME tries \in Nat, S!LoopOn("loop", FALSE)
  PROVE  tries' \in Nat /\ loop' \in {"fast", "slow"} /\ (loop' = "slow" => tries' > FastTries)
<1>1. /\ tries' = IF tries > FastTries THEN tries ELSE tries + 1
      /\ loop' = IF tries + 1 <= FastTries THEN "fast" ELSE "slow"
  BY DEF S!LoopOn, S!Delay
<1> QED
  BY <1>1, BoundsAssumption

\* Every action of the connection keeps its invariant, one step per action.
LEMMA LinkStep == LinkInv /\ S!LinkNext => LinkInv'
<1> SUFFICES ASSUME LinkInv, S!LinkNext PROVE LinkInv'
  OBVIOUS
<1> USE BoundsAssumption DEF S!LoopAlive, S!FastWhileNew
<1>0. /\ up \in BOOLEAN /\ outages \in Nat /\ retries \in Nat /\ tries \in Nat /\ cached \in Nat
      /\ loop \in {"idle", "probing", "fast", "slow"}
      /\ refreshes \subseteq [who : S!Starters, at : {"probe", "capabilities"}]
      /\ \A r, q \in refreshes : r.who = q.who => r = q
      /\ S!LoopAlive /\ S!FastWhileNew
      /\ outages = 0 /\ retries = 0 => /\ cached \in {S!Unresolved, S!Missing, 2}
                                       /\ cached = 2 => up
                                       /\ status = "available" \/ (\E r \in refreshes : r.at = "capabilities") => cached = 2
  BY DEF LinkInv
<1>1. CASE S!GoesDown
  <2>1. outages' = outages + 1 /\ outages' # 0 /\ outages' \in Nat /\ outages' > 0
    BY <1>0, <1>1 DEF S!GoesDown
  <2> QED
    BY <1>0, <1>1, <2>1 DEF S!GoesDown, LinkInv
<1>2. CASE S!ComesUp
  BY <1>0, <1>2 DEF S!ComesUp, LinkInv
<1>3. CASE S!Tick
  <2>1. S!Begin("loop", IF status # "available" THEN S!Unresolved ELSE cached, status)
    BY <1>3 DEF S!Tick, S!CacheDropped
  <2>2. loop' = "probing" /\ UNCHANGED <<up, outages, retries, capable, tries>>
    BY <1>3 DEF S!Tick
  <2>3. status' = IF status = "unknown" THEN "connecting" ELSE status
    BY <2>1 DEF S!Begin
  <2>4. "loop" \in S!Starters
    BY DEF S!Starters
  <2>5. /\ refreshes' = refreshes \cup {[who |-> "loop", at |-> "probe"]}
        /\ refreshes' \subseteq [who : S!Starters, at : {"probe", "capabilities"}]
        /\ \A r, q \in refreshes' : r.who = q.who => r = q
        /\ \A r \in refreshes' : r.at = "capabilities" => r \in refreshes
        /\ cached' \in Nat
        /\ outages = 0 /\ retries = 0 => /\ cached' \in {S!Unresolved, S!Missing, 2}
                                         /\ cached' = 2 => up'
                                         /\ cached = 2 => cached' = 2
    BY <2>1, <2>2, <2>4, BeginRefresh
  <2>6. S!LoopAlive'
    <3>1. [who |-> "loop", at |-> "probe"] \in refreshes' /\ [who |-> "loop", at |-> "probe"].who = "loop"
      BY <2>5
    <3> QED
      BY <2>2, <3>1
  <2>7. S!FastWhileNew'
    BY <2>2
  <2> QED
    BY <1>0, <2>2, <2>3, <2>5, <2>6, <2>7 DEF LinkInv
<1>4. CASE S!Retry
  <2>1. S!Begin("retry", S!Unresolved, "unknown")
    BY <1>4 DEF S!Retry, S!CacheDropped
  <2>2. retries' = retries + 1 /\ tries' = 0 /\ UNCHANGED <<up, outages, capable, loop>>
    BY <1>4 DEF S!Retry
  <2>3. "retry" \in S!Starters /\ retries' \in Nat /\ retries' > 0
    BY <1>0, <2>2 DEF S!Starters
  <2>4. /\ refreshes' = refreshes \cup {[who |-> "retry", at |-> "probe"]}
        /\ refreshes' \subseteq [who : S!Starters, at : {"probe", "capabilities"}]
        /\ \A r, q \in refreshes' : r.who = q.who => r = q
        /\ cached' \in Nat
    BY <2>1, <2>2, <2>3, BeginRefresh
  <2>5. S!LoopAlive'
    <3>1. [who |-> "retry", at |-> "probe"].who # "loop"
      OBVIOUS
    <3> QED
      BY <1>0, <2>2, <2>4, <3>1
  <2> QED
    BY <1>0, <2>2, <2>3, <2>4, <2>5 DEF LinkInv
<1>5. CASE S!ScreenMounts
  <2>1. S!Begin("screen", cached, status) /\ status = "unknown"
    BY <1>5 DEF S!ScreenMounts
  <2>2. UNCHANGED <<up, outages, retries, capable, tries, loop>>
    BY <1>5 DEF S!ScreenMounts
  <2>3. status' = "connecting"
    BY <2>1 DEF S!Begin
  <2>4. "screen" \in S!Starters
    BY DEF S!Starters
  <2>5. /\ refreshes' = refreshes \cup {[who |-> "screen", at |-> "probe"]}
        /\ refreshes' \subseteq [who : S!Starters, at : {"probe", "capabilities"}]
        /\ \A r, q \in refreshes' : r.who = q.who => r = q
        /\ \A r \in refreshes' : r.at = "capabilities" => r \in refreshes
        /\ cached' \in Nat
        /\ outages = 0 /\ retries = 0 => /\ cached' \in {S!Unresolved, S!Missing, 2}
                                         /\ cached' = 2 => up'
                                         /\ cached = 2 => cached' = 2
    BY <2>1, <2>2, <2>4, BeginRefresh
  <2>6. S!LoopAlive'
    <3>1. [who |-> "screen", at |-> "probe"].who # "loop"
      OBVIOUS
    <3> QED
      BY <1>0, <2>2, <2>5, <3>1
  <2>7. S!FastWhileNew'
    BY <1>0, <2>1, <2>2
  <2> QED
    BY <1>0, <2>2, <2>3, <2>5, <2>6, <2>7 DEF LinkInv
<1>6. ASSUME NEW r \in refreshes, S!ProbeAnswer(r) PROVE LinkInv'
  <2>0. UNCHANGED <<up, outages, retries, cached>> /\ r.at = "probe"
    BY <1>6 DEF S!ProbeAnswer
  <2>1. CASE up /\ cached = S!Nth
    <3> DEFINE new == [r EXCEPT !.at = "capabilities"]
    <3>1. refreshes' = (refreshes \ {r}) \cup {new} /\ UNCHANGED <<status, capable, tries, loop>>
      BY <1>6, <2>1 DEF S!ProbeAnswer
    <3>2. new \in [who : S!Starters, at : {"probe", "capabilities"}] /\ new.who = r.who /\ new.at = "capabilities"
      BY <1>0
    <3> HIDE DEF new
    <3>3. /\ refreshes' \subseteq [who : S!Starters, at : {"probe", "capabilities"}]
          /\ \A a, b \in refreshes' : a.who = b.who => a = b
      BY <1>0, <3>1, <3>2
    <3>4. (\E a \in refreshes' : a.who = "loop") <=> \E a \in refreshes : a.who = "loop"
      BY <1>0, <3>1, <3>2
    <3>5. S!LoopAlive' /\ S!FastWhileNew'
      BY <1>0, <2>0, <3>1, <3>4
    <3>6. outages = 0 => cached = 2
      BY <1>0, <2>1 DEF S!Nth
    <3> QED
      BY <1>0, <2>0, <3>1, <3>3, <3>5, <3>6 DEF LinkInv
  <2>2. CASE ~(up /\ cached = S!Nth)
    <3>1. /\ refreshes' = refreshes \ {r} /\ status' = "unavailable" /\ S!LoopOn(r.who, FALSE)
      BY <1>6, <2>2 DEF S!ProbeAnswer
    <3>2. /\ refreshes' \subseteq [who : S!Starters, at : {"probe", "capabilities"}]
          /\ \A a, b \in refreshes' : a.who = b.who => a = b
          /\ \A a \in refreshes' : a.who # r.who /\ a \in refreshes
      BY <1>0, <3>1
    <3>3. CASE r.who = "loop"
      <4>1. tries' \in Nat /\ loop' \in {"fast", "slow"} /\ (loop' = "slow" => tries' > FastTries)
        BY <1>0, <3>1, <3>3, LoopFailed
      <4>2. S!LoopAlive' /\ S!FastWhileNew'
        BY <3>2, <3>3, <4>1
      <4> QED
        BY <1>0, <2>0, <3>1, <3>2, <4>1, <4>2 DEF LinkInv
    <3>4. CASE r.who # "loop"
      <4>1. UNCHANGED <<tries, loop>>
        BY <3>1, <3>4 DEF S!LoopOn
      <4>2. S!LoopAlive'
        BY <1>0, <3>1, <3>2, <3>4, <4>1
      <4>3. outages = 0 /\ retries = 0 => status # "available"
        <5>1. ASSUME outages = 0, retries = 0, status = "available" PROVE FALSE
          <6>1. cached = 2 /\ up
            BY <1>0, <5>1
          <6> QED
            BY <2>2, <5>1, <6>1 DEF S!Nth
        <5> QED
          BY <5>1
      <4>4. S!FastWhileNew'
        BY <1>0, <2>0, <4>1, <4>3
      <4> QED
        BY <1>0, <2>0, <3>1, <3>2, <4>1, <4>2, <4>4 DEF LinkInv
    <3> QED
      BY <3>3, <3>4
  <2> QED
    BY <2>1, <2>2
<1>7. ASSUME NEW r \in refreshes, S!CapabilitiesAnswer(r) PROVE LinkInv'
  <2>1. /\ UNCHANGED <<up, outages, retries, cached>> /\ r.at = "capabilities"
        /\ refreshes' = refreshes \ {r} /\ status' = "available" /\ S!LoopOn(r.who, TRUE)
    BY <1>7 DEF S!CapabilitiesAnswer
  <2>2. /\ refreshes' \subseteq [who : S!Starters, at : {"probe", "capabilities"}]
        /\ \A a, b \in refreshes' : a.who = b.who => a = b
        /\ \A a \in refreshes' : a.who # r.who /\ a \in refreshes
    BY <1>0, <2>1
  <2>3. tries' \in Nat /\ loop' \in {"idle", "probing", "fast", "slow"} /\ S!LoopAlive'
    <3>1. CASE r.who = "loop"
      <4>1. tries' = 0 /\ loop' = "slow"
        BY <2>1, <3>1 DEF S!LoopOn
      <4> QED
        BY <2>2, <3>1, <4>1
    <3>2. CASE r.who # "loop"
      <4>1. UNCHANGED <<tries, loop>>
        BY <2>1, <3>2 DEF S!LoopOn
      <4> QED
        BY <1>0, <2>1, <2>2, <3>2, <4>1
    <3> QED
      BY <3>1, <3>2
  <2>4. S!FastWhileNew'
    BY <2>1
  <2>5. outages = 0 /\ retries = 0 => cached = 2
    BY <1>0, <2>1
  <2> QED
    BY <1>0, <2>1, <2>2, <2>3, <2>4, <2>5 DEF LinkInv
<1> QED
  BY <1>1, <1>2, <1>3, <1>4, <1>5, <1>6, <1>7 DEF S!LinkNext

-----------------------------------------------------------------------------
(* The live view.                                                          *)

Messages == STRING \cup {"run-end"}
Named == V!Projects \cup {V!Unknown}
Statuses == {"none", "starting", "running", "awaiting_approval"} \cup V!Final
StreamType == [run : Runs, project : Named, at : Nat, state : {"open", "aborted", "ended", "dropped", "failed"}]
AskType == [op : {"attach", "replay"}, run : Runs, hint : Named]
LiveType == [run : Runs \cup {0}, project : Named, status : Statuses, got : Seq(Runs \X Nat), stream : Nat, replay : BOOLEAN]

\* A run has ended exactly when the last it sent is its end.
Told(r) ==
    /\ outcome[r] \in V!Outcomes => Len(sent[r]) > 0 /\ sent[r][Len(sent[r])] = "run-end"
    /\ \A n \in 1..Len(sent[r]) : sent[r][n] = "run-end" => outcome[r] \in V!Outcomes

ViewTypes ==
    /\ store \in {"ansible", "runbook"} /\ raced \in BOOLEAN
    /\ sent \in [Runs -> Seq(Messages)]
    /\ outcome \in [Runs -> {"idle", "running"} \cup V!Outcomes]
    /\ cancelled \subseteq Runs
    /\ streams \in Seq(StreamType) /\ asks \in Seq(AskType)
    /\ live \in LiveType /\ live.stream \in 0..Len(streams)
    /\ store = "runbook" => live.status # "cancelled"
    /\ \A s \in 1..Len(streams) : streams[s].at <= Len(sent[streams[s].run])
    /\ \A i \in 1..Len(asks) : asks[i].op = "replay" => store = "ansible" /\ outcome[asks[i].run] \in V!Outcomes
    /\ \A r \in Runs : Told(r)

\* At most one lookup is in flight and, when none is, at most one stream is read: that of the view.
Quiet ==
    /\ Len(asks) <= 1
    /\ \A s \in 1..Len(streams) : V!Open(s) => s = live.stream /\ Len(asks) = 0

\* The events shown are the first ones of run r.
Shows(r) == \A n \in 1..Len(live.got) : live.got[n] = <<r, n>>

\* What the view shows is what its stream delivered, and its status is final once the stream is through.
Fed(s) ==
    LET st == streams[s]
    IN  /\ live.status # "none" /\ live.project = st.project
        /\ Len(live.got) = st.at /\ Shows(st.run)
        /\ live.status = "ok" /\ st.state # "dropped" => outcome[st.run] = "ok"
        /\ st.at = Len(sent[st.run]) /\ outcome[st.run] \in V!Outcomes => live.status \notin {"starting", "running"}

\* A view without a stream is empty or a replay.
Standing == \E r \in Runs : Shows(r) /\ (live.status = "ok" => outcome[r] = "ok")
Sound == IF live.stream = 0 THEN Standing ELSE Fed(live.stream)

ViewInv == ViewTypes /\ (~raced => Quiet /\ Sound)

LEMMA SeqElements ==
  ASSUME NEW T, NEW q \in Seq(T)
  PROVE  Len(q) \in Nat /\ \A i \in 1..Len(q) : q[i] \in T
BY LenProperties

\* A sequence with one element replaced.
LEMMA SeqSet ==
  ASSUME NEW T, NEW q \in Seq(T), NEW i \in 1..Len(q), NEW x \in T
  PROVE  /\ [q EXCEPT ![i] = x] \in Seq(T) /\ Len([q EXCEPT ![i] = x]) = Len(q)
         /\ [q EXCEPT ![i] = x][i] = x
         /\ \A j \in 1..Len(q) : j # i => [q EXCEPT ![i] = x][j] = q[j]
BY ExceptSeq

\* A sequence with one element appended.
LEMMA SeqMore ==
  ASSUME NEW T, NEW q \in Seq(T), NEW x \in T
  PROVE  /\ Append(q, x) \in Seq(T) /\ Len(Append(q, x)) = Len(q) + 1
         /\ Append(q, x)[Len(q) + 1] = x
         /\ \A j \in 1..Len(q) : Append(q, x)[j] = q[j]
BY AppendProperties

\* A stream after its position, or its state, was set.
LEMMA StreamAt ==
  ASSUME NEW st \in StreamType, NEW n \in Nat
  PROVE  /\ [st EXCEPT !.at = n] \in StreamType /\ [st EXCEPT !.at = n].at = n
         /\ [st EXCEPT !.at = n].run = st.run /\ [st EXCEPT !.at = n].project = st.project
         /\ [st EXCEPT !.at = n].state = st.state
BY DEF StreamType

LEMMA StreamState ==
  ASSUME NEW st \in StreamType, NEW x \in {"open", "aborted", "ended", "dropped", "failed"}
  PROVE  /\ [st EXCEPT !.state = x] \in StreamType /\ [st EXCEPT !.state = x].state = x
         /\ [st EXCEPT !.state = x].run = st.run /\ [st EXCEPT !.state = x].project = st.project
         /\ [st EXCEPT !.state = x].at = st.at
BY DEF StreamType

\* The streams, as far as they are typed.
StreamsOk(ss) ==
    /\ ss \in Seq(StreamType)
    /\ \A s \in 1..Len(ss) : ss[s].at <= Len(sent[ss[s].run])

\* The streams after one of them changed its state.
LEMMA StateSet ==
  ASSUME ViewTypes, NEW s \in 1..Len(streams), NEW x \in {"open", "aborted", "ended", "dropped", "failed"}
  PROVE  LET new == [streams EXCEPT ![s].state = x]
         IN  /\ StreamsOk(new) /\ Len(new) = Len(streams)
             /\ \A j \in 1..Len(streams) : /\ new[j].run = streams[j].run /\ new[j].project = streams[j].project
                                           /\ new[j].at = streams[j].at
                                           /\ new[j].state = IF j = s THEN x ELSE streams[j].state
<1> DEFINE st == streams[s]
           one == [st EXCEPT !.state = x]
           new == [streams EXCEPT ![s] = one]
<1>1. streams \in Seq(StreamType) /\ st \in StreamType
      /\ \A j \in 1..Len(streams) : streams[j].at <= Len(sent[streams[j].run])
  BY SeqElements DEF ViewTypes
<1>2. one \in StreamType /\ one.state = x /\ one.run = st.run /\ one.project = st.project /\ one.at = st.at
  <2> HIDE DEF st
  <2> QED
    BY <1>1, StreamState
<1>3. /\ new \in Seq(StreamType) /\ Len(new) = Len(streams) /\ new[s] = one
      /\ \A j \in 1..Len(streams) : j # s => new[j] = streams[j]
  <2> HIDE DEF one
  <2> QED
    BY <1>1, <1>2, SeqSet
<1>4. \A j \in 1..Len(streams) : /\ new[j].run = streams[j].run /\ new[j].project = streams[j].project
                                 /\ new[j].at = streams[j].at
                                 /\ new[j].state = IF j = s THEN x ELSE streams[j].state
  <2> HIDE DEF new, one
  <2> QED
    BY <1>2, <1>3
<1>5. StreamsOk(new)
  <2> HIDE DEF new, one
  <2> QED
    BY <1>1, <1>3, <1>4 DEF StreamsOk
<1> QED
  BY <1>3, <1>4, <1>5

\* Aborting the view closes its stream and touches no other.
LEMMA AbortOk ==
  ASSUME ViewTypes
  PROVE  /\ StreamsOk(V!Abort) /\ Len(V!Abort) = Len(streams)
         /\ \A j \in 1..Len(streams) : /\ V!Abort[j].run = streams[j].run /\ V!Abort[j].project = streams[j].project
                                       /\ V!Abort[j].at = streams[j].at
                                       /\ V!Abort[j].state = "open" => streams[j].state = "open" /\ j # live.stream
                                       /\ V!Abort[j].state = "dropped" <=> streams[j].state = "dropped"
<1>0. StreamsOk(streams) /\ live.stream \in 0..Len(streams) /\ Len(streams) \in Nat
  BY LenProperties DEF ViewTypes, StreamsOk
<1>1. CASE live.stream = 0
  <2>1. V!Abort = streams
    BY <1>1 DEF V!Abort
  <2> QED
    BY <1>0, <1>1, <2>1
<1>2. CASE live.stream # 0 /\ ~V!Open(live.stream)
  <2>1. V!Abort = streams
    BY <1>2 DEF V!Abort
  <2> QED
    BY <1>0, <1>2, <2>1 DEF V!Open
<1>3. CASE live.stream # 0 /\ V!Open(live.stream)
  <2>1. V!Abort = [streams EXCEPT ![live.stream].state = "aborted"] /\ live.stream \in 1..Len(streams)
    BY <1>0, <1>3 DEF V!Abort
  <2>2. streams[live.stream].state = "open"
    BY <1>3 DEF V!Open
  <2>3. PICK s \in 1..Len(streams) : s = live.stream
    BY <2>1
  <2>4. V!Abort = [streams EXCEPT ![s].state = "aborted"] /\ streams[s].state = "open"
    BY <2>1, <2>2, <2>3
  <2> DEFINE new == [streams EXCEPT ![s].state = "aborted"]
  <2>5. /\ StreamsOk(new) /\ Len(new) = Len(streams)
        /\ \A j \in 1..Len(streams) : /\ new[j].run = streams[j].run /\ new[j].project = streams[j].project
                                      /\ new[j].at = streams[j].at
                                      /\ new[j].state = IF j = s THEN "aborted" ELSE streams[j].state
    BY StateSet
  <2>6. V!Abort = new
    BY <2>4
  <2> HIDE DEF new
  <2> QED
    BY <2>3, <2>4, <2>5, <2>6
<1> QED
  BY <1>1, <1>2, <1>3

\* A new stream is opened at the start of its run.
LEMMA OpenedOk ==
  ASSUME NEW ss, StreamsOk(ss), sent \in [Runs -> Seq(Messages)], NEW r \in Runs, NEW p \in Named
  PROVE  /\ StreamsOk(V!Opened(ss, r, p)) /\ Len(V!Opened(ss, r, p)) = Len(ss) + 1
         /\ V!Opened(ss, r, p)[Len(ss) + 1] = [run |-> r, project |-> p, at |-> 0, state |-> "open"]
         /\ \A j \in 1..Len(ss) : V!Opened(ss, r, p)[j] = ss[j]
<1> DEFINE new == [run |-> r, project |-> p, at |-> 0, state |-> "open"]
           all == Append(ss, new)
<1>1. new \in StreamType /\ new.at = 0 /\ new.run = r
  BY DEF StreamType
<1>2. ss \in Seq(StreamType) /\ Len(ss) \in Nat /\ \A j \in 1..Len(ss) : ss[j].at <= Len(sent[ss[j].run])
  BY LenProperties DEF StreamsOk
<1> HIDE DEF new
<1>3. /\ all \in Seq(StreamType) /\ Len(all) = Len(ss) + 1 /\ all[Len(ss) + 1] = new
      /\ \A j \in 1..Len(ss) : all[j] = ss[j]
  BY <1>1, <1>2, SeqMore
<1>4. V!Opened(ss, r, p) = all
  BY DEF V!Opened, new
<1> HIDE DEF all
<1>5. 0 <= Len(sent[r])
  BY LenProperties
<1>6. \A j \in 1..(Len(ss) + 1) : all[j].at <= Len(sent[all[j].run])
  <2> SUFFICES ASSUME NEW j \in 1..(Len(ss) + 1) PROVE all[j].at <= Len(sent[all[j].run])
    OBVIOUS
  <2>1. j \in 1..Len(ss) \/ j = Len(ss) + 1
    BY <1>2
  <2>2. CASE j \in 1..Len(ss)
    BY <1>2, <1>3, <2>2
  <2>3. CASE j = Len(ss) + 1
    BY <1>1, <1>3, <1>5, <2>3
  <2> QED
    BY <2>1, <2>2, <2>3
<1> QED
  BY <1>3, <1>4, <1>6 DEF StreamsOk, new

\* A step that sends nothing and ends no run keeps the types, if what it writes is typed.
LEMMA TypesStep ==
  ASSUME ViewTypes, UNCHANGED <<store, sent>>, raced' \in BOOLEAN, cancelled' \subseteq Runs,
         outcome' \in [Runs -> {"idle", "running"} \cup V!Outcomes],
         \A r \in Runs : outcome'[r] \in V!Outcomes <=> outcome[r] \in V!Outcomes,
         StreamsOk(streams'), asks' \in Seq(AskType),
         \A i \in 1..Len(asks') : asks'[i].op = "replay" => store = "ansible" /\ outcome[asks'[i].run] \in V!Outcomes,
         live' \in LiveType, live'.stream \in 0..Len(streams'), store = "runbook" => live'.status # "cancelled"
  PROVE  ViewTypes'
<1>1. \A i \in 1..Len(asks') : asks'[i] \in AskType
  BY SeqElements
<1>2. \A r \in Runs : Told(r)'
  BY DEF ViewTypes, Told
<1>3. \A i \in 1..Len(asks') : asks'[i].op = "replay" => store' = "ansible" /\ outcome'[asks'[i].run] \in V!Outcomes
  BY <1>1 DEF AskType
<1>4. \A s \in 1..Len(streams') : streams'[s].at <= Len(sent'[streams'[s].run])
  BY DEF StreamsOk
<1>5. store' \in {"ansible", "runbook"} /\ sent' \in [Runs -> Seq(Messages)] /\ streams' \in Seq(StreamType)
  BY DEF ViewTypes, StreamsOk
<1> QED
  BY <1>2, <1>3, <1>4, <1>5 DEF ViewTypes

\* What is shown stays sound while the view, what its stream delivered and how a run ended do not change.
LEMMA SoundStays ==
  ASSUME ViewTypes, Sound, live' = live,
         live.stream # 0 =>
             /\ streams'[live.stream].run = streams[live.stream].run
             /\ streams'[live.stream].project = streams[live.stream].project
             /\ streams'[live.stream].at = streams[live.stream].at
             /\ streams'[live.stream].state = "dropped" <=> streams[live.stream].state = "dropped",
         \A r \in Runs : outcome[r] = "ok" => outcome'[r] = "ok",
         \A r \in Runs : outcome'[r] \in V!Outcomes =>
             \/ outcome[r] \in V!Outcomes /\ sent'[r] = sent[r]
             \/ Len(sent'[r]) = Len(sent[r]) + 1
  PROVE  Sound'
<1>1. CASE live.stream = 0
  <2>1. PICK r \in Runs : Shows(r) /\ (live.status = "ok" => outcome[r] = "ok")
    BY <1>1 DEF Sound, Standing
  <2>2. Shows(r)'
    BY <2>1 DEF Shows
  <2>3. live'.status = "ok" => outcome'[r] = "ok"
    BY <2>1
  <2>4. Standing'
    BY <2>2, <2>3 DEF Standing
  <2> QED
    BY <1>1, <2>4 DEF Sound
<1>2. CASE live.stream # 0
  <2>1. PICK s \in 1..Len(streams) : s = live.stream
    BY <1>2 DEF ViewTypes
  <2>2. streams[s] \in StreamType /\ streams[s].at <= Len(sent[streams[s].run])
    BY SeqElements DEF ViewTypes
  <2>3. PICK r \in Runs, k \in Nat : r = streams[s].run /\ k = streams[s].at
    BY <2>2 DEF StreamType
  <2>4. k <= Len(sent[r]) /\ Len(sent[r]) \in Nat
    BY <2>2, <2>3, LenProperties DEF ViewTypes
  <2>5. /\ live.status # "none" /\ live.project = streams[s].project /\ Len(live.got) = k /\ Shows(r)
        /\ live.status = "ok" /\ streams[s].state # "dropped" => outcome[r] = "ok"
        /\ k = Len(sent[r]) /\ outcome[r] \in V!Outcomes => live.status \notin {"starting", "running"}
    BY <1>2, <2>1, <2>3 DEF Sound, Fed
  <2>6. /\ streams'[s].run = r /\ streams'[s].project = streams[s].project /\ streams'[s].at = k
        /\ streams'[s].state = "dropped" <=> streams[s].state = "dropped"
    BY <1>2, <2>1, <2>3
  <2>7. k = Len(sent'[r]) /\ outcome'[r] \in V!Outcomes => k = Len(sent[r]) /\ outcome[r] \in V!Outcomes
    BY <2>4
  <2>8. Shows(r)'
    BY <2>5 DEF Shows
  <2>9. Fed(s)'
    BY <2>5, <2>6, <2>7, <2>8 DEF Fed
  <2> QED
    BY <1>2, <2>1, <2>9 DEF Sound
<1> QED
  BY <1>1, <1>2

\* The view after its status was set.
LEMMA LiveStatus ==
  ASSUME NEW x \in LiveType, NEW y \in Statuses
  PROVE  /\ [x EXCEPT !.status = y] \in LiveType /\ [x EXCEPT !.status = y].status = y
         /\ [x EXCEPT !.status = y].stream = x.stream /\ [x EXCEPT !.status = y].got = x.got
         /\ [x EXCEPT !.status = y].project = x.project
BY DEF LiveType

\* What a view makes of the event it is given: it stays a view, says "ok" only for a run that is,
\* and no longer runs once it saw the end.
LEMMA StatusFacts ==
  ASSUME ViewTypes, NEW r \in Runs, NEW k \in 1..Len(sent[r]), live.status # "none"
  PROVE  /\ V!StatusAfter(sent[r][k], outcome[r]) \in Statuses \ {"none"}
         /\ store = "runbook" => V!StatusAfter(sent[r][k], outcome[r]) # "cancelled"
         /\ V!StatusAfter(sent[r][k], outcome[r]) = "ok" => live.status = "ok" \/ outcome[r] = "ok"
         /\ sent[r][k] = "run-end" => V!StatusAfter(sent[r][k], outcome[r]) \notin {"starting", "running"}
<1>1. /\ live.status \in Statuses \ {"none"}
      /\ store = "runbook" => live.status # "cancelled"
      /\ sent[r][k] = "run-end" => outcome[r] \in {"ok", "failed", "cancelled"}
  BY DEF ViewTypes, LiveType, Told, V!Outcomes
<1> DEFINE e == sent[r][k]
<1> HIDE DEF e
<1>2. CASE e = "run-end"
  <2>1. outcome[r] \in {"ok", "failed", "cancelled"} /\ V!StatusAfter(e, outcome[r]) = V!EndStatus(outcome[r])
    BY <1>1, <1>2 DEF V!StatusAfter, e
  <2> QED
    BY <1>1, <1>2, <2>1 DEF V!EndStatus, Statuses, V!Final, e
<1>3. CASE e # "run-end"
  <2>1. V!StatusAfter(e, outcome[r]) \in {live.status, "running", "awaiting_approval", "error"}
    BY <1>3 DEF V!StatusAfter
  <2> QED
    BY <1>1, <1>3, <2>1 DEF Statuses, V!Final, e
<1> QED
  BY <1>2, <1>3

\* A run sends its next event.
LEMMA SendStep ==
  ASSUME ViewInv, ScriptAssumption, NEW r \in Runs, V!Send(r)
  PROVE  ViewInv'
<1> DEFINE e == Script[r][Len(sent[r]) + 1]
<1>1. /\ ViewTypes /\ outcome[r] = "running" /\ Len(sent[r]) < Len(Script[r])
      /\ sent' = [sent EXCEPT ![r] = Append(sent[r], e)]
      /\ UNCHANGED <<store, outcome, cancelled, streams, live, asks, raced>>
  BY DEF ViewInv, V!Send
<1>2. sent \in [Runs -> Seq(Messages)] /\ sent[r] \in Seq(Messages) /\ Len(sent[r]) \in Nat
  BY <1>1, LenProperties DEF ViewTypes
<1>3. e \in Messages \ {"run-end"}
  <2>1. Script[r] \in Seq(STRING \ {"run-end"}) /\ Len(Script[r]) \in Nat
    BY LenProperties DEF ScriptAssumption
  <2>2. Len(sent[r]) + 1 \in 1..Len(Script[r])
    BY <1>1, <1>2, <2>1
  <2>3. e \in STRING \ {"run-end"}
    BY <2>1, <2>2, SeqElements
  <2> QED
    BY <2>3 DEF Messages
<1> HIDE DEF e
<1>4. /\ Append(sent[r], e) \in Seq(Messages) /\ Len(Append(sent[r], e)) = Len(sent[r]) + 1
      /\ Append(sent[r], e)[Len(sent[r]) + 1] = e
      /\ \A j \in 1..Len(sent[r]) : Append(sent[r], e)[j] = sent[r][j]
  BY <1>2, <1>3, SeqMore
<1>5. /\ sent' \in [Runs -> Seq(Messages)] /\ sent'[r] = Append(sent[r], e)
      /\ \A q \in Runs : q # r => sent'[q] = sent[q]
  BY <1>1, <1>2, <1>4
<1>6. \A q \in Runs : Told(q)'
  <2> SUFFICES ASSUME NEW q \in Runs PROVE Told(q)'
    OBVIOUS
  <2>1. Told(q) /\ Told(r)
    BY <1>1 DEF ViewTypes
  <2>2. CASE q # r
    BY <1>1, <1>5, <2>1, <2>2 DEF Told
  <2>3. CASE q = r
    <3>1. outcome'[r] = "running" /\ outcome[r] \notin V!Outcomes
      BY <1>1 DEF V!Outcomes
    <3>2. \A n \in 1..Len(sent[r]) : sent[r][n] # "run-end"
      BY <2>1, <3>1 DEF Told
    <3>3. \A n \in 1..(Len(sent[r]) + 1) : sent'[r][n] # "run-end"
      <4> SUFFICES ASSUME NEW n \in 1..(Len(sent[r]) + 1) PROVE sent'[r][n] # "run-end"
        OBVIOUS
      <4>0. PICK k \in Nat : k = Len(sent[r])
        BY <1>2
      <4>1. n \in 1..Len(sent[r]) \/ n = Len(sent[r]) + 1
        BY ONLY <4>0, n \in 1..(Len(sent[r]) + 1)
      <4> QED
        BY <4>1, <1>3, <1>4, <1>5, <3>2
    <3>4. Len(sent'[r]) = Len(sent[r]) + 1 /\ outcome'[r] \notin V!Outcomes
      BY <1>4, <1>5, <3>1 DEF V!Outcomes
    <3> QED
      BY <2>3, <3>3, <3>4 DEF Told
  <2> QED
    BY <2>2, <2>3
<1>7. \A q \in Runs : Len(sent[q]) \in Nat /\ (sent'[q] = sent[q] \/ Len(sent'[q]) = Len(sent[q]) + 1)
  BY <1>2, <1>4, <1>5, LenProperties
<1>8. \A s \in 1..Len(streams) : streams[s].at <= Len(sent'[streams[s].run])
  <2> SUFFICES ASSUME NEW s \in 1..Len(streams) PROVE streams[s].at <= Len(sent'[streams[s].run])
    OBVIOUS
  <2>1. streams[s] \in StreamType /\ streams[s].at <= Len(sent[streams[s].run])
    BY <1>1, SeqElements DEF ViewTypes
  <2>2. PICK q \in Runs, k \in Nat : q = streams[s].run /\ k = streams[s].at
    BY <2>1 DEF StreamType
  <2> QED
    BY <1>7, <2>1, <2>2
<1>9. ViewTypes'
  BY <1>1, <1>5, <1>6, <1>8 DEF ViewTypes
<1>10. ASSUME ~raced PROVE Quiet' /\ Sound'
  <2>1. Quiet /\ Sound
    BY <1>10 DEF ViewInv
  <2>2. Quiet'
    BY <1>1, <2>1 DEF Quiet, V!Open
  <2>3. \A q \in Runs : outcome'[q] \in V!Outcomes => outcome[q] \in V!Outcomes /\ sent'[q] = sent[q]
    BY <1>1, <1>5 DEF V!Outcomes
  <2>4. Sound'
    BY <1>1, <2>1, <2>3, SoundStays
  <2> QED
    BY <2>2, <2>4
<1> QED
  BY <1>1, <1>9, <1>10 DEF ViewInv

\* The stream of the view, and the run it reads.
LEMMA StreamFacts ==
  ASSUME ViewTypes, NEW s \in 1..Len(streams)
  PROVE  /\ streams[s] \in StreamType /\ streams[s].run \in Runs /\ streams[s].project \in Named
         /\ streams[s].at \in Nat /\ Len(sent[streams[s].run]) \in Nat
         /\ streams[s].at <= Len(sent[streams[s].run])
<1>1. streams[s] \in StreamType /\ streams[s].at <= Len(sent[streams[s].run])
  BY SeqElements DEF ViewTypes
<1>2. streams[s].run \in Runs /\ streams[s].project \in Named /\ streams[s].at \in Nat
  BY <1>1 DEF StreamType
<1> QED
  BY <1>1, <1>2, LenProperties DEF ViewTypes

\* A run ends, by itself or cancelled.
LEMMA EndStep ==
  ASSUME ViewInv, NEW r \in Runs, V!End(r)
  PROVE  ViewInv'
<1>1. /\ ViewTypes /\ outcome[r] = "running"
      /\ sent' = [sent EXCEPT ![r] = Append(sent[r], "run-end")]
      /\ store' = store /\ cancelled' = cancelled /\ streams' = streams /\ live' = live /\ asks' = asks /\ raced' = raced
  BY DEF ViewInv, V!End
<1>2. /\ outcome' \in [Runs -> {"idle", "running"} \cup V!Outcomes] /\ outcome'[r] \in V!Outcomes
      /\ \A q \in Runs : q # r => outcome'[q] = outcome[q]
  <2>1. PICK o \in V!Outcomes : outcome' = [outcome EXCEPT ![r] = o]
    BY DEF V!End, V!Outcomes
  <2>2. outcome \in [Runs -> {"idle", "running"} \cup V!Outcomes]
    BY <1>1 DEF ViewTypes
  <2> QED
    BY <2>1, <2>2
<1>3. sent \in [Runs -> Seq(Messages)] /\ sent[r] \in Seq(Messages) /\ Len(sent[r]) \in Nat
  BY <1>1, LenProperties DEF ViewTypes
<1>4. /\ Append(sent[r], "run-end") \in Seq(Messages) /\ Len(Append(sent[r], "run-end")) = Len(sent[r]) + 1
      /\ Append(sent[r], "run-end")[Len(sent[r]) + 1] = "run-end"
  <2>1. PICK e \in Messages : e = "run-end"
    BY DEF Messages
  <2> QED
    BY <1>3, <2>1, SeqMore
<1>5. /\ sent' \in [Runs -> Seq(Messages)] /\ sent'[r] = Append(sent[r], "run-end")
      /\ \A q \in Runs : q # r => sent'[q] = sent[q]
  BY <1>1, <1>3, <1>4
<1>6. \A q \in Runs : Told(q)'
  <2> SUFFICES ASSUME NEW q \in Runs PROVE Told(q)'
    OBVIOUS
  <2>1. CASE q # r
    <3>1. Told(q)
      BY <1>1 DEF ViewTypes
    <3>2. sent'[q] = sent[q] /\ outcome'[q] = outcome[q]
      BY <1>2, <1>5, <2>1
    <3> QED
      BY <3>1, <3>2 DEF Told
  <2>2. CASE q = r
    <3>1. Len(sent'[r]) = Len(sent[r]) + 1 /\ Len(sent'[r]) > 0 /\ sent'[r][Len(sent'[r])] = "run-end"
      BY <1>3, <1>4, <1>5
    <3> QED
      BY <1>2, <2>2, <3>1 DEF Told
  <2> QED
    BY <2>1, <2>2
<1>7. \A q \in Runs : Len(sent[q]) \in Nat /\ (sent'[q] = sent[q] \/ Len(sent'[q]) = Len(sent[q]) + 1)
  BY <1>3, <1>4, <1>5, LenProperties
<1>8. \A s \in 1..Len(streams) : streams[s].at <= Len(sent'[streams[s].run])
  <2> SUFFICES ASSUME NEW s \in 1..Len(streams) PROVE streams[s].at <= Len(sent'[streams[s].run])
    OBVIOUS
  <2>1. PICK q \in Runs, k \in Nat : q = streams[s].run /\ k = streams[s].at /\ k <= Len(sent[q])
    BY <1>1, StreamFacts
  <2> QED
    BY <1>7, <2>1
<1>9. \A i \in 1..Len(asks') : asks'[i].op = "replay" => store' = "ansible" /\ outcome'[asks'[i].run] \in V!Outcomes
  <2>1. \A i \in 1..Len(asks) : asks[i] \in AskType
    BY <1>1, SeqElements DEF ViewTypes
  <2>2. \A i \in 1..Len(asks) : asks[i].run \in Runs
    BY <2>1 DEF AskType
  <2>3. \A q \in Runs : outcome[q] \in V!Outcomes => outcome'[q] \in V!Outcomes
    BY <1>2
  <2> QED
    BY <1>1, <2>2, <2>3 DEF ViewTypes
<1>10. ViewTypes'
  BY <1>1, <1>2, <1>5, <1>6, <1>8, <1>9 DEF ViewTypes
<1>11. ASSUME ~raced PROVE Quiet' /\ Sound'
  <2>1. Quiet /\ Sound
    BY <1>11 DEF ViewInv
  <2>2. Quiet'
    BY <1>1, <2>1 DEF Quiet, V!Open
  <2>3. \A q \in Runs : outcome[q] = "ok" => outcome'[q] = "ok"
    BY <1>1, <1>2
  <2>4. \A q \in Runs : outcome'[q] \in V!Outcomes =>
             \/ outcome[q] \in V!Outcomes /\ sent'[q] = sent[q]
             \/ Len(sent'[q]) = Len(sent[q]) + 1
    BY <1>2, <1>4, <1>5
  <2>5. Sound'
    BY <1>1, <2>1, <2>3, <2>4, SoundStays
  <2> QED
    BY <2>2, <2>5
<1> QED
  BY <1>1, <1>10, <1>11 DEF ViewInv

\* An event reaches the view.
LEMMA DeliverStep ==
  ASSUME ViewInv, NEW s \in 1..Len(streams), V!Deliver(s)
  PROVE  ViewInv'
<1>1. /\ ViewTypes /\ V!Open(s) /\ streams[s].at < Len(sent[streams[s].run])
      /\ streams' = [streams EXCEPT ![s].at = streams[s].at + 1]
      /\ store' = store /\ sent' = sent /\ outcome' = outcome /\ cancelled' = cancelled /\ asks' = asks /\ raced' = raced
  BY DEF ViewInv, V!Deliver
<1>2. PICK r \in Runs, k \in Nat : r = streams[s].run /\ k = streams[s].at
  BY <1>1, StreamFacts
<1>3. k + 1 \in 1..Len(sent[r]) /\ Len(sent[r]) \in Nat
  BY <1>1, <1>2, StreamFacts
<1> DEFINE one == [streams[s] EXCEPT !.at = k + 1]
           x == V!StatusAfter(sent[r][k + 1], outcome[r])
           fed == [live EXCEPT !.run = IF V!Names(sent[r][k + 1]) THEN r ELSE @, !.status = x,
                               !.got = Append(@, <<r, k + 1>>)]
<1>4. streams[s] \in StreamType /\ one \in StreamType /\ one.at = k + 1 /\ one.run = r
      /\ one.project = streams[s].project /\ one.state = streams[s].state
  <2>1. streams[s] \in StreamType
    BY <1>1, StreamFacts
  <2>2. PICK st \in StreamType, n \in Nat : st = streams[s] /\ n = k + 1
    BY <2>1
  <2>3. /\ [st EXCEPT !.at = n] \in StreamType /\ [st EXCEPT !.at = n].at = n
        /\ [st EXCEPT !.at = n].run = st.run /\ [st EXCEPT !.at = n].project = st.project
        /\ [st EXCEPT !.at = n].state = st.state
    BY StreamAt
  <2>4. one = [st EXCEPT !.at = n]
    BY <2>2
  <2> HIDE DEF one
  <2> QED
    BY <1>2, <2>1, <2>2, <2>3, <2>4
<1>5. live' = IF ~V!Accepts(streams[s]) THEN live ELSE fed
  BY <1>2 DEF V!Deliver
<1>6. streams' = [streams EXCEPT ![s] = one]
  BY <1>1, <1>2
<1> HIDE DEF one
<1>7. /\ streams' \in Seq(StreamType) /\ Len(streams') = Len(streams) /\ streams'[s] = one
      /\ \A j \in 1..Len(streams) : j # s => streams'[j] = streams[j]
  <2>1. streams \in Seq(StreamType)
    BY <1>1 DEF ViewTypes
  <2> QED
    BY <1>4, <1>6, <2>1, SeqSet
<1>8. StreamsOk(streams')
  <2>1. \A j \in 1..Len(streams) : streams[j].at <= Len(sent[streams[j].run])
    BY <1>1 DEF ViewTypes
  <2>2. one.at <= Len(sent[one.run])
    BY <1>3, <1>4
  <2>3. \A j \in 1..Len(streams) : streams'[j].at <= Len(sent[streams'[j].run])
    BY <1>7, <2>1, <2>2
  <2> QED
    BY <1>7, <2>3 DEF StreamsOk
<1>9. live \in LiveType /\ live.stream \in 0..Len(streams) /\ (store = "runbook" => live.status # "cancelled")
  BY <1>1 DEF ViewTypes
<1>10. ASSUME live.status # "none"
       PROVE  /\ x \in Statuses \ {"none"}
              /\ store = "runbook" => x # "cancelled"
              /\ x = "ok" => live.status = "ok" \/ outcome[r] = "ok"
              /\ sent[r][k + 1] = "run-end" => x \notin {"starting", "running"}
              /\ fed \in LiveType /\ fed.status = x /\ fed.stream = live.stream
              /\ fed.project = live.project /\ fed.got = Append(live.got, <<r, k + 1>>)
  <2>1. /\ x \in Statuses \ {"none"}
        /\ store = "runbook" => x # "cancelled"
        /\ x = "ok" => live.status = "ok" \/ outcome[r] = "ok"
        /\ sent[r][k + 1] = "run-end" => x \notin {"starting", "running"}
    BY <1>1, <1>3, <1>10, StatusFacts
  <2> HIDE DEF x
  <2>4. live.got \in Seq(Runs \X Nat) /\ <<r, k + 1>> \in Runs \X Nat
    BY <1>9 DEF LiveType
  <2>5. Append(live.got, <<r, k + 1>>) \in Seq(Runs \X Nat)
    BY <2>4, SeqMore
  <2>3. /\ fed \in LiveType /\ fed.status = x /\ fed.stream = live.stream
        /\ fed.project = live.project /\ fed.got = Append(live.got, <<r, k + 1>>)
    BY <1>9, <2>1, <2>5 DEF LiveType
  <2> QED
    BY <2>1, <2>3
<1> HIDE DEF fed, x
<1>11. live' \in LiveType /\ live'.stream = live.stream /\ (store = "runbook" => live'.status # "cancelled")
  <2>1. CASE V!Accepts(streams[s])
    <3>1. live.status # "none"
      BY <2>1 DEF V!Accepts, V!Shown
    <3> QED
      BY <1>5, <1>10, <2>1, <3>1
  <2>2. CASE ~V!Accepts(streams[s])
    BY <1>5, <1>9, <2>2
  <2> QED
    BY <2>1, <2>2
<1>12. ViewTypes'
  BY <1>1, <1>7, <1>8, <1>9, <1>11, TypesStep DEF ViewTypes
<1>13. ASSUME ~raced PROVE Quiet' /\ Sound'
  <2>1. Quiet /\ Sound
    BY <1>13 DEF ViewInv
  <2>2. s = live.stream /\ Len(asks) = 0 /\ live.stream # 0
    BY <1>1, <2>1 DEF Quiet
  <2>3. Fed(s)
    BY <2>1, <2>2 DEF Sound
  <2>4. /\ live.status # "none" /\ live.project = streams[s].project /\ Len(live.got) = k /\ Shows(r)
        /\ live.status = "ok" /\ streams[s].state # "dropped" => outcome[r] = "ok"
    BY <1>2, <2>3 DEF Fed
  <2>5. live' = fed
    BY <1>5, <2>4 DEF V!Accepts, V!Shown
  <2>6. /\ live'.status = x /\ x # "none" /\ live'.project = live.project /\ live'.stream = s
        /\ live'.got = Append(live.got, <<r, k + 1>>)
        /\ x = "ok" => live.status = "ok" \/ outcome[r] = "ok"
        /\ sent[r][k + 1] = "run-end" => x \notin {"starting", "running"}
    BY <1>10, <2>2, <2>4, <2>5
  <2>7. Len(live'.got) = k + 1 /\ Shows(r)'
    <3>1. live.got \in Seq(Runs \X Nat) /\ <<r, k + 1>> \in Runs \X Nat
      BY <1>9 DEF LiveType
    <3>2. /\ Len(live'.got) = k + 1 /\ live'.got[k + 1] = <<r, k + 1>>
          /\ \A n \in 1..k : live'.got[n] = live.got[n]
      BY <2>4, <2>6, <3>1, SeqMore
    <3>3. \A n \in 1..(k + 1) : n \in 1..k \/ n = k + 1
      OBVIOUS
    <3> QED
      BY <2>4, <3>2, <3>3 DEF Shows
  <2>8. k + 1 = Len(sent[r]) /\ outcome[r] \in V!Outcomes => x \notin {"starting", "running"}
    BY <1>1, <2>6 DEF ViewTypes, Told
  <2>9. streams'[s].run = r /\ streams'[s].project = streams[s].project /\ streams'[s].at = k + 1
        /\ streams'[s].state = streams[s].state
    BY <1>4, <1>7
  <2>10. Fed(s)'
    BY <1>1, <2>4, <2>6, <2>7, <2>8, <2>9 DEF Fed
  <2>11. Sound'
    BY <2>2, <2>6, <2>10 DEF Sound
  <2>12. Quiet'
    <3> SUFFICES ASSUME NEW j \in 1..Len(streams), streams'[j].state = "open" PROVE j = s
      BY <1>1, <1>7, <2>2, <2>6 DEF Quiet, V!Open
    <3> QED
      BY <1>7, <2>1, <2>2 DEF Quiet, V!Open
  <2> QED
    BY <2>11, <2>12
<1> QED
  BY <1>1, <1>12, <1>13 DEF ViewInv

\* A stream ends, is dropped or fails, and the view is told.
LEMMA ClosedStep ==
  ASSUME ViewInv, NEW s \in 1..Len(streams), V!Open(s), NEW x \in {"ended", "dropped", "failed"},
         streams' = [streams EXCEPT ![s].state = x],
         store' = store, sent' = sent, outcome' = outcome, cancelled' = cancelled, asks' = asks, raced' = raced,
         live' \in LiveType, live'.stream = live.stream, live'.got = live.got, live'.project = live.project,
         store = "runbook" => live'.status # "cancelled",
         ~raced => /\ live'.status # "none"
                   /\ x # "dropped" /\ live'.status = "ok" => live.status = "ok"
                   /\ \/ live'.status \notin {"starting", "running"}
                      \/ live'.status = live.status
  PROVE  ViewInv'
<1>1. ViewTypes
  BY DEF ViewInv
<1>2. x \in {"open", "aborted", "ended", "dropped", "failed"}
  OBVIOUS
<1>3. /\ StreamsOk(streams') /\ Len(streams') = Len(streams)
      /\ \A j \in 1..Len(streams) : /\ streams'[j].run = streams[j].run /\ streams'[j].project = streams[j].project
                                    /\ streams'[j].at = streams[j].at
                                    /\ streams'[j].state = IF j = s THEN x ELSE streams[j].state
  <2> DEFINE new == [streams EXCEPT ![s].state = x]
  <2>1. /\ StreamsOk(new) /\ Len(new) = Len(streams)
        /\ \A j \in 1..Len(streams) : /\ new[j].run = streams[j].run /\ new[j].project = streams[j].project
                                      /\ new[j].at = streams[j].at
                                      /\ new[j].state = IF j = s THEN x ELSE streams[j].state
    BY <1>1, <1>2, StateSet
  <2>2. streams' = new
    OBVIOUS
  <2> HIDE DEF new
  <2> QED
    BY <2>1, <2>2
<1>4. ViewTypes'
  <2>1. asks \in Seq(AskType) /\ live.stream \in 0..Len(streams) /\ raced \in BOOLEAN /\ cancelled \subseteq Runs
        /\ outcome \in [Runs -> {"idle", "running"} \cup V!Outcomes]
    BY <1>1 DEF ViewTypes
  <2>2. \A i \in 1..Len(asks) : asks[i].op = "replay" => store = "ansible" /\ outcome[asks[i].run] \in V!Outcomes
    BY <1>1 DEF ViewTypes
  <2> QED
    BY <1>1, <1>3, <2>1, <2>2, TypesStep
<1>5. ASSUME ~raced PROVE Quiet' /\ Sound'
  <2>1. Quiet /\ Sound
    BY <1>5 DEF ViewInv
  <2>2. s = live.stream /\ Len(asks) = 0 /\ live.stream # 0
    BY <2>1 DEF Quiet
  <2>3. PICK r \in Runs : r = streams[s].run
    BY <1>1, StreamFacts
  <2>4. /\ live.status # "none" /\ live.project = streams[s].project /\ Len(live.got) = streams[s].at /\ Shows(r)
        /\ live.status = "ok" /\ streams[s].state # "dropped" => outcome[r] = "ok"
        /\ streams[s].at = Len(sent[r]) /\ outcome[r] \in V!Outcomes => live.status \notin {"starting", "running"}
    BY <2>1, <2>2, <2>3 DEF Sound, Fed
  <2>5. streams[s].state = "open" /\ streams'[s].state = x
    BY <1>3 DEF V!Open
  <2>6. streams'[s].run = r /\ streams'[s].project = streams[s].project /\ streams'[s].at = streams[s].at
    BY <1>3, <2>3
  <2>7. Shows(r)'
    BY <2>4 DEF Shows
  <2>8. /\ live'.status # "none"
        /\ x # "dropped" /\ live'.status = "ok" => live.status = "ok"
        /\ live'.status \notin {"starting", "running"} \/ live'.status = live.status
    BY <1>5
  <2>9. live'.status = "ok" /\ streams'[s].state # "dropped" => outcome'[r] = "ok"
    BY <2>4, <2>5, <2>8
  <2>10. streams'[s].at = Len(sent'[r]) /\ outcome'[r] \in V!Outcomes => live'.status \notin {"starting", "running"}
    BY <2>4, <2>6, <2>8
  <2>11. Fed(s)'
    BY <2>4, <2>6, <2>7, <2>8, <2>9, <2>10 DEF Fed
  <2>12. Sound'
    BY <2>2, <2>11 DEF Sound
  <2>13. Quiet'
    <3> SUFFICES ASSUME NEW j \in 1..Len(streams), streams'[j].state = "open" PROVE FALSE
      BY <1>3, <2>2 DEF Quiet, V!Open
    <3> QED
      BY <1>3, <2>1, <2>2 DEF Quiet, V!Open
  <2> QED
    BY <2>12, <2>13
<1> QED
  BY <1>4, <1>5 DEF ViewInv

\* A view that is told its stream is through.
LEMMA OnCloseFacts ==
  ASSUME ViewTypes
  PROVE  /\ V!OnClose \in LiveType /\ V!OnClose.stream = live.stream /\ V!OnClose.got = live.got
         /\ V!OnClose.project = live.project
         /\ store = "runbook" => V!OnClose.status # "cancelled"
         /\ V!OnClose.status = IF live.status \in {"starting", "running"} THEN "ok" ELSE live.status
<1>1. live \in LiveType /\ (store = "runbook" => live.status # "cancelled")
  BY DEF ViewTypes
<1>2. "ok" \in Statuses
  BY DEF Statuses, V!Final
<1>3. CASE live.status \in {"starting", "running"}
  <2>1. V!OnClose = [live EXCEPT !.status = "ok"]
    BY <1>3 DEF V!OnClose
  <2> QED
    BY <1>1, <1>2, <1>3, <2>1, LiveStatus
<1>4. CASE live.status \notin {"starting", "running"}
  BY <1>1, <1>4 DEF V!OnClose
<1> QED
  BY <1>3, <1>4

LEMMA FinishStep ==
  ASSUME ViewInv, NEW s \in 1..Len(streams), V!Finish(s)
  PROVE  ViewInv'
<1>1. /\ ViewTypes /\ V!Open(s) /\ outcome[streams[s].run] \in V!Outcomes /\ streams[s].at = Len(sent[streams[s].run])
      /\ streams' = [streams EXCEPT ![s].state = "ended"] /\ live' = V!OnClose
      /\ store' = store /\ sent' = sent /\ outcome' = outcome /\ cancelled' = cancelled /\ asks' = asks /\ raced' = raced
  BY DEF ViewInv, V!Finish
<1>2. ~raced => live.status # "none" /\ live.status \notin {"starting", "running"}
  <2> SUFFICES ASSUME ~raced PROVE live.status # "none" /\ live.status \notin {"starting", "running"}
    OBVIOUS
  <2>1. s = live.stream /\ Sound
    BY <1>1 DEF ViewInv, Quiet
  <2>2. Fed(s)
    BY <2>1 DEF Sound
  <2> QED
    BY <1>1, <2>2 DEF Fed
<1> QED
  BY <1>1, <1>2, OnCloseFacts, ClosedStep

LEMMA DropStep ==
  ASSUME ViewInv, NEW s \in 1..Len(streams), V!Drop(s)
  PROVE  ViewInv'
<1>1. /\ ViewTypes /\ V!Open(s)
      /\ streams' = [streams EXCEPT ![s].state = "dropped"] /\ live' = V!OnClose
      /\ store' = store /\ sent' = sent /\ outcome' = outcome /\ cancelled' = cancelled /\ asks' = asks /\ raced' = raced
  BY DEF ViewInv, V!Drop
<1>2. ~raced => live.status # "none"
  <2> SUFFICES ASSUME ~raced PROVE live.status # "none"
    OBVIOUS
  <2>1. s = live.stream /\ Sound
    BY <1>1 DEF ViewInv, Quiet
  <2> QED
    BY <2>1 DEF Sound, Fed
<1> QED
  BY <1>1, <1>2, OnCloseFacts, ClosedStep

LEMMA FailStep ==
  ASSUME ViewInv, NEW s \in 1..Len(streams), V!Fail(s)
  PROVE  ViewInv'
<1>1. /\ ViewTypes /\ V!Open(s)
      /\ streams' = [streams EXCEPT ![s].state = "failed"]
      /\ live' = (IF live.status # "none" THEN [live EXCEPT !.status = "error"] ELSE live)
      /\ store' = store /\ sent' = sent /\ outcome' = outcome /\ cancelled' = cancelled /\ asks' = asks /\ raced' = raced
  BY DEF ViewInv, V!Fail, V!Shown
<1>2. ~raced => live.status # "none"
  <2> SUFFICES ASSUME ~raced PROVE live.status # "none"
    OBVIOUS
  <2>1. s = live.stream /\ Sound
    BY <1>1 DEF ViewInv, Quiet
  <2> QED
    BY <2>1 DEF Sound, Fed
<1>3. live \in LiveType /\ (store = "runbook" => live.status # "cancelled") /\ "error" \in Statuses
  BY <1>1 DEF ViewTypes, Statuses, V!Final
<1>4. /\ live' \in LiveType /\ live'.stream = live.stream /\ live'.got = live.got /\ live'.project = live.project
      /\ live'.status = IF live.status # "none" THEN "error" ELSE "none"
  BY <1>1, <1>3, LiveStatus
<1>5. /\ store = "runbook" => live'.status # "cancelled"
      /\ ~raced => /\ live'.status # "none"
                   /\ "failed" # "dropped" /\ live'.status = "ok" => live.status = "ok"
                   /\ live'.status \notin {"starting", "running"} \/ live'.status = live.status
  BY <1>2, <1>3, <1>4
<1> QED
  BY <1>1, <1>4, <1>5, ClosedStep

\* A view that shows nothing yet.
LEMMA NoneType == V!None \in LiveType /\ V!None.got = <<>> /\ V!None.stream = 0 /\ V!None.status = "none"
<1>1. <<>> \in Seq(Runs \X Nat)
  OBVIOUS
<1>2. V!Unknown \in Named /\ "none" \in Statuses
  BY DEF Named, Statuses
<1> QED
  BY <1>1, <1>2 DEF V!None, LiveType

\* A new stream becomes the view's; no other may be open.
LEMMA NewStream ==
  ASSUME ViewTypes, NEW ss, StreamsOk(ss), NEW r \in Runs, NEW p \in Named,
         streams' = V!Opened(ss, r, p), live' \in LiveType,
         live'.project = p, live'.status \in {"starting", "running"}, live'.got = <<>>, live'.stream = Len(ss) + 1,
         UNCHANGED <<store, sent>>, outcome'[r] \in V!Outcomes => outcome[r] \in V!Outcomes
  PROVE  /\ StreamsOk(streams') /\ live'.stream \in 0..Len(streams')
         /\ Sound'
         /\ (\A j \in 1..Len(ss) : ss[j].state # "open") /\ Len(asks') = 0 => Quiet'
<1>1. sent \in [Runs -> Seq(Messages)] /\ Len(ss) \in Nat
  BY LenProperties DEF ViewTypes, StreamsOk
<1>2. /\ StreamsOk(streams') /\ Len(streams') = Len(ss) + 1
      /\ streams'[Len(ss) + 1] = [run |-> r, project |-> p, at |-> 0, state |-> "open"]
      /\ \A j \in 1..Len(ss) : streams'[j] = ss[j]
  BY <1>1, OpenedOk
<1>3. live'.stream \in 0..Len(streams') /\ live'.stream # 0
  BY <1>1, <1>2
<1>4. /\ streams'[live'.stream].run = r /\ streams'[live'.stream].project = p
      /\ streams'[live'.stream].at = 0
  BY <1>2
<1>5. outcome'[r] \in V!Outcomes => Len(sent[r]) > 0
  BY DEF ViewTypes, Told
<1>6. Shows(r)' /\ Len(live'.got) = 0
  <2>1. Len(live'.got) = 0
    OBVIOUS
  <2> QED
    BY <2>1 DEF Shows
<1>7. Fed(live.stream)'
  BY <1>4, <1>5, <1>6 DEF Fed
<1>8. Sound'
  BY <1>3, <1>7 DEF Sound
<1>9. ASSUME \A j \in 1..Len(ss) : ss[j].state # "open", Len(asks') = 0
      PROVE  Quiet'
  <2> SUFFICES ASSUME NEW j \in 1..Len(streams'), streams'[j].state = "open" PROVE j = live'.stream
    BY <1>9 DEF Quiet, V!Open
  <2>1. j \in 1..Len(ss) \/ j = Len(ss) + 1
    BY <1>1, <1>2
  <2> QED
    BY <1>2, <1>9, <2>1
<1> QED
  BY <1>2, <1>3, <1>8, <1>9

\* A run started here is followed from its start.
LEMMA StartStep ==
  ASSUME ViewInv, RunsAssumption, NEW r \in Runs, V!StartRun(r)
  PROVE  ViewInv'
<1>1. /\ ViewTypes /\ outcome[r] = "idle" /\ outcome' = [outcome EXCEPT ![r] = "running"]
      /\ streams' = V!Opened(V!Abort, r, ProjectOf[r])
      /\ live' = [V!None EXCEPT !.project = ProjectOf[r], !.status = "starting", !.stream = Len(streams) + 1]
      /\ raced' = (raced \/ asks # <<>>)
      /\ store' = store /\ sent' = sent /\ cancelled' = cancelled /\ asks' = asks
  BY DEF ViewInv, V!StartRun, V!Racing
<1>2. /\ StreamsOk(V!Abort) /\ Len(V!Abort) = Len(streams) /\ Len(streams) \in Nat
      /\ \A j \in 1..Len(streams) : V!Abort[j].state = "open" => streams[j].state = "open" /\ j # live.stream
  BY <1>1, AbortOk, LenProperties DEF ViewTypes
<1>3. ProjectOf[r] \in Named
  BY DEF Named, V!Projects
<1>4. /\ live' \in LiveType /\ live'.project = ProjectOf[r] /\ live'.status = "starting"
      /\ live'.got = <<>> /\ live'.stream = Len(V!Abort) + 1
  <2>1. "starting" \in Statuses /\ Len(streams) + 1 \in Nat
    BY <1>2 DEF Statuses
  <2> QED
    BY <1>1, <1>2, <1>3, <2>1, NoneType DEF LiveType
<1>5. /\ outcome' \in [Runs -> {"idle", "running"} \cup V!Outcomes]
      /\ \A q \in Runs : outcome'[q] \in V!Outcomes <=> outcome[q] \in V!Outcomes
  BY <1>1 DEF ViewTypes, V!Outcomes
<1>6. /\ StreamsOk(streams') /\ live'.stream \in 0..Len(streams')
      /\ Sound'
      /\ (\A j \in 1..Len(V!Abort) : V!Abort[j].state # "open") /\ Len(asks') = 0 => Quiet'
  <2> DEFINE ss == V!Abort
  <2>1. /\ StreamsOk(ss) /\ streams' = V!Opened(ss, r, ProjectOf[r]) /\ live'.stream = Len(ss) + 1
    BY <1>1, <1>2, <1>4
  <2> HIDE DEF ss
  <2>2. /\ StreamsOk(streams') /\ live'.stream \in 0..Len(streams')
        /\ Sound'
        /\ (\A j \in 1..Len(ss) : ss[j].state # "open") /\ Len(asks') = 0 => Quiet'
    BY <1>1, <1>3, <1>4, <1>5, <2>1, NewStream
  <2> QED
    BY <2>2 DEF ss
<1>7. ViewTypes'
  <2>1. asks \in Seq(AskType) /\ cancelled \subseteq Runs /\ raced \in BOOLEAN
        /\ \A i \in 1..Len(asks) : asks[i].op = "replay" => store = "ansible" /\ outcome[asks[i].run] \in V!Outcomes
    BY <1>1 DEF ViewTypes
  <2>2. raced' \in BOOLEAN
    BY <1>1, <2>1
  <2> QED
    BY <1>1, <1>4, <1>5, <1>6, <2>1, <2>2, TypesStep
<1>8. ASSUME ~raced' PROVE Quiet'
  <2>1. ~raced /\ asks = <<>>
    BY <1>1, <1>8
  <2>2. \A j \in 1..Len(streams) : streams[j].state = "open" => j = live.stream
    BY <2>1 DEF ViewInv, Quiet, V!Open
  <2>3. \A j \in 1..Len(V!Abort) : V!Abort[j].state # "open"
    BY <1>2, <2>2
  <2>4. Len(asks') = 0
    BY <1>1, <2>1
  <2> QED
    BY <1>6, <2>3, <2>4
<1> QED
  BY <1>6, <1>7, <1>8 DEF ViewInv

\* A lookup begins: the view's stream is aborted.
LEMMA AskStep ==
  ASSUME ViewInv, streams' = V!Abort, NEW a \in AskType, asks' = Append(asks, a),
         a.op = "replay" => store = "ansible" /\ outcome[a.run] \in V!Outcomes,
         raced' = (raced \/ asks # <<>>),
         store' = store, sent' = sent, outcome' = outcome, cancelled' = cancelled, live' = live
  PROVE  ViewInv'
<1>1. ViewTypes /\ asks \in Seq(AskType) /\ Len(asks) \in Nat /\ live.stream \in 0..Len(streams)
  BY LenProperties DEF ViewInv, ViewTypes
<1>2. /\ StreamsOk(streams') /\ Len(streams') = Len(streams)
      /\ \A j \in 1..Len(streams) : /\ streams'[j].run = streams[j].run /\ streams'[j].project = streams[j].project
                                    /\ streams'[j].at = streams[j].at
                                    /\ streams'[j].state = "open" => streams[j].state = "open" /\ j # live.stream
                                    /\ streams'[j].state = "dropped" <=> streams[j].state = "dropped"
  BY <1>1, AbortOk
<1>3. /\ asks' \in Seq(AskType) /\ Len(asks') = Len(asks) + 1 /\ asks'[Len(asks) + 1] = a
      /\ \A i \in 1..Len(asks) : asks'[i] = asks[i]
  BY <1>1, SeqMore
<1>4. \A i \in 1..Len(asks') : asks'[i].op = "replay" => store = "ansible" /\ outcome[asks'[i].run] \in V!Outcomes
  <2> SUFFICES ASSUME NEW i \in 1..Len(asks'), asks'[i].op = "replay"
               PROVE  store = "ansible" /\ outcome[asks'[i].run] \in V!Outcomes
    OBVIOUS
  <2>1. i \in 1..Len(asks) \/ i = Len(asks) + 1
    BY <1>1, <1>3
  <2>2. \A j \in 1..Len(asks) : asks[j].op = "replay" => store = "ansible" /\ outcome[asks[j].run] \in V!Outcomes
    BY <1>1 DEF ViewTypes
  <2> QED
    BY <1>3, <2>1, <2>2
<1>5. ViewTypes'
  <2>1. /\ cancelled \subseteq Runs /\ raced \in BOOLEAN /\ live \in LiveType
        /\ store = "runbook" => live.status # "cancelled"
    BY <1>1 DEF ViewTypes
  <2>2. outcome \in [Runs -> {"idle", "running"} \cup V!Outcomes] /\ raced' \in BOOLEAN
    BY <1>1, <2>1 DEF ViewTypes
  <2> QED
    BY <1>1, <1>2, <1>3, <1>4, <2>1, <2>2, TypesStep
<1>6. ASSUME ~raced' PROVE Quiet' /\ Sound'
  <2>1. ~raced /\ asks = <<>>
    BY <1>6
  <2>2. Sound /\ \A j \in 1..Len(streams) : streams[j].state = "open" => j = live.stream
    BY <2>1 DEF ViewInv, Quiet, V!Open
  <2>3. Quiet'
    BY <1>2, <1>3, <2>1, <2>2 DEF Quiet, V!Open
  <2>4. Sound'
    <3>1. live.stream # 0 => live.stream \in 1..Len(streams)
      BY <1>1
    <3> QED
      BY <1>1, <1>2, <2>2, <3>1, SoundStays
  <2> QED
    BY <2>3, <2>4
<1> QED
  BY <1>5, <1>6 DEF ViewInv

LEMMA AttachStep ==
  ASSUME ViewInv, NEW r \in Runs, V!Attach(r)
  PROVE  ViewInv'
<1>1. PICK hint \in (IF store = "runbook" THEN {live.project} ELSE V!Projects \cup {V!Unknown}) :
          asks' = Append(asks, [op |-> "attach", run |-> r, hint |-> hint])
  BY DEF V!Attach
<1>2. live.project \in Named
  BY DEF ViewInv, ViewTypes, LiveType
<1>3. hint \in Named
  BY <1>1, <1>2 DEF Named
<1>4. PICK a : a = [op |-> "attach", run |-> r, hint |-> hint]
  OBVIOUS
<1>5. a \in AskType /\ a.op # "replay" /\ asks' = Append(asks, a)
  BY <1>1, <1>3, <1>4 DEF AskType
<1>6. /\ streams' = V!Abort /\ raced' = (raced \/ asks # <<>>)
      /\ store' = store /\ sent' = sent /\ outcome' = outcome /\ cancelled' = cancelled /\ live' = live
  BY DEF V!Attach, V!Racing
<1> QED
  BY <1>5, <1>6, AskStep

LEMMA ReplayStep ==
  ASSUME ViewInv, NEW r \in Runs, V!Replay(r)
  PROVE  ViewInv'
<1>1. PICK a : a = [op |-> "replay", run |-> r, hint |-> V!Unknown]
  OBVIOUS
<1>2. a \in AskType /\ a.run = r
  BY <1>1 DEF AskType, Named
<1>3. /\ streams' = V!Abort /\ raced' = (raced \/ asks # <<>>) /\ asks' = Append(asks, a)
      /\ store = "ansible" /\ outcome[r] \in V!Outcomes
      /\ store' = store /\ sent' = sent /\ outcome' = outcome /\ cancelled' = cancelled /\ live' = live
  BY <1>1 DEF V!Replay, V!Racing
<1> QED
  BY <1>2, <1>3, AskStep

\* The sequence of lookups without one of them.
LEMMA WithoutOk ==
  ASSUME asks \in Seq(AskType), NEW i \in 1..Len(asks)
  PROVE  /\ V!Without(i) \in Seq(AskType) /\ Len(V!Without(i)) = Len(asks) - 1
         /\ \A j \in 1..Len(V!Without(i)) : \E k \in 1..Len(asks) : V!Without(i)[j] = asks[k]
<1>1. Len(asks) \in Nat /\ Len(asks) - 1 \in Nat /\ \A k \in 1..Len(asks) : asks[k] \in AskType
  <2>1. Len(asks) \in Nat /\ \A k \in 1..Len(asks) : asks[k] \in AskType
    BY SeqElements
  <2> QED
    BY <2>1
<1> DEFINE n == Len(asks) - 1
           w == [j \in 1..n |-> asks[IF j < i THEN j ELSE j + 1]]
<1>2. n \in Nat /\ \A j \in 1..n : (IF j < i THEN j ELSE j + 1) \in 1..Len(asks)
  BY <1>1
<1>3. \A j \in 1..n : w[j] \in AskType
  BY <1>1, <1>2
<1>4. w \in [1..n -> AskType]
  <2> HIDE DEF n
  <2> QED
    BY <1>3
<1>5. w \in Seq(AskType) /\ Len(w) = n
  <2> DEFINE v == w
  <2>1. v \in [1..n -> AskType]
    BY <1>4
  <2> HIDE DEF v, n
  <2>2. v \in Seq(AskType)
    BY <1>2, <2>1, IsASeq
  <2>3. Len(v) = n
    BY <1>2, <2>1, <2>2, LenProperties
  <2> QED
    BY <2>2, <2>3 DEF v
<1>6. \A j \in 1..n : \E k \in 1..Len(asks) : w[j] = asks[k]
  BY <1>2
<1>7. V!Without(i) = w
  BY DEF V!Without
<1> HIDE DEF w
<1> QED
  BY <1>5, <1>6, <1>7

\* The events of a finished run, as a replay shows them.
LEMMA TreeOk ==
  ASSUME ViewTypes, NEW r \in Runs
  PROVE  /\ [n \in 1..Len(sent[r]) |-> <<r, n>>] \in Seq(Runs \X Nat)
         /\ Len([n \in 1..Len(sent[r]) |-> <<r, n>>]) = Len(sent[r])
<1>1. Len(sent[r]) \in Nat
  BY LenProperties DEF ViewTypes
<1> DEFINE m == Len(sent[r])
           v == [n \in 1..m |-> <<r, n>>]
<1>2. v \in [1..m -> Runs \X Nat] /\ m \in Nat
  <2> HIDE DEF m
  <2> QED
    BY <1>1 DEF m
<1> HIDE DEF m, v
<1>3. v \in Seq(Runs \X Nat)
  BY <1>2, IsASeq
<1>4. Len(v) = m
  BY <1>2, <1>3, LenProperties
<1> QED
  BY <1>3, <1>4 DEF m, v

\* An answer to a lookup: whatever is shown next, a lookup is done.
LEMMA AnsweredStep ==
  ASSUME ViewInv, NEW i \in 1..Len(asks), asks' = V!Without(i),
         store' = store, sent' = sent, outcome' = outcome, cancelled' = cancelled, raced' = raced,
         StreamsOk(streams'), live' \in LiveType, live'.stream \in 0..Len(streams'),
         store = "runbook" => live'.status # "cancelled",
         ~raced /\ Quiet /\ Sound /\ Len(asks') = 0 /\ (\A j \in 1..Len(streams) : streams[j].state # "open")
             => Quiet' /\ Sound'
  PROVE  ViewInv'
<1>1. ViewTypes /\ asks \in Seq(AskType)
  BY DEF ViewInv, ViewTypes
<1>2. /\ asks' \in Seq(AskType) /\ Len(asks') = Len(asks) - 1
      /\ \A j \in 1..Len(asks') : \E k \in 1..Len(asks) : asks'[j] = asks[k]
  BY <1>1, WithoutOk
<1>3. \A k \in 1..Len(asks) : asks[k].op = "replay" => store = "ansible" /\ outcome[asks[k].run] \in V!Outcomes
  BY <1>1 DEF ViewTypes
<1>4. \A j \in 1..Len(asks') : asks'[j].op = "replay" => store = "ansible" /\ outcome[asks'[j].run] \in V!Outcomes
  BY <1>2, <1>3
<1>5. ViewTypes'
  <2>1. /\ cancelled \subseteq Runs /\ raced \in BOOLEAN
        /\ outcome \in [Runs -> {"idle", "running"} \cup V!Outcomes]
    BY <1>1 DEF ViewTypes
  <2> QED
    BY <1>1, <1>2, <1>4, <2>1, TypesStep
<1>6. ASSUME ~raced PROVE Quiet' /\ Sound'
  <2>1. Quiet /\ Sound
    BY <1>6 DEF ViewInv
  <2>2. Len(asks) \in Nat /\ Len(asks) <= 1
    BY <1>1, <2>1, LenProperties DEF Quiet
  <2>3. Len(asks) = 1
    <3>1. PICK k \in Nat : k = Len(asks) /\ k <= 1
      BY <2>2
    <3>2. i \in 1..k
      BY <3>1
    <3>3. k = 1
      BY <3>1, <3>2
    <3> QED
      BY <3>1, <3>3
  <2>4. \A j \in 1..Len(streams) : streams[j].state # "open"
    BY <2>1, <2>3 DEF Quiet, V!Open
  <2> QED
    BY <1>2, <1>6, <2>1, <2>3, <2>4
<1> QED
  BY <1>5, <1>6 DEF ViewInv

LEMMA AnswerStep ==
  ASSUME ViewInv, RunsAssumption, NEW i \in 1..Len(asks), V!Answer(i)
  PROVE  ViewInv'
<1>1. /\ ViewTypes /\ asks \in Seq(AskType) /\ live \in LiveType /\ live.stream \in 0..Len(streams)
      /\ store = "runbook" => live.status # "cancelled"
      /\ StreamsOk(streams) /\ Len(streams) \in Nat
  BY LenProperties DEF ViewInv, ViewTypes, StreamsOk
<1>2. asks[i].run \in Runs /\ asks[i].hint \in Named
  <2>1. asks[i] \in AskType
    BY <1>1, SeqElements
  <2> QED
    BY <2>1 DEF AskType
<1>3. /\ asks' = V!Without(i)
      /\ store' = store /\ sent' = sent /\ outcome' = outcome /\ cancelled' = cancelled /\ raced' = raced
  BY DEF V!Answer
<1>4. PICK r \in Runs : r = asks[i].run
  BY <1>2
<1>5. CASE \E p \in {ProjectOf[asks[i].run], asks[i].hint} : V!Attached(i, p)
  <2>1. PICK p \in Named : V!Attached(i, p)
    BY <1>2, <1>5 DEF Named, V!Projects
  <2>2. /\ streams' = V!Opened(streams, r, p)
        /\ live' = [V!None EXCEPT !.run = r, !.project = p, !.status = "running", !.stream = Len(streams) + 1]
    BY <1>4, <2>1 DEF V!Attached
  <2>3. /\ live' \in LiveType /\ live'.project = p /\ live'.status = "running"
        /\ live'.got = <<>> /\ live'.stream = Len(streams) + 1
    <3>1. "running" \in Statuses /\ Len(streams) + 1 \in Nat
      BY <1>1 DEF Statuses
    <3> QED
      BY <2>2, <3>1, NoneType DEF LiveType
  <2>4. /\ StreamsOk(streams') /\ live'.stream \in 0..Len(streams') /\ Sound'
        /\ (\A j \in 1..Len(streams) : streams[j].state # "open") /\ Len(asks') = 0 => Quiet'
    BY <1>1, <1>3, <2>2, <2>3, NewStream
  <2> QED
    BY <1>3, <2>3, <2>4, AnsweredStep
<1>6. CASE V!Replayed(i)
  <2>1. /\ asks[i].op = "replay" /\ streams' = streams
        /\ live' = [V!None EXCEPT !.run = r, !.project = ProjectOf[r], !.status = outcome[r], !.replay = TRUE,
                                  !.got = [n \in 1..Len(sent[r]) |-> <<r, n>>]]
    BY <1>4, <1>6 DEF V!Replayed
  <2>2. store = "ansible" /\ outcome[r] \in V!Outcomes
    BY <1>1, <1>4, <2>1 DEF ViewTypes
  <2>3. PICK v \in Seq(Runs \X Nat) : v = [n \in 1..Len(sent[r]) |-> <<r, n>>]
    BY <1>1, TreeOk
  <2>4. /\ live' \in LiveType /\ live'.status = outcome[r] /\ live'.stream = 0 /\ live'.got = v
    <3>1. outcome[r] \in Statuses /\ ProjectOf[r] \in Named
      BY <2>2 DEF Statuses, V!Outcomes, V!Final, Named, V!Projects
    <3> QED
      BY <2>1, <2>3, <3>1, NoneType DEF LiveType
  <2>5. Shows(r)'
    <3>1. Len(v) = Len(sent[r])
      BY <1>1, <2>3, TreeOk
    <3>2. \A n \in 1..Len(v) : v[n] = <<r, n>>
      BY <2>3, <3>1
    <3> QED
      BY <2>4, <3>2 DEF Shows
  <2>6. Sound'
    BY <1>3, <2>4, <2>5 DEF Sound, Standing
  <2>7. Len(asks') = 0 /\ (\A j \in 1..Len(streams) : streams[j].state # "open") => Quiet'
    BY <2>1 DEF Quiet, V!Open
  <2>8. live'.stream \in 0..Len(streams')
    BY <1>1, <2>1, <2>4
  <2> QED
    BY <1>1, <1>3, <2>1, <2>2, <2>4, <2>6, <2>7, <2>8, AnsweredStep
<1>7. CASE asks[i].op = "replay" /\ UNCHANGED <<streams, live>>
  <2>1. streams' = streams /\ live' = live
    BY <1>7
  <2>2. Sound => Sound'
    <3> SUFFICES ASSUME Sound PROVE Sound'
      OBVIOUS
    <3> QED
      BY <1>1, <1>3, <2>1, SoundStays
  <2>3. Len(asks') = 0 /\ (\A j \in 1..Len(streams) : streams[j].state # "open") => Quiet'
    BY <2>1 DEF Quiet, V!Open
  <2> QED
    BY <1>1, <1>3, <2>1, <2>2, <2>3, AnsweredStep
<1> QED
  BY <1>5, <1>6, <1>7 DEF V!Answer

\* The Stop button: the run is asked to stop, or its stream is given up.
LEMMA StopStep ==
  ASSUME ViewInv, V!Stop
  PROVE  ViewInv'
<1>1. /\ ViewTypes /\ asks \in Seq(AskType) /\ live \in LiveType /\ live.stream \in 0..Len(streams)
      /\ store = "runbook" => live.status # "cancelled"
      /\ cancelled \subseteq Runs /\ raced \in BOOLEAN
      /\ outcome \in [Runs -> {"idle", "running"} \cup V!Outcomes]
      /\ StreamsOk(streams) /\ Len(streams) \in Nat
      /\ \A i \in 1..Len(asks) : asks[i].op = "replay" => store = "ansible" /\ outcome[asks[i].run] \in V!Outcomes
  BY LenProperties DEF ViewInv, ViewTypes, StreamsOk
<1>2. /\ store' = store /\ sent' = sent /\ outcome' = outcome /\ live' = live /\ asks' = asks /\ raced' = raced
      /\ streams' = streams \/ streams' = V!Abort
  BY DEF V!Stop
<1>3. cancelled' \subseteq Runs
  BY <1>1 DEF V!Stop, LiveType
<1>4. /\ StreamsOk(streams') /\ Len(streams') = Len(streams)
      /\ \A j \in 1..Len(streams) : /\ streams'[j].run = streams[j].run /\ streams'[j].project = streams[j].project
                                    /\ streams'[j].at = streams[j].at
                                    /\ streams'[j].state = "open" => streams[j].state = "open"
                                    /\ streams'[j].state = "dropped" <=> streams[j].state = "dropped"
  BY <1>1, <1>2, AbortOk
<1>5. ViewTypes'
  BY <1>1, <1>2, <1>3, <1>4, TypesStep
<1>6. ASSUME ~raced PROVE Quiet' /\ Sound'
  <2>1. Quiet /\ Sound
    BY <1>6 DEF ViewInv
  <2>2. Quiet'
    BY <1>2, <1>4, <2>1 DEF Quiet, V!Open
  <2>3. live.stream # 0 => live.stream \in 1..Len(streams)
    BY <1>1
  <2>4. Sound'
    BY <1>1, <1>2, <1>4, <2>1, <2>3, SoundStays
  <2> QED
    BY <2>2, <2>4
<1> QED
  BY <1>2, <1>5, <1>6 DEF ViewInv

\* The view is closed.
LEMMA ClearStep ==
  ASSUME ViewInv, RunsAssumption, V!Clear
  PROVE  ViewInv'
<1>1. /\ ViewTypes /\ asks \in Seq(AskType)
      /\ cancelled \subseteq Runs /\ raced \in BOOLEAN
      /\ outcome \in [Runs -> {"idle", "running"} \cup V!Outcomes]
      /\ Len(streams) \in Nat
      /\ \A i \in 1..Len(asks) : asks[i].op = "replay" => store = "ansible" /\ outcome[asks[i].run] \in V!Outcomes
  BY LenProperties DEF ViewInv, ViewTypes
<1>2. /\ streams' = V!Abort /\ live' = V!None /\ raced' = (raced \/ asks # <<>>)
      /\ store' = store /\ sent' = sent /\ outcome' = outcome /\ cancelled' = cancelled /\ asks' = asks
  BY DEF V!Clear, V!Racing
<1>3. /\ StreamsOk(streams') /\ Len(streams') = Len(streams)
      /\ \A j \in 1..Len(streams) : streams'[j].state = "open" => streams[j].state = "open" /\ j # live.stream
  BY <1>1, <1>2, AbortOk
<1>4. /\ live' \in LiveType /\ live'.stream \in 0..Len(streams') /\ live'.status = "none" /\ live'.got = <<>>
      /\ live'.stream = 0
  BY <1>1, <1>2, <1>3, NoneType
<1>5. ViewTypes'
  <2>1. raced' \in BOOLEAN
    BY <1>1, <1>2
  <2> QED
    BY <1>1, <1>2, <1>3, <1>4, <2>1, TypesStep
<1>6. ASSUME ~raced' PROVE Quiet' /\ Sound'
  <2>1. ~raced /\ asks = <<>>
    BY <1>2, <1>6
  <2>2. \A j \in 1..Len(streams) : streams[j].state = "open" => j = live.stream
    BY <2>1 DEF ViewInv, Quiet, V!Open
  <2>3. Quiet'
    BY <1>2, <1>3, <2>1, <2>2 DEF Quiet, V!Open
  <2>4. PICK r \in Runs : TRUE
    BY DEF RunsAssumption
  <2>5. Shows(r)'
    <3>1. Len(live'.got) = 0
      BY <1>4
    <3> QED
      BY <3>1 DEF Shows
  <2>6. Sound'
    BY <1>4, <2>5 DEF Sound, Standing
  <2> QED
    BY <2>3, <2>6
<1> QED
  BY <1>5, <1>6 DEF ViewInv

LEMMA ViewStep ==
  ASSUME ViewInv, RunsAssumption, ScriptAssumption, V!Next
  PROVE  ViewInv'
<1>1. CASE \E r \in Runs : V!Send(r) \/ V!End(r) \/ V!StartRun(r) \/ V!Attach(r) \/ V!Replay(r)
  BY <1>1, SendStep, EndStep, StartStep, AttachStep, ReplayStep
<1>2. CASE \E s \in 1..Len(streams) : V!Deliver(s) \/ V!Finish(s) \/ V!Drop(s) \/ V!Fail(s)
  BY <1>2, DeliverStep, FinishStep, DropStep, FailStep
<1>3. CASE \E i \in 1..Len(asks) : V!Answer(i)
  BY <1>3, AnswerStep
<1>4. CASE V!Stop \/ V!Clear
  BY <1>4, StopStep, ClearStep
<1> QED
  BY <1>1, <1>2, <1>3, <1>4 DEF V!Next

\* What one conversation does leaves the others as they are.
LEMMA ViewFrame ==
  ASSUME ViewInv, UNCHANGED viewVars
  PROVE  ViewInv'
<1>1. /\ store' = store /\ sent' = sent /\ outcome' = outcome /\ cancelled' = cancelled /\ streams' = streams
      /\ live' = live /\ asks' = asks /\ raced' = raced
  BY DEF viewVars
<1>2. ViewTypes'
  BY <1>1 DEF ViewInv, ViewTypes, Told
<1>3. ~raced => Quiet' /\ Sound'
  <2> SUFFICES ASSUME ~raced PROVE Quiet' /\ Sound'
    OBVIOUS
  <2>1. ViewTypes /\ Quiet /\ Sound
    BY DEF ViewInv
  <2>2. Quiet'
    BY <1>1, <2>1 DEF Quiet, V!Open
  <2> QED
    BY <1>1, <2>1, <2>2, SoundStays
<1> QED
  BY <1>1, <1>2, <1>3 DEF ViewInv

LEMMA SessionFrame ==
  ASSUME SessionInv, UNCHANGED sessionVars
  PROVE  SessionInv'
BY DEF SessionInv, S!TypeOK, sessionVars

LEMMA LinkFrame ==
  ASSUME LinkInv, UNCHANGED linkVars
  PROVE  LinkInv'
BY DEF LinkInv, S!LoopAlive, S!FastWhileNew, linkVars

-----------------------------------------------------------------------------
(* The beginning.                                                          *)

LEMMA ViewStarts ==
  ASSUME RunsAssumption, V!Init
  PROVE  ViewInv
<1>1. /\ store \in {"ansible", "runbook"} /\ sent = [r \in Runs |-> <<>>] /\ outcome = [r \in Runs |-> "idle"]
      /\ cancelled = {} /\ streams = <<>> /\ live = V!None /\ asks = <<>> /\ raced = FALSE
  BY DEF V!Init
<1>2. sent \in [Runs -> Seq(Messages)] /\ \A r \in Runs : Len(sent[r]) = 0
  BY <1>1
<1>3. \A r \in Runs : Told(r)
  BY <1>1, <1>2 DEF Told, V!Outcomes
<1>4. streams \in Seq(StreamType) /\ Len(streams) = 0 /\ asks \in Seq(AskType) /\ Len(asks) = 0
  BY <1>1
<1>5. live \in LiveType /\ live.stream = 0 /\ live.status = "none" /\ Len(live.got) = 0
  BY <1>1, NoneType
<1>6. ViewTypes
  <2>1. outcome \in [Runs -> {"idle", "running"} \cup V!Outcomes] /\ raced \in BOOLEAN /\ cancelled \subseteq Runs
    BY <1>1
  <2>2. 1..Len(streams) = {} /\ 1..Len(asks) = {} /\ live.stream \in 0..Len(streams)
    BY <1>4, <1>5
  <2>3. store = "runbook" => live.status # "cancelled"
    BY <1>5
  <2> QED
    BY <1>1, <1>2, <1>3, <1>4, <1>5, <2>1, <2>2, <2>3 DEF ViewTypes
<1>7. Quiet
  BY <1>4 DEF Quiet
<1>8. PICK r \in Runs : TRUE
  BY DEF RunsAssumption
<1>9. Shows(r)
  BY <1>5 DEF Shows
<1>10. Sound
  BY <1>5, <1>9 DEF Sound, Standing
<1> QED
  BY <1>6, <1>7, <1>10 DEF ViewInv

LEMMA SessionStarts ==
  ASSUME BoundsAssumption, S!Init
  PROVE  SessionInv
<1>1. /\ server \in ServerType /\ server.issued = 1 /\ server.valid \subseteq {1}
      /\ server.valid # {} => server.admin
  BY DEF S!Init, ServerType
<1>2. /\ auth = [mode |-> "unknown", ready |-> FALSE, me |-> 0, needsBootstrap |-> FALSE, busy |-> FALSE]
      /\ stored \in {0, 1} /\ token = stored /\ init = "probe" /\ op = S!Idle /\ requests = {}
      /\ late = {}
  BY DEF S!Init
<1>3. auth \in AuthType /\ op \in OpType /\ op.kind = "none" /\ op.step = "none"
  BY <1>2 DEF AuthType, OpType, S!Idle
<1>4. S!TypeOK
  BY <1>1, <1>2, <1>3 DEF S!TypeOK, BoundsAssumption
<1> QED
  BY <1>1, <1>2, <1>3, <1>4 DEF SessionInv

LEMMA LinkStarts ==
  ASSUME BoundsAssumption, S!LinkInit
  PROVE  LinkInv
BY DEF S!LinkInit, LinkInv, S!LoopAlive, S!FastWhileNew, S!Unresolved, S!Missing, BoundsAssumption

-----------------------------------------------------------------------------
(* What the invariants say of what is shown.                               *)

LEMMA Honest ==
  ASSUME ViewInv, RunsAssumption
  PROVE  ViewIsHonest
<1>1. ViewTypes /\ live \in LiveType /\ live.stream \in 0..Len(streams)
  BY DEF ViewInv, ViewTypes
<1>2. \A i \in 1..Len(asks) : asks[i].run \in Runs
  <2>1. \A i \in 1..Len(asks) : asks[i] \in AskType
    BY <1>1, SeqElements DEF ViewTypes
  <2> QED
    BY <2>1 DEF AskType
<1>3. V!TypeOK
  BY <1>1, <1>2 DEF ViewTypes, V!TypeOK, LiveType, Statuses, Named
<1>4. ASSUME ~raced
      PROVE  /\ \E r \in Runs : Shows(r) /\
                  ((live.stream # 0 => streams[live.stream].state # "dropped") /\ live.status = "ok" => outcome[r] = "ok")
             /\ \A s \in 1..Len(streams) : V!Open(s) => s = live.stream
  <2>1. Sound /\ \A s \in 1..Len(streams) : V!Open(s) => s = live.stream
    BY <1>4 DEF ViewInv, Quiet
  <2>2. CASE live.stream = 0
    BY <2>1, <2>2 DEF Sound, Standing
  <2>3. CASE live.stream # 0
    <3>1. PICK s \in 1..Len(streams) : s = live.stream
      BY <1>1, <2>3
    <3>2. PICK r \in Runs : r = streams[s].run
      BY <1>1, StreamFacts
    <3>3. Shows(r) /\ (live.status = "ok" /\ streams[s].state # "dropped" => outcome[r] = "ok")
      BY <2>1, <2>3, <3>1, <3>2 DEF Sound, Fed
    <3> QED
      BY <2>1, <2>3, <3>1, <3>3
  <2> QED
    BY <2>2, <2>3
<1>5. live.got \in Seq(Runs \X Nat)
  BY <1>1 DEF LiveType
<1>6. ASSUME NEW r \in Runs, Shows(r) PROVE live.got = [n \in 1..Len(live.got) |-> <<r, n>>]
  <2>1. live.got = [n \in 1..Len(live.got) |-> live.got[n]]
    BY <1>5, LenProperties
  <2>2. \A n \in 1..Len(live.got) : live.got[n] = <<r, n>>
    BY <1>6 DEF Shows
  <2> QED
    BY <2>1, <2>2
<1>7. V!ShowsOneRun
  BY <1>4, <1>6 DEF V!ShowsOneRun
<1>8. V!NoStrayStream
  BY <1>4 DEF V!NoStrayStream
<1>9. V!EndShownIsTrue
  <2> SUFFICES ASSUME live.status = "ok", live.got # <<>>, ~raced,
                      live.stream # 0 => streams[live.stream].state # "dropped"
               PROVE  outcome[live.got[1][1]] = "ok"
    BY DEF V!EndShownIsTrue
  <2>1. PICK r \in Runs : Shows(r) /\ outcome[r] = "ok"
    BY <1>4
  <2>2. 1 \in 1..Len(live.got)
    BY <1>5, EmptySeq, LenProperties
  <2>3. live.got[1] = <<r, 1>>
    BY <2>1, <2>2 DEF Shows
  <2> QED
    BY <2>1, <2>3
<1> QED
  BY <1>3, <1>7, <1>8, <1>9 DEF ViewIsHonest

-----------------------------------------------------------------------------
(* The theorems.                                                           *)

\* What the live view of a run shows is true, for any runs and scripts and over any
\* sequence of starts, attachments, replays, drops and failures (ansibleStore.ts,
\* runbookStore.ts): unless the user acted while a lookup was in flight it shows the
\* events of one run, from the first, each once and in order; it says "ok" only of a
\* run that ended well, unless the hub dropped its stream; and no stream is read that
\* the view could not abort.
THEOREM ViewStaysHonest == Spec => []ViewIsHonest
<1>1. Init => ViewInv
  BY ViewStarts, RunsAssumption DEF Init
<1>2. ViewInv /\ [Next]_vars => ViewInv'
  <2> SUFFICES ASSUME ViewInv, [Next]_vars PROVE ViewInv'
    OBVIOUS
  <2>1. CASE OfView(V!Next)
    BY <2>1, ViewStep, RunsAssumption, ScriptAssumption DEF OfView
  <2>2. CASE OfSession(S!Next) \/ OfLink(S!LinkNext) \/ UNCHANGED vars
    <3>1. UNCHANGED viewVars
      BY <2>2 DEF OfSession, OfLink, vars
    <3> QED
      BY <3>1, ViewFrame
  <2> QED
    BY <2>1, <2>2 DEF Next
<1>3. ViewInv => ViewIsHonest
  BY Honest, RunsAssumption
<1> QED
  BY <1>1, <1>2, <1>3, PTL DEF Spec

\* The session of the user (authStore.ts), for any number of tokens and requests, over
\* sign-ins, refusals, sign-outs, password changes and expiries in any order: a user is
\* shown only with the token of that very session, in memory and in local storage, unless
\* an answer came when its session was gone; and once somebody is shown the setup form is
\* gone.
THEOREM SessionStaysKept == Spec => []SessionKept
<1>1. Init => SessionInv
  BY SessionStarts, BoundsAssumption DEF Init
<1>2. SessionInv /\ [Next]_vars => SessionInv'
  <2> SUFFICES ASSUME SessionInv, [Next]_vars PROVE SessionInv'
    OBVIOUS
  <2>1. CASE OfSession(S!Next)
    BY <2>1, SessionStep DEF OfSession
  <2>2. CASE OfView(V!Next) \/ OfLink(S!LinkNext) \/ UNCHANGED vars
    <3>1. UNCHANGED sessionVars
      BY <2>2 DEF OfView, OfLink, vars
    <3> QED
      BY <3>1, SessionFrame
  <2> QED
    BY <2>1, <2>2 DEF Next
<1>3. SessionInv => SessionKept
  BY DEF SessionInv, SessionKept, S!ShownIsStored, S!SetupOnce
<1> QED
  BY <1>1, <1>2, <1>3, PTL DEF Spec

\* A session that the backend honours is dropped only when its user signs out, when the
\* start of the console cannot reach the backend, when the current password was mistyped,
\* or by the late answer to a request of an earlier session (authStore.ts: init, the 401
\* handler, logout, changePassword, refreshMe).
THEOREM SessionsEndForAReason == Spec => S!DroppedForAReason
<1> DEFINE Ends == token # 0 /\ token' = 0 /\ token \in server.valid
           Reason == \/ init # "done"
                     \/ op.kind = "change" /\ op' = S!Idle
                     \/ \E r \in requests \ requests' : r.of = "logout" \/ r.token # token
<1>1. SessionInv /\ [Next]_vars => [Ends => Reason]_(S!sessionVars)
  <2> SUFFICES ASSUME SessionInv, [Next]_vars, Ends PROVE Reason
    OBVIOUS
  <2>0. token' # token /\ server.issued \in Nat
    BY DEF SessionInv, ServerType
  <2>1. S!Next
    BY <2>0 DEF Next, OfView, OfSession, OfLink, vars, sessionVars
  <2>2. ASSUME S!SignInAnswer \/ S!Changed PROVE FALSE
    <3>1. token' = server.issued + 1
      BY <2>2 DEF S!SignInAnswer, S!Changed, S!NewToken, S!Issue
    <3> QED
      BY <2>0, <3>1
  <2>3. ASSUME S!InitProbe \/ S!InitMe PROVE Reason
    BY <2>3 DEF S!InitProbe, S!InitMe
  <2>4. ASSUME S!NotChanged PROVE Reason
    BY <2>4 DEF S!NotChanged
  <2>5. ASSUME NEW r \in requests, S!LogoutAnswer(r) PROVE Reason
    BY <2>5 DEF S!LogoutAnswer
  <2>6. ASSUME NEW r \in requests, S!MeAnswer(r) \/ S!Answer(r) PROVE Reason
    <3>1. requests' = requests \ {r}
      BY <2>6 DEF S!MeAnswer, S!Answer
    <3>2. ~S!Honoured(r.token)
      BY <2>0, <2>6 DEF S!MeAnswer, S!Answer, S!Keep, S!LeftAsIs
    <3>3. r.token # token
      BY <3>2 DEF S!Honoured
    <3> QED
      BY <3>1, <3>3
  <2>7. ASSUME UNCHANGED token PROVE FALSE
    BY <2>0, <2>7
  <2> QED
    BY <2>1, <2>2, <2>3, <2>4, <2>5, <2>6, <2>7 DEF S!Next, S!AnyAnswer, S!BackendStarts, S!Expire, S!InitSetup,
       S!InitPull, S!SignIn, S!SignInFails, S!SignInPulled, S!Logout, S!ChangePassword, S!Request
<1>2. Init => SessionInv
  BY SessionStarts, BoundsAssumption DEF Init
<1>3. SessionInv /\ [Next]_vars => SessionInv'
  <2> SUFFICES ASSUME SessionInv, [Next]_vars PROVE SessionInv'
    OBVIOUS
  <2>1. CASE OfSession(S!Next)
    BY <2>1, SessionStep DEF OfSession
  <2>2. CASE OfView(V!Next) \/ OfLink(S!LinkNext) \/ UNCHANGED vars
    <3>1. UNCHANGED sessionVars
      BY <2>2 DEF OfView, OfLink, vars
    <3> QED
      BY <3>1, SessionFrame
  <2> QED
    BY <2>1, <2>2 DEF Next
<1> QED
  BY <1>1, <1>2, <1>3, PTL DEF Spec, S!DroppedForAReason

\* The connect loop (backendStore.ts), over any overlap of refreshes, retries and
\* outages: it never stops, a probe being in flight or its timer running, one of each
\* at most, and before the first success it slows down only after FAST_TRIES failures.
THEOREM LoopStaysHealthy == Spec => []LoopHealthy
<1>1. Init => LinkInv
  BY LinkStarts, BoundsAssumption DEF Init
<1>2. LinkInv /\ [Next]_vars => LinkInv'
  <2> SUFFICES ASSUME LinkInv, [Next]_vars PROVE LinkInv'
    OBVIOUS
  <2>1. CASE OfLink(S!LinkNext)
    BY <2>1, LinkStep DEF OfLink
  <2>2. CASE OfView(V!Next) \/ OfSession(S!Next) \/ UNCHANGED vars
    <3>1. UNCHANGED linkVars
      BY <2>2 DEF OfView, OfSession, vars
    <3> QED
      BY <3>1, LinkFrame
  <2> QED
    BY <2>1, <2>2 DEF Next
<1>3. LinkInv => LoopHealthy
  BY DEF LinkInv, LoopHealthy
<1> QED
  BY <1>1, <1>2, <1>3, PTL DEF Spec
=============================================================================
