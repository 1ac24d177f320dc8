------------------------------ MODULE Session -------------------------------
(***************************************************************************)
(* What ties the console to its backend: the session of its user, and the  *)
(* connection.                                                             *)
(***************************************************************************)
EXTENDS Naturals, FiniteSets

(***************************************************************************)
(* The session of the console in multi-user mode: authStore.ts, the token  *)
(* that backendClient.ts adds to every request, the copy in local storage  *)
(* and the gate of App.tsx.  Each function runs up to its next await, so   *)
(* answers arrive while others are under way; a request carries the token  *)
(* it was sent with and may be refused long after that one was replaced.   *)
(* The synchronisation of settings, which they start and stop, is left out. *)
(***************************************************************************)

CONSTANTS
    MaxTokens,  \* bound: sessions the backend opens
    MaxRequests \* bound: requests of the app in flight

VARIABLES
    server,   \* the backend: reachable, its mode, whether it has an administrator, the tokens it honours, tokens issued
    auth,     \* authStore: mode, ready, me (the token of the user shown, 0 for none), needsBootstrap, busy
    token,    \* sessionToken of backendClient; 0 for none
    stored,   \* the token in local storage
    init,     \* how far init() is: the token it found and its next step
    op,       \* the form under way, which "busy" makes the only one: its kind, step and token
    requests, \* other requests in flight: what they are of and their tokens
    late      \* history: tokens whose user came to be shown after that token was dropped or replaced

sessionVars == <<server, auth, token, stored, init, op, requests, late>>

Issue == server.issued + 1
Idle == [kind |-> "none", step |-> "none", token |-> 0]

\* A request of the app, the getMe of refreshMe, and the one of logout.
Of == {"app", "me", "logout"}
Sent(o, t) == [of |-> o, token |-> t]

\* The token restored at start was issued to this browser earlier.
Init ==
    /\ server \in [up : BOOLEAN, mode : {"on", "off"}, admin : BOOLEAN, valid : {{}, {1}}, issued : {1}]
    /\ server.mode = "off" \/ ~server.admin => server.valid = {}
    /\ auth = [mode |-> "unknown", ready |-> FALSE, me |-> 0, needsBootstrap |-> FALSE, busy |-> FALSE]
    /\ stored \in {0, 1}
    /\ token = stored
    /\ init = "probe"
    /\ op = Idle
    /\ requests = {}
    /\ late = {}

-----------------------------------------------------------------------------
(* The backend.                                                            *)

BackendStarts ==
    /\ ~server.up
    /\ server' = [server EXCEPT !.up = TRUE]
    /\ UNCHANGED <<auth, token, stored, init, op, requests, late>>

\* A session expires or an administrator revokes it.
Expire(t) ==
    /\ t \in server.valid
    /\ server' = [server EXCEPT !.valid = @ \ {t}]
    /\ UNCHANGED <<auth, token, stored, init, op, requests, late>>

Honoured(t) == server.mode = "off" \/ t \in server.valid

-----------------------------------------------------------------------------
(* Dropping a token: applyToken(null).                                     *)

Drop == token' = 0 /\ stored' = 0

\* After an answer that changes no session; "a" is what it leaves of the store.
Keep(a) == auth' = a /\ UNCHANGED <<token, stored>>

RefusalIgnored(a) == Keep(a)  \* mutant: nobody handles a 401
\* The 401 handler: it counts when somebody is shown and a token is set, whatever token
\* the refused request was sent with.
Unauthorized(a) ==
    IF token # 0 /\ auth.mode = "on" /\ auth.me # 0
      THEN Drop /\ auth' = [a EXCEPT !.me = 0]
      ELSE Keep(a)

\* The user of a token is shown.
Late(t) == IF t = token THEN late ELSE late \cup {t}

-----------------------------------------------------------------------------
(* init(): probe, setup status, who am I, pull the settings.               *)

\* A backend that does not answer counts as one without users.
InitProbe ==
    /\ init = "probe"
    /\ IF server.up /\ server.mode = "on"
         THEN init' = "setup" /\ Keep(auth)
         ELSE /\ init' = "done"
              /\ auth' = [auth EXCEPT !.mode = "off", !.ready = TRUE]
              /\ IF stored # 0 THEN Drop ELSE UNCHANGED <<token, stored>>
    /\ UNCHANGED <<server, op, requests, late>>

Gated(b) == [mode |-> "on", ready |-> TRUE, me |-> token, needsBootstrap |-> b, busy |-> FALSE]
NotGated(b) == [mode |-> "on", ready |-> TRUE, me |-> 0, needsBootstrap |-> b, busy |-> FALSE]
InitSetup ==
    /\ init = "setup"
    /\ auth' = [auth EXCEPT !.needsBootstrap = ~server.admin]
    /\ init' = "me"
    /\ UNCHANGED <<server, token, stored, op, requests, late>>

\* getMe answers, or is refused or fails for another reason: the token is dropped either way.
InitMe ==
    /\ init = "me"
    /\ \/ /\ stored # 0 /\ Honoured(stored)
          /\ init' = "pull" /\ Keep(auth)
       \/ /\ init' = "done"
          /\ auth' = NotGated(auth.needsBootstrap)
          /\ IF stored # 0 THEN Drop ELSE UNCHANGED <<token, stored>>
    /\ UNCHANGED <<server, op, requests, late>>

InitPull ==
    /\ init = "pull"
    /\ init' = "done"
    /\ auth' = Gated(auth.needsBootstrap)
    /\ UNCHANGED <<server, token, stored, op, requests, late>>

-----------------------------------------------------------------------------
(* The gate and the forms.                                                 *)

Shows ==
    IF ~auth.ready THEN "blank"
    ELSE IF auth.mode = "on" /\ auth.me = 0 THEN IF auth.needsBootstrap THEN "setup" ELSE "login"
    ELSE "app"

\* login and bootstrapAdmin: the backend opens a session, the token is applied, then
\* the settings are pulled, and only then is the user shown.
SignIn(kind) ==
    /\ Shows = (IF kind = "bootstrap" THEN "setup" ELSE "login")
    /\ ~auth.busy /\ op = Idle
    /\ op' = [Idle EXCEPT !.kind = kind, !.step = "ask"]
    /\ auth' = [auth EXCEPT !.busy = TRUE]
    /\ UNCHANGED <<server, token, stored, init, requests, late>>

SignInFails ==
    /\ op.kind \in {"login", "bootstrap"} /\ op.step = "ask"
    /\ op' = Idle
    /\ auth' = [auth EXCEPT !.busy = FALSE]
    /\ UNCHANGED <<server, token, stored, init, requests, late>>

\* The backend opens a session and the token is applied when the answer arrives.
SignInAnswer ==
    /\ op.kind \in {"login", "bootstrap"} /\ op.step = "ask"
    /\ op.kind = "bootstrap" <=> ~server.admin
    /\ Issue <= MaxTokens
    /\ server' = [server EXCEPT !.valid = @ \cup {Issue}, !.issued = Issue, !.admin = TRUE]
    /\ token' = Issue /\ stored' = Issue
    /\ op' = [op EXCEPT !.step = "pull", !.token = Issue]
    /\ UNCHANGED <<auth, init, requests, late>>

BeforeBootstrap(t) == [auth EXCEPT !.me = t, !.busy = FALSE]  \* mutant: the setup form stays
SignedIn(t) == [auth EXCEPT !.me = t, !.busy = FALSE, !.needsBootstrap = FALSE]
SignInPulled ==
    /\ op.kind \in {"login", "bootstrap"} /\ op.step = "pull"
    /\ auth' = SignedIn(op.token)
    /\ late' = Late(op.token)
    /\ op' = Idle
    /\ UNCHANGED <<server, token, stored, init, requests>>

\* Nothing keeps the user from signing out while a form is under way.
Logout ==
    /\ auth.mode = "on" /\ auth.me # 0
    /\ Sent("logout", token) \notin requests
    /\ requests' = requests \cup {Sent("logout", token)}
    /\ UNCHANGED <<server, auth, token, stored, init, op, late>>

\* Best effort: the backend may not have heard of it.
LogoutAnswer(r) ==
    /\ r \in requests /\ r.of = "logout"
    /\ requests' = requests \ {r}
    /\ server' \in {server, [server EXCEPT !.valid = @ \ {r.token}]}
    /\ Drop
    /\ auth' = [auth EXCEPT !.me = 0]
    /\ UNCHANGED <<init, op, late>>

ChangePassword ==
    /\ auth.mode = "on" /\ auth.me # 0
    /\ ~auth.busy /\ op = Idle
    /\ op' = [kind |-> "change", step |-> "ask", token |-> token]
    /\ auth' = [auth EXCEPT !.busy = TRUE]
    /\ UNCHANGED <<server, token, stored, init, requests, late>>

TokenKept == token  \* mutant: the token from before the change is kept
NewToken == Issue
\* The sessions of the user end (the others are those of other users) and the caller gets
\* a new token, under which refreshMe asks who it is; the user shown is not set again
\* before that is answered.
Changed ==
    /\ op.kind = "change" /\ op.token \in server.valid
    /\ Issue <= MaxTokens
    /\ \E others \in SUBSET (server.valid \ {op.token}) :
          server' = [server EXCEPT !.valid = others \cup {Issue}, !.issued = Issue]
    /\ token' = NewToken /\ stored' = NewToken
    /\ auth' = [auth EXCEPT !.busy = FALSE, !.me = IF @ = op.token THEN Issue ELSE @]
    /\ requests' = requests \cup {Sent("me", Issue)}
    /\ op' = Idle
    /\ UNCHANGED <<init, late>>

\* The session is refused, or the current password (with a 401 too), or the new one.
NotChanged ==
    /\ op.kind = "change"
    /\ \/ Unauthorized([auth EXCEPT !.busy = FALSE])
       \/ op.token \in server.valid /\ Keep([auth EXCEPT !.busy = FALSE])
    /\ op' = Idle
    /\ UNCHANGED <<server, init, requests, late>>

DroppedToo == Drop /\ auth' = [auth EXCEPT !.me = 0]  \* mutant: it ends the session, as in init
LeftAsIs == Keep(auth)
\* refreshMe: the user it names is shown, whatever became of the session meanwhile; when it
\* fails the store is left as it is.
MeAnswer(r) ==
    /\ r \in requests /\ r.of = "me"
    /\ requests' = requests \ {r}
    /\ \/ Honoured(r.token) /\ Keep([auth EXCEPT !.me = r.token]) /\ late' = Late(r.token)
       \/ ~Honoured(r.token) /\ Unauthorized(auth) /\ UNCHANGED late
       \/ LeftAsIs /\ UNCHANGED late
    /\ UNCHANGED <<server, init, op>>

-----------------------------------------------------------------------------
(* Any other request of the app.                                           *)

Request ==
    /\ Shows = "app" /\ server.up
    /\ Sent("app", token) \notin requests
    /\ Cardinality({r \in requests : r.of = "app"}) < MaxRequests
    /\ requests' = requests \cup {Sent("app", token)}
    /\ UNCHANGED <<server, auth, token, stored, init, op, late>>

Answer(r) ==
    /\ r \in requests /\ r.of = "app"
    /\ requests' = requests \ {r}
    /\ IF Honoured(r.token) THEN Keep(auth) ELSE Unauthorized(auth)
    /\ UNCHANGED <<server, init, op, late>>

AnyAnswer(r) == LogoutAnswer(r) \/ MeAnswer(r) \/ Answer(r)

Next ==
    \/ BackendStarts \/ \E t \in server.valid : Expire(t)
    \/ InitProbe \/ InitSetup \/ InitMe \/ InitPull
    \/ \E kind \in {"login", "bootstrap"} : SignIn(kind)
    \/ SignInFails \/ SignInAnswer \/ SignInPulled
    \/ Logout \/ ChangePassword \/ Changed \/ NotChanged
    \/ Request \/ \E r \in requests : AnyAnswer(r)

Spec == Init /\ [][Next]_sessionVars
                /\ WF_sessionVars(InitProbe \/ InitSetup \/ InitMe \/ InitPull)
                /\ WF_sessionVars(Changed \/ NotChanged \/ SignInPulled \/ SignInFails)
                /\ \A o \in Of, t \in 0..MaxTokens : WF_sessionVars(AnyAnswer(Sent(o, t)))

-----------------------------------------------------------------------------
TypeOK ==
    /\ server.valid \subseteq 1..server.issued /\ server.issued \in 1..MaxTokens
    /\ auth.mode \in {"unknown", "on", "off"} /\ auth.me \in 0..server.issued
    /\ token \in 0..server.issued /\ stored \in 0..server.issued
    /\ requests \subseteq [of : Of, token : 0..server.issued]
    /\ init \in {"probe", "setup", "me", "pull", "done"}
    /\ late \subseteq 1..server.issued

\* A user is shown only with the token of that session, in memory and in local storage:
\* what the user does is never sent under another session (authStore.ts sets the three
\* in different places, some before and some after an await).  Only an answer that came
\* when its session had been dropped or replaced can break that (README, section 6).
ShownIsStored ==
    auth.me # 0 /\ op.step # "pull" /\ auth.me \notin late => auth.me = token /\ token = stored

\* The gate opens to whoever has signed in, and never shows the setup form again.
SetupOnce == auth.ready /\ auth.me # 0 => ~auth.needsBootstrap

\* A session that the backend honours is dropped only when its user signs out, when the start
\* of the console cannot reach the backend, when the current password was mistyped
\* (both README, section 6), or by the late answer to a request of an earlier session; never
\* because a request of its own failed.
DroppedForAReason ==
    [][token # 0 /\ token' = 0 /\ token \in server.valid =>
         \/ init # "done"
         \/ op.kind = "change" /\ op' = Idle
         \/ \E r \in requests \ requests' : r.of = "logout" \/ r.token # token]_sessionVars

\* A token the backend has refused does not stay: a request under it ends the session it
\* belongs to, unless the user has signed out or in again meanwhile.
RefusedIsDropped ==
    \A t \in 1..MaxTokens :
        []( Sent("app", t) \in requests /\ token = t /\ auth.me = t /\ t \notin server.valid
            => <>(auth.me # t) )

-----------------------------------------------------------------------------
(***************************************************************************)
(* Whether the console is connected: backendStore.ts.  A refresh probes    *)
(* the backend and then reads its capabilities, with an await before each; *)
(* the connect loop, the Retry button and the screens that find the status *)
(* unknown all start refreshes, which overlap.                             *)
(***************************************************************************)

CONSTANTS
    FastTries,    \* probes before the loop slows down (FAST_TRIES)
    MaxRefreshes, \* bound: refreshes in flight
    MaxRetries,   \* bound: clicks on Retry
    MaxOutages    \* bound: times the backend goes down

VARIABLES
    up,        \* whether the backend answers
    outages, retries,
    status, capable, \* the store: status and whether capabilities are known
    refreshes, \* refreshes in flight: who started it and its next await
    cached,    \* the resolved connection: which start of the backend it is of, or Unresolved, Missing
    tries,     \* failed probes in a row
    loop       \* the connect loop: "idle", "probing", "fast" or "slow" (its timer)

linkVars == <<up, outages, retries, status, capable, refreshes, cached, tries, loop>>

Unresolved == 0
Missing == 1
Starters == {"loop", "retry", "screen"}

LinkInit ==
    /\ up \in BOOLEAN /\ outages = 0 /\ retries = 0
    /\ status = "unknown" /\ capable = FALSE
    /\ refreshes = {} /\ cached = Unresolved
    /\ tries = 0 /\ loop = "idle"

GoesDown ==
    /\ up /\ outages < MaxOutages
    /\ up' = FALSE /\ outages' = outages + 1
    /\ UNCHANGED <<retries, status, capable, refreshes, cached, tries, loop>>

ComesUp ==
    /\ ~up
    /\ up' = TRUE
    /\ UNCHANGED <<outages, retries, status, capable, refreshes, cached, tries, loop>>

\* A sidecar that was started again has another port.
Nth == outages + 2

\* The desktop resolves its sidecar's endpoint once and keeps the answer, which says
\* "unavailable" while the sidecar has not announced its port.
CacheKept(c) == c  \* mutant: the connection found first is kept
CacheDropped(c) == Unresolved
Resolved(c) == IF c # Unresolved THEN c ELSE IF up THEN Nth ELSE Missing

\* refresh(): the first part, up to the probe.
Begin(who, c, s) ==
    /\ who \notin {r.who : r \in refreshes}
    /\ Cardinality(refreshes) < MaxRefreshes
    /\ refreshes' = refreshes \cup {[who |-> who, at |-> "probe"]}
    /\ status' = IF s = "unknown" THEN "connecting" ELSE s
    /\ cached' = Resolved(c)

\* The loop counts a failed probe and picks the delay of its next one.
AlwaysSlow(t) == "slow"  \* mutant: the loop does not try fast
Delay(t) == IF t <= FastTries THEN "fast" ELSE "slow"
StopsWhenConnected(who, connected) ==  \* mutant: the loop ends with the first success
    IF who # "loop" THEN UNCHANGED <<tries, loop>>
    ELSE tries' = 0 /\ loop' = IF connected THEN "probing" ELSE Delay(tries + 1)
LoopOn(who, connected) ==
    IF who # "loop" THEN UNCHANGED <<tries, loop>>
    ELSE /\ tries' = IF connected THEN 0 ELSE IF tries > FastTries THEN tries ELSE tries + 1
         /\ loop' = IF connected THEN "slow" ELSE Delay(tries + 1)

ProbeAnswer(r) ==
    LET reached == up /\ cached = Nth
    IN /\ r \in refreshes /\ r.at = "probe"
       /\ IF reached
            THEN refreshes' = (refreshes \ {r}) \cup {[r EXCEPT !.at = "capabilities"]} /\ UNCHANGED <<status, capable, tries, loop>>
            ELSE /\ refreshes' = refreshes \ {r}
                 /\ status' = "unavailable" /\ capable' = FALSE
                 /\ LoopOn(r.who, FALSE)
       /\ UNCHANGED <<up, outages, retries, cached>>

\* fetchCapabilities answers null when it fails; the status is available all the same.
CapabilitiesAnswer(r) ==
    /\ r \in refreshes /\ r.at = "capabilities"
    /\ refreshes' = refreshes \ {r}
    /\ status' = "available" /\ capable' = (up /\ cached = Nth)
    /\ LoopOn(r.who, TRUE)
    /\ UNCHANGED <<up, outages, retries, cached>>

\* startAutoConnect and the timer of the loop.
Tick ==
    /\ loop \in {"idle", "fast", "slow"}
    /\ Begin("loop", IF status # "available" THEN CacheDropped(cached) ELSE cached, status)
    /\ loop' = "probing"
    /\ UNCHANGED <<up, outages, retries, capable, tries>>

Retry ==
    /\ retries < MaxRetries
    /\ retries' = retries + 1
    /\ Begin("retry", CacheDropped(cached), "unknown")
    /\ tries' = 0
    /\ UNCHANGED <<up, outages, capable, loop>>

\* useOptionalBackend and the network tools.
ScreenMounts ==
    /\ status = "unknown"
    /\ Begin("screen", cached, status)
    /\ UNCHANGED <<up, outages, retries, capable, tries, loop>>

ToolAvailable == status = "available" /\ capable

LinkNext ==
    \/ GoesDown \/ ComesUp
    \/ Tick \/ Retry \/ ScreenMounts
    \/ \E r \in refreshes : ProbeAnswer(r) \/ CapabilitiesAnswer(r)

LinkSpec == LinkInit /\ [][LinkNext]_linkVars /\ WF_linkVars(Tick)
             /\ \A w \in Starters : WF_linkVars(\E r \in refreshes : r.who = w /\ (ProbeAnswer(r) \/ CapabilitiesAnswer(r)))

-----------------------------------------------------------------------------
\* A backend that stays up is found again, whatever overlapping refreshes and retries
\* came before, and its tools are offered; a backend that stays down is noticed
\* (backendStore.ts:30-35, the "self-healing connect loop").
Heals == (<>[]up => <>[]ToolAvailable) /\ (<>[]~up => <>[](status = "unavailable"))

\* The loop never stops: a probe is in flight or its timer runs, one of each at most.
LoopAlive == loop = "probing" <=> \E r \in refreshes : r.who = "loop"

\* As long as the loop has failed no more than FAST_TRIES times in a row it tries fast.
FastWhileNew == loop = "slow" /\ status # "available" => tries > FastTries \/ outages > 0 \/ retries > 0
=============================================================================
