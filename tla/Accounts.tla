----------------------------- MODULE Accounts -------------------------------
(***************************************************************************)
(* The accounts with their sessions, and the throttle of the logins. They  *)
(* share no state.                                                         *)
(***************************************************************************)
EXTENDS FiniteSets, Integers

(***************************************************************************)
(* The accounts and their sessions (internal/auth).  The store runs one    *)
(* statement at a time, but a request is several of them: it reads a row,  *)
(* counts the administrators, writes the whole row back and revokes the    *)
(* sessions, and other requests, a failing statement or the end of the     *)
(* process come between.                                                   *)
(*                                                                         *)
(* A password is the number of the write that set it.  The throttle of the *)
(* logins is further down.                                               *)
(***************************************************************************)

CONSTANTS
    Users,        \* account ids that may ever be made
    Patches,      \* what a patch may name: promote, demote, disable, enable, password, email
    MaxLogins,    \* bound: sessions ever issued
    MaxParallel,  \* bound: requests under way at once
    MaxAccountOps \* bound: requests that write an account

VARIABLES
    accounts,    \* the accounts: whether one is there, administrator, disabled, and its password
    issued,      \* the session table: of every session its user and the password it was issued for, or Nobody's
    minted,      \* sessions issued so far
    setupToken,  \* the setup token is pending
    inflight,    \* the requests under way
    stamps,      \* requests that wrote so far; numbers the passwords
    collided,    \* for the check: two requests that write accounts overlapped
    loose        \* for the check: users a login overlapped a write of, or whose sessions a write left behind
accountVars == <<accounts, issued, minted, setupToken, inflight, stamps, collided, loose>>

Absent == [state |-> "never", admin |-> FALSE, off |-> FALSE, pw |-> 0]
Nobodys == [user |-> "nobody", pw |-> 0]
NoRequest == [kind |-> "none", user |-> "nobody", at |-> "idle", patch |-> "none", row |-> Absent]
Workers == 1..MaxParallel
Tokens == 1..MaxLogins
Writers == {"patch", "delete", "change"}

\* The first start of all, or one with accounts made before; sessions begin with logins.
Admin(pw) == [state |-> "here", admin |-> TRUE, off |-> FALSE, pw |-> pw]
AccInit ==
    /\ accounts \in {[u \in Users |-> Absent], [u \in Users |-> Admin(0)]}
    /\ issued = [t \in Tokens |-> Nobodys] /\ minted = 0
    /\ setupToken = (accounts = [u \in Users |-> Absent]) /\ inflight = [w \in Workers |-> NoRequest] /\ stamps = 0
    /\ collided = FALSE /\ loose = {}

Here(u) == accounts[u].state = "here"
\* A session opens the console for a user who is there and not disabled.
Valid(t) == issued[t] # Nobodys /\ Here(issued[t].user) /\ ~accounts[issued[t].user].off
SignedIn(u) == \E t \in Tokens : issued[t].user = u /\ Valid(t)
AdminSignedIn == \E u \in Users : SignedIn(u) /\ accounts[u].admin
Revoked(u) == [t \in Tokens |-> IF issued[t].user = u THEN Nobodys ELSE issued[t]]

-----------------------------------------------------------------------------
(* A request begins, with the rights of its session at that moment.        *)

At(w, at) == inflight[w].at = at
User(w) == inflight[w].user
Row(w) == inflight[w].row
Goes(w, r) == inflight' = [inflight EXCEPT ![w] = r]
To(w, at) == Goes(w, [inflight[w] EXCEPT !.at = at])
Ends(w) == Goes(w, NoRequest)
Writing(w) == inflight[w].kind \in Writers

Begin(w, kind, u, patch, at) ==
    /\ At(w, "idle")
    /\ Goes(w, [NoRequest EXCEPT !.kind = kind, !.user = u, !.at = at, !.patch = patch])
    /\ collided' = (collided \/ (kind \in Writers /\ \E v \in Workers : Writing(v)))
    /\ loose' = loose \cup
         (IF \E v \in Workers : User(v) = u /\ {kind, inflight[v].kind} \cap Writers # {} THEN {u} ELSE {})
    /\ UNCHANGED <<accounts, issued, minted, setupToken>>
BeginPatch(w, u, p) == AdminSignedIn /\ stamps < MaxAccountOps /\ stamps' = stamps + 1 /\ Begin(w, "patch", u, p, "get")
BeginDelete(w, u) == AdminSignedIn /\ stamps < MaxAccountOps /\ stamps' = stamps + 1 /\ Begin(w, "delete", u, "none", "get")
BeginChange(w, u) == SignedIn(u) /\ stamps < MaxAccountOps /\ stamps' = stamps + 1 /\ Begin(w, "change", u, "password", "check")
BeginLogin(w, u) == minted < MaxLogins /\ UNCHANGED stamps /\ Begin(w, "login", u, "none", "check")

\* A new account is one statement, and a taken name is refused.
Made(u, admin) == [accounts EXCEPT ![u] = [Admin(stamps + 1) EXCEPT !.admin = admin]]
CreateUser(u, admin) ==
    /\ AdminSignedIn /\ accounts[u] = Absent /\ stamps < MaxAccountOps
    /\ accounts' = Made(u, admin) /\ stamps' = stamps + 1
    /\ UNCHANGED <<issued, minted, setupToken, inflight, collided, loose>>
\* The first administrator: the token is spent with the account; the session follows, under the same mutex.
Bootstrap(w, u) ==
    /\ At(w, "idle") /\ setupToken /\ accounts[u] = Absent
    /\ accounts' = Made(u, TRUE) /\ stamps' = stamps + 1 /\ setupToken' = FALSE
    /\ Goes(w, [NoRequest EXCEPT !.kind = "login", !.user = u, !.at = "mint", !.row = Made(u, TRUE)[u]])
    /\ UNCHANGED <<issued, minted, collided, loose>>

-----------------------------------------------------------------------------
(* Its statements.                                                         *)

Unmoved == UNCHANGED <<accounts, issued, minted, setupToken, stamps, collided, loose>>
\* A login and a change of the own password read the row and verify the password that was typed.
Check(w) ==
    /\ At(w, "check")
    /\ IF ~Here(User(w)) \/ (inflight[w].kind = "login" /\ accounts[User(w)].off) THEN Ends(w)
       ELSE Goes(w, [inflight[w] EXCEPT !.at = IF inflight[w].kind = "login" THEN "mint" ELSE "get",
                                        !.row = accounts[User(w)]])
    /\ Unmoved
WrongPassword(w) == At(w, "check") /\ Ends(w) /\ Unmoved

Losing(w, row) == row.admin /\ (inflight[w].kind = "delete" \/ inflight[w].patch \in {"demote", "disable"})
AfterGet(w) == IF inflight[w].kind = "delete" THEN "revoke" ELSE "write"
Get(w) ==
    /\ At(w, "get")
    /\ LET row == accounts[User(w)] IN
       IF ~Here(User(w)) THEN Ends(w)
       ELSE Goes(w, [inflight[w] EXCEPT !.row = row, !.at = IF Losing(w, row) THEN "count" ELSE AfterGet(w)])
    /\ Unmoved
\* The last administrator stays.
AnyAdmin(u) == {v \in Users : Here(v) /\ accounts[v].admin /\ ~accounts[v].off}  \* mutant: the account itself is counted
OtherAdmins(u) == {v \in Users \ {u} : Here(v) /\ accounts[v].admin /\ ~accounts[v].off}
Count(w) ==
    /\ At(w, "count")
    /\ IF OtherAdmins(User(w)) = {} THEN Ends(w) ELSE To(w, AfterGet(w))
    /\ Unmoved

\* The row that was read is written back whole, with the field the patch names.
Patched(row, patch) ==
    [row EXCEPT !.admin = (row.admin \/ patch = "promote") /\ patch # "demote",
                !.off = (row.off \/ patch = "disable") /\ patch # "enable",
                !.pw = IF patch = "password" THEN stamps + 1 ELSE row.pw]
RevokesWhenOff(patch) == patch = "disable"  \* mutant: a new password leaves the sessions
Revokes(patch) == patch \in {"disable", "password"}
Write(w) ==
    LET row == Patched(Row(w), inflight[w].patch) IN
    /\ At(w, "write")
    /\ accounts' = IF Here(User(w)) THEN [accounts EXCEPT ![User(w)] = row] ELSE accounts
    /\ stamps' = IF inflight[w].patch = "password" THEN stamps + 1 ELSE stamps
    /\ IF Revokes(inflight[w].patch) THEN Goes(w, [inflight[w] EXCEPT !.at = "revoke", !.row = row]) ELSE Ends(w)
    /\ UNCHANGED <<issued, minted, setupToken, collided, loose>>
\* That the sessions could not be deleted is not looked at.
AfterRevoke(w) == IF inflight[w].kind = "delete" THEN "erase" ELSE IF inflight[w].kind = "change" THEN "mint" ELSE "idle"
Revoke(w) ==
    /\ At(w, "revoke")
    /\ \/ issued' = Revoked(User(w)) /\ UNCHANGED loose
       \/ UNCHANGED issued /\ loose' = loose \cup {User(w)}
    /\ IF AfterRevoke(w) = "idle" THEN Ends(w) ELSE To(w, AfterRevoke(w))
    /\ UNCHANGED <<accounts, minted, setupToken, stamps, collided>>
Erase(w) ==
    /\ At(w, "erase") /\ Ends(w)
    /\ accounts' = [accounts EXCEPT ![User(w)].state = "gone"]
    /\ UNCHANGED <<issued, minted, setupToken, stamps, collided, loose>>
Mint(w) ==
    /\ At(w, "mint") /\ Ends(w)
    /\ minted' = IF minted < MaxLogins THEN minted + 1 ELSE minted
    /\ issued' = IF minted < MaxLogins THEN [issued EXCEPT ![minted + 1] = [user |-> User(w), pw |-> Row(w).pw]] ELSE issued
    /\ UNCHANGED <<accounts, setupToken, stamps, collided, loose>>

\* A session is signed out of, or runs out.
Leave(t) ==
    /\ issued[t] # Nobodys /\ issued' = [issued EXCEPT ![t] = Nobodys]
    /\ UNCHANGED <<accounts, minted, setupToken, inflight, stamps, collided, loose>>
\* The process ends between two statements and starts again: a new setup token if there is no account.
Restart ==
    /\ inflight' = [w \in Workers |-> NoRequest]
    /\ loose' = loose \cup {User(w) : w \in {v \in Workers : At(v, "revoke")}}
    /\ setupToken' = ~\E u \in Users : Here(u)
    /\ UNCHANGED <<accounts, issued, minted, stamps, collided>>

AccNext ==
    \/ \E w \in Workers :
         \/ Check(w) \/ WrongPassword(w) \/ Get(w) \/ Count(w) \/ Write(w) \/ Revoke(w) \/ Erase(w) \/ Mint(w)
         \/ \E u \in Users : BeginDelete(w, u) \/ BeginChange(w, u) \/ BeginLogin(w, u) \/ Bootstrap(w, u)
                             \/ \E p \in Patches : BeginPatch(w, u, p)
    \/ \E u \in Users : CreateUser(u, TRUE) \/ CreateUser(u, FALSE)
    \/ \E t \in Tokens : Leave(t)
    \/ Restart

-----------------------------------------------------------------------------
\* Once there was an account, one can administer the others.
AdminStays == (\E u \in Users : accounts[u] # Absent) => \E u \in Users : Here(u) /\ accounts[u].admin /\ ~accounts[u].off
\* A setup token is pending only while nobody is there.
SetupOnce == setupToken => \A u \in Users : ~Here(u)
\* A user nobody is writing has only sessions of the password that is stored, and none when deleted or disabled,
\* unless a login overlapped a write or a write was cut short.
SessionsFit ==
    \A t \in Tokens : LET u == issued[t].user IN
        u # "nobody" /\ ~collided /\ u \notin loose /\ ~(\E w \in Workers : User(w) = u /\ Writing(w)) =>
            Here(u) /\ ~accounts[u].off /\ accounts[u].pw = issued[t].pw
AccountsSound == (~collided => AdminStays) /\ SetupOnce /\ SessionsFit

-----------------------------------------------------------------------------
(***************************************************************************)
(* The failed-login limiter (internal/auth: throttle) for one key: how     *)
(* often it failed, until when it is blocked, and the logins under way,    *)
(* which were let in by one call and report their end by another.  The     *)
(* block is computed in 64-bit nanoseconds, which wrap.                    *)
(***************************************************************************)

CONSTANTS
    MaxFails,     \* bound: failures ever, past the point where the block wraps
    MaxAttempts   \* bound: logins under way at once

VARIABLES
    fails,    \* failures of the entry
    block,    \* seconds the key is still blocked; negative once the block is over
    trying,   \* logins that were let in and have not ended
    since,    \* for the check: seconds since the last failure, at most a day
    owed,     \* for the check: what the last failure must cost, in seconds
    early     \* for the check: a login was let in before its time
throttleVars == <<fails, block, trying, since, owed, early>>

Cap == 900
Hour == 3600
Day == 86400
\* An entry that is not there, or was never blocked, has been free for longer than anyone looks back.
Never == -Day

\* 2^n seconds in nanoseconds are 2^(n + 9) * 1953125.  Modulo 2^64 that is 2^(n + 9) times Odd(n), which is zero
\* from n = 55 on and stands for a negative number when its top bit is set; up to n = 33 nothing is lost.
Odd(n) == IF n >= 55 THEN 0 ELSE 1953125 % 2^(55 - n)
TopBit(n) == n <= 54 /\ Odd(n) >= 2^(54 - n)
Backoff(n) ==
    IF n < 10 THEN 2^n
    ELSE IF n \in 34..54 /\ TopBit(n) THEN -1
    ELSE IF n >= 55 THEN 0
    ELSE Cap + 1  \* an odd multiple of at least 2^19 nanoseconds past the cap
\* Seconds blocked after a failure.
BlockUncapped(f) == IF Backoff(f - 3) > Cap THEN Cap ELSE Backoff(f - 3)  \* mutant: what wrapped is not looked for
Block(f) == IF Backoff(f - 3) > Cap \/ Backoff(f - 3) <= 0 THEN Cap ELSE Backoff(f - 3)

ThrInit == fails = 0 /\ block = Never /\ trying = 0 /\ since = Day /\ owed = 0 /\ early = FALSE

Allowed == block <= 0
\* What the N-th failure in a row must cost: min(2^(N - 3), cap) seconds.
Due(f) == IF f < 3 THEN 0 ELSE IF f - 3 >= 10 THEN Cap ELSE 2^(f - 3)
Attempt ==
    /\ Allowed /\ trying < MaxAttempts
    /\ trying' = trying + 1
    /\ early' = (early \/ since < owed)
    /\ UNCHANGED <<fails, block, since, owed>>
Fail ==
    /\ trying > 0 /\ fails < MaxFails
    /\ fails' = fails + 1 /\ trying' = trying - 1 /\ since' = 0 /\ owed' = Due(fails + 1)
    /\ block' = IF fails + 1 >= 3 THEN Block(fails + 1) ELSE block
    /\ UNCHANGED early
Ok ==
    /\ trying > 0
    /\ fails' = 0 /\ block' = Never /\ trying' = trying - 1 /\ owed' = 0
    /\ UNCHANGED <<since, early>>
\* An entry whose block ended an hour ago is dropped; so is one that never had a block.
SweepAll == TRUE  \* mutant: every entry is dropped
Cold == block < -Hour
Sweep ==
    /\ fails > 0 /\ Cold
    /\ fails' = 0 /\ block' = Never
    /\ UNCHANGED <<trying, since, owed, early>>
Pass(d) ==
    /\ since < Day /\ d > 0
    /\ block' = IF block - d < Never THEN Never ELSE block - d
    /\ since' = IF since + d > Day THEN Day ELSE since + d
    /\ UNCHANGED <<fails, trying, owed, early>>

ThrNext == Attempt \/ Fail \/ Ok \/ Sweep \/ \E d \in {block - 1, block, Hour + 1} : Pass(d)

-----------------------------------------------------------------------------
ThrottleTyped == fails \in 0..MaxFails /\ block \in Never..Cap /\ trying \in 0..MaxAttempts /\ since \in 0..Day
\* Nobody gets in before the last failure has cost its time, and no block is longer than the cap.
ThrottleSound == ThrottleTyped /\ ~early
=============================================================================
