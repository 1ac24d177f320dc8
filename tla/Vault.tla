------------------------------- MODULE Vault -------------------------------
(***************************************************************************)
(* One vault (internal/vault): the envelope held in memory, the key held   *)
(* while it is unlocked, the file, and the keyring of the operating system *)
(* that may remember the key.  Every operation holds the mutex, so it is   *)
(* one action; what can go wrong is that writing the file fails, that the  *)
(* process dies, and that keys and envelopes of different times meet.      *)
(*                                                                         *)
(* A key is the password and the salt it is derived from; a sealed secret  *)
(* is its value with the key that opens it.                                *)
(***************************************************************************)
EXTENDS Naturals

CONSTANTS
    SecretIds, Values, Passwords,
    Nothing,       \* no key, no value
    AutoLock,      \* ticks of idleness after which the vault locks itself
    MaxSalts,      \* bound: vaults ever made
    MaxWrites      \* bound: secrets written or deleted, files imported
ASSUME VaultAssumption ==
    /\ AutoLock \in Nat \ {0} /\ MaxSalts \in Nat /\ MaxWrites \in Nat
    /\ Nothing \notin Values

VARIABLES
    env,        \* the envelope in memory
    key,        \* the key in memory, or Nothing
    idle,       \* ticks since the last activity
    file,       \* the envelope in the file; that of salt 0 when there is none
    keyring,    \* the key the system remembers, or Nothing
    archive,    \* the last envelope exported
    salts,      \* salts drawn
    writes,     \* writes done
    told,       \* for the check: what every secret was last said to be, or "unsure" after a write that failed
    read        \* for the check: the last value resolved, what it was expected to be, and how long the vault was idle
vaultVars == <<env, key, idle, file, keyring, archive, salts, writes, told, read>>

Keys == [password : Passwords, salt : 1..MaxSalts]
\* Verifier is the key that sealed the sentinel.
NoKeyOf == [password |-> Nothing, salt |-> 0]
Sealed == [by : Keys, value : Values]
Envelopes == [verifier : Keys \cup {NoKeyOf}, secrets : [SecretIds -> Sealed \cup {Nothing}]]
Empty(verifier) == [verifier |-> verifier, secrets |-> [s \in SecretIds |-> Nothing]]
Initialised(e) == e.verifier # NoKeyOf

VaultInit ==
    /\ env = Empty(NoKeyOf) /\ file = Empty(NoKeyOf) /\ archive = Empty(NoKeyOf)
    /\ key = Nothing /\ keyring = Nothing /\ idle = 0 /\ salts = 0 /\ writes = 0
    /\ told = [s \in SecretIds |-> Nothing]
    /\ read = [value |-> Nothing, expected |-> Nothing, idle |-> 0]

\* Write the envelope to the file: it may fail, and then the memory keeps what the file lacks.  What a write of
\* the secrets in "about" is told to be is what it left in memory, or unsure.
ValueIn(e, s) == IF e.secrets[s] = Nothing THEN Nothing ELSE e.secrets[s].value
Persist(about) ==
    \E ok \in BOOLEAN :
    /\ file' = IF ok THEN env' ELSE file
    /\ told' = [s \in SecretIds |-> IF s \notin about THEN told[s] ELSE IF ok THEN ValueIn(env', s) ELSE "unsure"]

-----------------------------------------------------------------------------
(* Operations.                                                             *)

LockDue == key # Nothing /\ idle >= AutoLock
NeverLocks == key  \* mutant: the idle time is not looked at
MaybeAutoLock == IF LockDue THEN Nothing ELSE key
Active == idle' = 0

InitVault(password) ==
    /\ ~Initialised(env) /\ salts < MaxSalts
    /\ salts' = salts + 1
    /\ LET k == [password |-> password, salt |-> salts + 1] IN env' = Empty(k) /\ key' = k
    /\ Active /\ Persist(SecretIds)
    /\ UNCHANGED <<keyring, archive, writes, read>>

Derive(password, e) == [password |-> password, salt |-> e.verifier.salt]
AnyPassword(password, e) == Initialised(e)  \* mutant: the verifier is not opened
Verifies(password, e) == Initialised(e) /\ Derive(password, e) = e.verifier
Unlock(password) ==
    /\ Verifies(password, env)
    /\ key' = Derive(password, env) /\ Active
    /\ UNCHANGED <<env, file, keyring, archive, salts, writes, told, read>>
Lock ==
    /\ key' = Nothing
    /\ UNCHANGED <<env, idle, file, keyring, archive, salts, writes, told, read>>

Remember ==
    /\ key' = MaybeAutoLock
    /\ keyring' = IF key' = Nothing THEN keyring ELSE key'
    /\ UNCHANGED <<env, idle, file, archive, salts, writes, told, read>>
Forget ==
    /\ keyring' = Nothing
    /\ UNCHANGED <<env, key, idle, file, archive, salts, writes, told, read>>
\* A remembered key that does not open the verifier is dropped.
Remembered(e) == keyring # Nothing  \* mutant: the remembered key is used as it is
Recalled(e) == keyring # Nothing /\ keyring = e.verifier
UnlockWithKeyring ==
    /\ Initialised(env) /\ key = Nothing
    /\ key' = IF Recalled(env) THEN keyring ELSE Nothing
    /\ keyring' = IF Recalled(env) THEN keyring ELSE Nothing
    /\ idle' = IF Recalled(env) THEN 0 ELSE idle
    /\ UNCHANGED <<env, file, archive, salts, writes, told, read>>

\* Status applies the auto-lock; Touch does not, and keeps a vault open that was due.
Status ==
    /\ key' = MaybeAutoLock
    /\ UNCHANGED <<env, idle, file, keyring, archive, salts, writes, told, read>>
Touch ==
    /\ idle' = IF key = Nothing THEN idle ELSE 0
    /\ UNCHANGED <<env, key, file, keyring, archive, salts, writes, told, read>>

Put(s, value) ==
    /\ writes < MaxWrites
    /\ key' = MaybeAutoLock
    /\ IF key' = Nothing THEN UNCHANGED <<env, idle, file, writes, told>>
       ELSE /\ env' = [env EXCEPT !.secrets[s] = [by |-> key', value |-> value]]
            /\ Active /\ Persist({s}) /\ writes' = writes + 1
    /\ UNCHANGED <<keyring, archive, salts, read>>
\* Deleting needs no key.
Delete(s) ==
    /\ env.secrets[s] # Nothing /\ writes < MaxWrites
    /\ env' = [env EXCEPT !.secrets[s] = Nothing]
    /\ Persist({s}) /\ writes' = writes + 1
    /\ UNCHANGED <<key, idle, keyring, archive, salts, read>>
\* A secret opens with the key that sealed it, and with no other.
Resolve(s) ==
    /\ key' = MaybeAutoLock
    /\ IF key' # Nothing /\ env.secrets[s] # Nothing
       THEN /\ read' = [value |-> IF env.secrets[s].by = key' THEN env.secrets[s].value ELSE Nothing,
                        expected |-> told[s], idle |-> idle]
            /\ Active
       ELSE UNCHANGED <<idle, read>>
    /\ UNCHANGED <<env, file, keyring, archive, salts, writes, told>>

Export ==
    /\ archive' = env
    /\ UNCHANGED <<env, key, idle, file, keyring, salts, writes, told, read>>
KeyStays == key' = key /\ keyring' = keyring  \* mutant: the keys of the vault that is replaced are kept
KeysDropped == key' = Nothing /\ keyring' = Nothing
ImportBytes(password) ==
    /\ Verifies(password, archive) /\ writes < MaxWrites
    /\ env' = archive /\ KeysDropped
    /\ Persist(SecretIds) /\ writes' = writes + 1
    /\ UNCHANGED <<idle, archive, salts, read>>

\* The process starts again: the file is loaded, and the keyring tried.  What was told of a secret stays, unless
\* the write failed and the file has either the old or the new.
Restart ==
    /\ env' = file
    /\ key' = IF Initialised(file) /\ Recalled(file) THEN keyring ELSE Nothing
    /\ keyring' = IF Initialised(file) /\ ~Recalled(file) THEN Nothing ELSE keyring
    /\ idle' = 0
    /\ told' = [s \in SecretIds |-> IF told[s] = "unsure" THEN ValueIn(file, s) ELSE told[s]]
    /\ UNCHANGED <<file, archive, salts, writes, read>>
Tick ==
    /\ idle < AutoLock /\ idle' = idle + 1
    /\ UNCHANGED <<env, key, file, keyring, archive, salts, writes, told, read>>

VaultNext ==
    \/ \E p \in Passwords : InitVault(p) \/ Unlock(p) \/ ImportBytes(p)
    \/ Lock \/ Remember \/ Forget \/ UnlockWithKeyring \/ Status \/ Touch
    \/ \E s \in SecretIds : Delete(s) \/ Resolve(s) \/ \E v \in Values : Put(s, v)
    \/ Export \/ Restart \/ Tick

-----------------------------------------------------------------------------
TypeOK ==
    /\ env \in Envelopes /\ file \in Envelopes /\ archive \in Envelopes
    /\ key \in Keys \cup {Nothing} /\ keyring \in Keys \cup {Nothing}
    /\ idle \in 0..AutoLock /\ salts \in 0..MaxSalts /\ writes \in 0..MaxWrites
    /\ told \in [SecretIds -> Values \cup {Nothing, "unsure"}]
\* In memory, in the file and in an export, every secret is sealed by the key the verifier stands for.
OneKey(e) == \A s \in SecretIds : e.secrets[s] # Nothing => e.secrets[s].by = e.verifier
\* The key held is the one the verifier stands for: no key outlives the envelope it opens.
KeyFits == key # Nothing => key = env.verifier
\* What a write was told to have stored is in the file, whatever failed before or after it.
ToldIsStored == \A s \in SecretIds : told[s] # "unsure" => ValueIn(file, s) = told[s]
\* A value resolved is the one last told to be stored, and none is resolved once the idle time is over.
ReadIsTold == read.value # Nothing => read.expected \in {read.value, "unsure"} /\ read.idle < AutoLock
NoEmptyRead == read.expected # Nothing => read.value # Nothing
VaultSound == OneKey(env) /\ OneKey(file) /\ OneKey(archive) /\ KeyFits /\ ToldIsStored /\ ReadIsTold /\ NoEmptyRead
=============================================================================
