-------------------------- MODULE Services_proofs --------------------------
(***************************************************************************)
(* Proofs about a vault, for any secrets, values and passwords, any idle   *)
(* time, and writes that may fail at every step, about the sessions to the *)
(* MCP servers, for any servers, requests and changes, about the exchanges *)
(* with a model, for any exchanges, slots and approvals, about the         *)
(* accounts, for any users, sessions and requests under way, about the     *)
(* throttle of the logins, about the monitors, for any monitors,           *)
(* thresholds and requests, and about the services together.               *)
(***************************************************************************)
EXTENDS MCServices, FiniteSetTheorems, TLAPS

-----------------------------------------------------------------------------
(* A vault: the invariant.                                                 *)

VaultSpec == VaultInit /\ [][VaultNext]_vaultVars

\* What is told of a secret and not unsure is also what memory holds: a write that fails makes every secret it was
\* about unsure, so a later write of another secret cannot store something nobody was told of.
MemoryAsTold == \A s \in SecretIds : told[s] # "unsure" => ValueIn(env, s) = told[s]
IInv == TypeOK /\ MemoryAsTold /\ VaultSound

USE VaultAssumption

-----------------------------------------------------------------------------
(* A vault: the parts of an envelope.                                      *)

LEMMA EmptyFits ==
  ASSUME NEW k \in Keys \cup {NoKeyOf}
  PROVE  Empty(k) \in Envelopes /\ OneKey(Empty(k)) /\ \A s \in SecretIds : ValueIn(Empty(k), s) = Nothing
BY DEF Empty, Envelopes, OneKey, ValueIn

LEMMA SetFits ==
  ASSUME NEW e \in Envelopes, NEW s \in SecretIds, NEW x \in Sealed \cup {Nothing}
  PROVE  /\ [e EXCEPT !.secrets[s] = x] \in Envelopes
         /\ [e EXCEPT !.secrets[s] = x].verifier = e.verifier
         /\ [e EXCEPT !.secrets[s] = x].secrets[s] = x
         /\ \A t \in SecretIds : t # s => [e EXCEPT !.secrets[s] = x].secrets[t] = e.secrets[t]
BY DEF Envelopes

\* A secret of an envelope that is sealed holds a value.
LEMMA SealedValue ==
  ASSUME NEW e \in Envelopes, NEW s \in SecretIds
  PROVE  /\ ValueIn(e, s) \in Values \cup {Nothing}
         /\ e.secrets[s] # Nothing => ValueIn(e, s) = e.secrets[s].value /\ e.secrets[s].value \in Values
BY DEF Envelopes, Sealed, ValueIn

LEMMA KeyOfInitialised ==
  ASSUME NEW e \in Envelopes, Initialised(e)
  PROVE  e.verifier \in Keys
BY DEF Envelopes, Initialised

LEMMA VerifiedKey ==
  ASSUME NEW e \in Envelopes, NEW p \in Passwords, Verifies(p, e)
  PROVE  Derive(p, e) = e.verifier /\ e.verifier \in Keys
BY KeyOfInitialised DEF Verifies

-----------------------------------------------------------------------------
(* Writing: whatever the write does, what is told agrees with the memory   *)
(* and with the file, as long as the memory changed only what it is about. *)

LEMMA PersistKeeps ==
  ASSUME TypeOK, MemoryAsTold, ToldIsStored, OneKey(file),
         NEW about \in SUBSET SecretIds, Persist(about),
         env' \in Envelopes, OneKey(env'),
         \A s \in SecretIds : s \notin about => env'.secrets[s] = env.secrets[s]
  PROVE  /\ file' \in Envelopes /\ told' \in [SecretIds -> Values \cup {Nothing, "unsure"}]
         /\ MemoryAsTold' /\ ToldIsStored' /\ OneKey(file)'
<1>1. PICK ok \in BOOLEAN :
        /\ file' = IF ok THEN env' ELSE file
        /\ told' = [s \in SecretIds |-> IF s \notin about THEN told[s] ELSE IF ok THEN ValueIn(env', s) ELSE "unsure"]
  BY DEF Persist
<1>2. file' \in Envelopes /\ OneKey(file)'
  BY <1>1 DEF TypeOK, OneKey
<1>3. \A s \in SecretIds : ValueIn(env', s) \in Values \cup {Nothing}
  BY SealedValue
<1>4. told' \in [SecretIds -> Values \cup {Nothing, "unsure"}]
  BY <1>1, <1>3 DEF TypeOK
<1>5. \A s \in SecretIds : s \notin about => ValueIn(env', s) = ValueIn(env, s)
  BY DEF ValueIn
<1>6. MemoryAsTold'
  <2> SUFFICES ASSUME NEW s \in SecretIds, told'[s] # "unsure" PROVE ValueIn(env', s) = told'[s]
    BY DEF MemoryAsTold, ValueIn
  <2> QED
    BY <1>1, <1>5 DEF MemoryAsTold
<1>7. ToldIsStored'
  <2> SUFFICES ASSUME NEW s \in SecretIds, told'[s] # "unsure" PROVE ValueIn(file', s) = told'[s]
    BY DEF ToldIsStored, ValueIn
  <2>1. CASE file' = env'
    BY <1>6, <2>1 DEF MemoryAsTold, ValueIn
  <2>2. CASE file' # env'
    BY <1>1, <2>2 DEF ToldIsStored
  <2> QED
    BY <2>1, <2>2
<1> QED
  BY <1>2, <1>4, <1>6, <1>7

-----------------------------------------------------------------------------
(* The invariant, operation by operation.                                  *)

LEMMA InitHolds == VaultInit => IInv
<1> SUFFICES ASSUME VaultInit PROVE IInv
  OBVIOUS
<1>1. /\ env \in Envelopes /\ file \in Envelopes /\ archive \in Envelopes
      /\ OneKey(env) /\ OneKey(file) /\ OneKey(archive)
      /\ \A s \in SecretIds : ValueIn(env, s) = Nothing /\ ValueIn(file, s) = Nothing
  BY EmptyFits DEF VaultInit
<1>2. TypeOK
  BY <1>1 DEF VaultInit, TypeOK
<1>3. MemoryAsTold /\ ToldIsStored
  BY <1>1 DEF VaultInit, MemoryAsTold, ToldIsStored
<1>4. KeyFits /\ ReadIsTold /\ NoEmptyRead
  BY DEF VaultInit, KeyFits, ReadIsTold, NoEmptyRead
<1> QED
  BY <1>1, <1>2, <1>3, <1>4 DEF IInv, VaultSound

\* After the idle time has been looked at, a key that is left is the one held before, and its time is not over.
LEMMA AutoLocked ==
  ASSUME TypeOK, key' = MaybeAutoLock
  PROVE  /\ key' \in Keys \cup {Nothing}
         /\ key' # Nothing => key' = key /\ idle < AutoLock
BY DEF TypeOK, MaybeAutoLock, LockDue

\* Steps that leave the envelopes and what was told of them alone.
LEMMA KeyStep ==
  ASSUME IInv,
         \/ \E p \in Passwords : Unlock(p)
         \/ Lock \/ Remember \/ Forget \/ UnlockWithKeyring \/ Status \/ Touch \/ Tick \/ UNCHANGED vaultVars
  PROVE  IInv'
<1> USE DEF IInv
<1>1. /\ UNCHANGED <<env, file, archive, told, read>>
      /\ salts' = salts /\ writes' = writes
  BY DEF Unlock, Lock, Remember, Forget, UnlockWithKeyring, Status, Touch, Tick, vaultVars
<1>2. /\ key' \in Keys \cup {Nothing} /\ keyring' \in Keys \cup {Nothing} /\ idle' \in 0..AutoLock
      /\ key' # Nothing => key' = env.verifier
  <2>1. ASSUME NEW p \in Passwords, Unlock(p) PROVE <1>2!1 /\ <1>2!2
    BY <2>1, VerifiedKey DEF Unlock, Active, TypeOK
  <2>2. CASE Lock \/ Forget \/ Touch \/ Tick \/ UNCHANGED vaultVars
    BY <2>2 DEF Lock, Forget, Touch, Tick, vaultVars, TypeOK, VaultSound, KeyFits
  <2>3. CASE Remember \/ Status
    BY <2>3, AutoLocked DEF Remember, Status, TypeOK, VaultSound, KeyFits
  <2>4. CASE UnlockWithKeyring
    BY <2>4 DEF UnlockWithKeyring, Recalled, TypeOK
  <2> QED
    BY <2>1, <2>2, <2>3, <2>4
<1>3. TypeOK'
  BY <1>1, <1>2 DEF TypeOK
<1>4. MemoryAsTold' /\ ToldIsStored' /\ ReadIsTold' /\ NoEmptyRead'
  BY <1>1 DEF VaultSound, MemoryAsTold, ToldIsStored, ReadIsTold, NoEmptyRead, ValueIn
<1>5. KeyFits' /\ OneKey(env)' /\ OneKey(file)' /\ OneKey(archive)'
  BY <1>1, <1>2 DEF VaultSound, KeyFits, OneKey
<1> QED
  BY <1>3, <1>4, <1>5 DEF VaultSound

\* Steps that write: the memory changes, the file may follow, and the reading is left alone.
LEMMA WriteStep ==
  ASSUME IInv, NEW about \in SUBSET SecretIds, Persist(about),
         env' \in Envelopes, OneKey(env'),
         \A s \in SecretIds : s \notin about => env'.secrets[s] = env.secrets[s],
         key' \in Keys \cup {Nothing}, key' # Nothing => key' = env'.verifier,
         keyring' \in Keys \cup {Nothing}, idle' \in 0..AutoLock,
         salts' \in 0..MaxSalts, writes' \in 0..MaxWrites, UNCHANGED <<archive, read>>
  PROVE  IInv'
<1>1. /\ file' \in Envelopes /\ told' \in [SecretIds -> Values \cup {Nothing, "unsure"}]
      /\ MemoryAsTold' /\ ToldIsStored' /\ OneKey(file)'
  BY PersistKeeps DEF IInv, VaultSound
<1>2. TypeOK'
  BY <1>1 DEF IInv, TypeOK
<1>3. OneKey(env)' /\ OneKey(archive)' /\ KeyFits'
  BY DEF IInv, VaultSound, OneKey, KeyFits
<1>4. ReadIsTold' /\ NoEmptyRead'
  BY DEF IInv, VaultSound, ReadIsTold, NoEmptyRead
<1> QED
  BY <1>1, <1>2, <1>3, <1>4 DEF IInv, VaultSound

LEMMA InitVaultStep == ASSUME IInv, NEW p \in Passwords, InitVault(p) PROVE IInv'
<1> DEFINE k == [password |-> p, salt |-> salts + 1]
<1>1. k \in Keys /\ env' = Empty(k) /\ key' = k /\ salts' \in 0..MaxSalts
  BY DEF InitVault, IInv, TypeOK, Keys
<1>2. env' \in Envelopes /\ OneKey(env') /\ env'.verifier = k
  BY <1>1, EmptyFits DEF Empty
<1>3. /\ Persist(SecretIds) /\ keyring' \in Keys \cup {Nothing} /\ idle' \in 0..AutoLock
      /\ writes' \in 0..MaxWrites /\ UNCHANGED <<archive, read>>
  BY DEF InitVault, Active, IInv, TypeOK
<1> QED
  BY <1>1, <1>2, <1>3, WriteStep

LEMMA PutStep == ASSUME IInv, NEW s \in SecretIds, NEW v \in Values, Put(s, v) PROVE IInv'
<1>1. CASE key' = Nothing
  <2>1. UNCHANGED <<env, idle, file, writes, told, keyring, archive, salts, read>>
    BY <1>1 DEF Put
  <2>2. TypeOK' /\ MemoryAsTold' /\ ToldIsStored' /\ OneKey(env)' /\ OneKey(file)' /\ OneKey(archive)'
    BY <1>1, <2>1 DEF IInv, VaultSound, TypeOK, MemoryAsTold, ToldIsStored, OneKey, ValueIn
  <2>3. KeyFits' /\ ReadIsTold' /\ NoEmptyRead'
    BY <1>1, <2>1 DEF IInv, VaultSound, KeyFits, ReadIsTold, NoEmptyRead
  <2> QED
    BY <2>2, <2>3 DEF IInv, VaultSound
<1>2. CASE key' # Nothing
  <2> DEFINE x == [by |-> key', value |-> v]
  <2>1. key' = key /\ key' \in Keys /\ key' = env.verifier /\ env \in Envelopes
    BY <1>2, AutoLocked DEF Put, IInv, VaultSound, KeyFits, TypeOK
  <2>2. /\ env' = [env EXCEPT !.secrets[s] = x] /\ Persist({s}) /\ idle' = 0 /\ writes' = writes + 1 /\ writes < MaxWrites
        /\ UNCHANGED <<keyring, archive, salts, read>>
    BY <1>2 DEF Put, Active
  <2>3. x \in Sealed /\ x.by = key'
    BY <2>1 DEF Sealed
  <2>4. /\ env' \in Envelopes /\ env'.verifier = env.verifier /\ env'.secrets[s] = x
        /\ \A t \in SecretIds : t # s => env'.secrets[t] = env.secrets[t]
    BY <2>1, <2>2, <2>3, SetFits
  <2>5. OneKey(env')
    BY <2>1, <2>3, <2>4 DEF OneKey, IInv, VaultSound
  <2>6. /\ keyring' \in Keys \cup {Nothing} /\ idle' \in 0..AutoLock /\ salts' \in 0..MaxSalts /\ writes' \in 0..MaxWrites
    BY <2>2 DEF IInv, TypeOK
  <2>7. {s} \in SUBSET SecretIds /\ \A t \in SecretIds : t \notin {s} => env'.secrets[t] = env.secrets[t]
    BY <2>4
  <2> QED
    BY <2>1, <2>2, <2>4, <2>5, <2>6, <2>7, WriteStep
<1> QED
  BY <1>1, <1>2

LEMMA DeleteStep == ASSUME IInv, NEW s \in SecretIds, Delete(s) PROVE IInv'
<1>1. /\ env' = [env EXCEPT !.secrets[s] = Nothing] /\ Persist({s}) /\ writes' = writes + 1 /\ writes < MaxWrites
      /\ UNCHANGED <<key, idle, keyring, archive, salts, read>> /\ env \in Envelopes
  BY DEF Delete, IInv, TypeOK
<1>2. /\ env' \in Envelopes /\ env'.verifier = env.verifier /\ env'.secrets[s] = Nothing
      /\ \A t \in SecretIds : t # s => env'.secrets[t] = env.secrets[t]
  BY <1>1, SetFits
<1>3. OneKey(env')
  BY <1>2 DEF OneKey, IInv, VaultSound
<1>4. /\ keyring' \in Keys \cup {Nothing} /\ key' \in Keys \cup {Nothing} /\ idle' \in 0..AutoLock
      /\ salts' \in 0..MaxSalts /\ writes' \in 0..MaxWrites
  BY <1>1 DEF IInv, TypeOK
<1>5. key' # Nothing => key' = env'.verifier
  BY <1>1, <1>2 DEF IInv, VaultSound, KeyFits
<1>6. {s} \in SUBSET SecretIds /\ \A t \in SecretIds : t \notin {s} => env'.secrets[t] = env.secrets[t]
  BY <1>2
<1> QED
  BY <1>1, <1>2, <1>3, <1>4, <1>5, <1>6, WriteStep

LEMMA ImportStep == ASSUME IInv, NEW p \in Passwords, ImportBytes(p) PROVE IInv'
<1>1. /\ env' = archive /\ key' = Nothing /\ keyring' = Nothing /\ Persist(SecretIds)
      /\ writes' = writes + 1 /\ writes < MaxWrites /\ UNCHANGED <<idle, archive, salts, read>>
  BY DEF ImportBytes, KeysDropped
<1>2. /\ env' \in Envelopes /\ OneKey(env') /\ idle' \in 0..AutoLock /\ salts' \in 0..MaxSalts /\ writes' \in 0..MaxWrites
  BY <1>1 DEF IInv, VaultSound, TypeOK
<1> QED
  BY <1>1, <1>2, WriteStep

LEMMA ExportStep == ASSUME IInv, Export PROVE IInv'
<1>1. TypeOK' /\ MemoryAsTold' /\ ToldIsStored' /\ OneKey(env)' /\ OneKey(file)' /\ OneKey(archive)'
  BY DEF Export, IInv, VaultSound, TypeOK, MemoryAsTold, ToldIsStored, OneKey, ValueIn
<1>2. KeyFits' /\ ReadIsTold' /\ NoEmptyRead'
  BY DEF Export, IInv, VaultSound, KeyFits, ReadIsTold, NoEmptyRead
<1> QED
  BY <1>1, <1>2 DEF IInv, VaultSound

\* A secret that is resolved opens, because one key sealed them all; what comes out is what was told, or unsure.
LEMMA ResolveStep == ASSUME IInv, NEW s \in SecretIds, Resolve(s) PROVE IInv'
<1>1. UNCHANGED <<env, file, keyring, archive, salts, writes, told>>
  BY DEF Resolve
<1>2. key' \in Keys \cup {Nothing} /\ (key' # Nothing => key' = env.verifier /\ idle < AutoLock)
  BY AutoLocked DEF Resolve, IInv, VaultSound, KeyFits
<1>3. idle' \in 0..AutoLock
  BY DEF Resolve, Active, IInv, TypeOK
<1>4. TypeOK' /\ MemoryAsTold' /\ ToldIsStored' /\ OneKey(env)' /\ OneKey(file)' /\ OneKey(archive)' /\ KeyFits'
  BY <1>1, <1>2, <1>3 DEF IInv, VaultSound, TypeOK, MemoryAsTold, ToldIsStored, OneKey, ValueIn, KeyFits
<1>5. ReadIsTold' /\ NoEmptyRead'
  <2>1. CASE key' # Nothing /\ env.secrets[s] # Nothing
    <3>1. read' = [value |-> env.secrets[s].value, expected |-> told[s], idle |-> idle]
      BY <2>1, <1>2 DEF Resolve, IInv, VaultSound, OneKey
    <3>2. env.secrets[s].value \in Values /\ ValueIn(env, s) = env.secrets[s].value
      BY <2>1, SealedValue DEF IInv, TypeOK
    <3>3. told[s] \in {env.secrets[s].value, "unsure"}
      BY <3>2 DEF IInv, MemoryAsTold
    <3> QED
      BY <2>1, <1>2, <3>1, <3>2, <3>3 DEF ReadIsTold, NoEmptyRead
  <2>2. CASE ~(key' # Nothing /\ env.secrets[s] # Nothing)
    BY <2>2 DEF Resolve, IInv, VaultSound, ReadIsTold, NoEmptyRead
  <2> QED
    BY <2>1, <2>2
<1> QED
  BY <1>4, <1>5 DEF IInv, VaultSound

LEMMA RestartStep == ASSUME IInv, Restart PROVE IInv'
<1>1. env' = file /\ idle' = 0 /\ UNCHANGED <<file, archive, salts, writes, read>>
  BY DEF Restart
<1>2. key' \in Keys \cup {Nothing} /\ keyring' \in Keys \cup {Nothing} /\ (key' # Nothing => key' = file.verifier)
  BY DEF Restart, Recalled, IInv, TypeOK
<1>3. /\ told' = [s \in SecretIds |-> IF told[s] = "unsure" THEN ValueIn(file, s) ELSE told[s]]
      /\ \A s \in SecretIds : ValueIn(file, s) \in Values \cup {Nothing}
  BY SealedValue DEF Restart, IInv, TypeOK
<1>4. TypeOK'
  BY <1>1, <1>2, <1>3 DEF IInv, TypeOK
<1>5. \A s \in SecretIds : told'[s] # "unsure" => ValueIn(file, s) = told'[s]
  BY <1>3 DEF IInv, VaultSound, ToldIsStored
<1>6. MemoryAsTold' /\ ToldIsStored'
  BY <1>1, <1>5 DEF MemoryAsTold, ToldIsStored, ValueIn
<1>7. OneKey(env)' /\ OneKey(file)' /\ OneKey(archive)' /\ KeyFits' /\ ReadIsTold' /\ NoEmptyRead'
  BY <1>1, <1>2 DEF IInv, VaultSound, OneKey, KeyFits, ReadIsTold, NoEmptyRead
<1> QED
  BY <1>4, <1>6, <1>7 DEF IInv, VaultSound

LEMMA StepHolds == IInv /\ [VaultNext]_vaultVars => IInv'
<1> SUFFICES ASSUME IInv, [VaultNext]_vaultVars PROVE IInv'
  OBVIOUS
<1>1. CASE \E p \in Passwords : InitVault(p) \/ ImportBytes(p)
  BY <1>1, InitVaultStep, ImportStep
<1>2. CASE (\E p \in Passwords : Unlock(p)) \/ Lock \/ Remember \/ Forget \/ UnlockWithKeyring \/ Status \/ Touch \/ Tick \/ UNCHANGED vaultVars
  BY <1>2, KeyStep
<1>3. CASE \E s \in SecretIds : Delete(s) \/ Resolve(s) \/ \E v \in Values : Put(s, v)
  BY <1>3, DeleteStep, ResolveStep, PutStep
<1>4. CASE Export \/ Restart
  BY <1>4, ExportStep, RestartStep
<1> QED
  BY <1>1, <1>2, <1>3, <1>4 DEF VaultNext

-----------------------------------------------------------------------------
(* A vault: the theorem.                                                   *)

\* Every secret is sealed by the key that opens the vault; what a write was told to have stored is in the file and
\* in memory, whatever failed or restarted in between; a value resolved is the one last stored, and none is resolved
\* once the idle time is over (internal/vault/vault.go).
THEOREM VaultIsSound == VaultSpec => []VaultSound
<1>1. VaultInit => IInv
  BY InitHolds
<1>2. IInv /\ [VaultNext]_vaultVars => IInv'
  BY StepHolds
<1>3. IInv => VaultSound
  BY DEF IInv
<1> QED
  BY <1>1, <1>2, <1>3, PTL DEF VaultSpec

HIDE VaultAssumption

-----------------------------------------------------------------------------
(* The sessions to the MCP servers: the invariant.                         *)

Places == {"idle", "get", "peek", "find", "again", "use", "look", "dial", "register", "list", "store", "ok", "err", "drop",
           "close", "write", "erase"}
Sessions == [server : Servers \cup {0}, cfg : Nat, open : BOOLEAN, alive : BOOLEAN, list : Nat, fresh : BOOLEAN]
Requests == [kind : Kinds \cup {"none"}, server : Servers \cup {0}, at : Places, cfg : Nat, session : Ids \cup {0}, list : Nat,
             then : {"idle", "get", "erase", "err"}, met : BOOLEAN]
McpTypes ==
    /\ configs \in [Servers -> Nat] /\ offered \in [Servers -> Nat]
    /\ conns \in [Servers -> Ids \cup {0}] /\ health \in [Servers -> {"none", "connected", "error", "down"}]
    /\ sessions \in [Ids -> Sessions]
    /\ work \in [Slots -> Requests]
    /\ news \in SUBSET Ids /\ calm \in BOOLEAN
    /\ \A w \in Slots : At(w, "idle") <=> Server(w) = 0
    /\ \A i \in Ids : sessions[i].open \/ i \in news => sessions[i].server \in Servers
\* A session in the hands of a request is open, registered nowhere, and in no other hands: its request will register or
\* close it.
Holds(w, i) == work[w].session = i /\ work[w].at \in {"register", "close"}
InHand ==
    /\ \A w \in Slots : At(w, "register") => work[w].session # 0
    /\ \A w \in Slots, i \in Ids : Holds(w, i) =>
        /\ sessions[i].open /\ sessions[i].server = Server(w)
        /\ \A s \in Servers : conns[s] # i
        /\ \A v \in Slots : Holds(v, i) => v = w
\* A request is alone at its server now.
Single(w) == \A v \in Slots : v # w => work[v].server # Server(w)
\* Only a deletion erases a configuration, and only a change writes one.
Roles ==
    /\ \A w \in Slots : work[w].then = "erase" \/ At(w, "erase") => work[w].kind = "delete"
    /\ \A w \in Slots : At(w, "write") => work[w].kind = "put"
\* A request nobody met is alone, and no session was registered since it looked for one.
AloneThen == \A w \in Slots : Alone(w) /\ ~At(w, "idle") =>
        /\ Single(w)
        /\ At(w, "dial") \/ At(w, "register") => conns[Server(w)] = 0
\* As long as the history is calm: a request that changes, removes or tests, or fails, is alone at its server, and what a
\* request read of the configuration, the session and the list is still so.
InCalm(w) ==
        /\ work[w].kind \in {"put", "delete", "test"} \/ work[w].at \in {"err", "drop", "close"} => Single(w)
        /\ work[w].at \in {"err", "close", "erase"} => conns[Server(w)] = 0
        /\ work[w].at \in {"look", "dial", "register"} => work[w].cfg = configs[Server(w)]
        /\ At(w, "register") => sessions[work[w].session].cfg = work[w].cfg /\ ~sessions[work[w].session].fresh
        /\ work[w].at \in {"list", "store", "ok"} => conns[Server(w)] = work[w].session /\ work[w].session # 0
        /\ At(w, "store") => work[w].list = offered[Server(w)]
CalmThen == calm => \A w \in Slots : ~At(w, "idle") => InCalm(w)
\* A server is as it is shown, but for the request that is about to mark it, and its session is the one configured, but
\* for the request that is about to drop it.
Settling(s) == \E w \in Slots : Server(w) = s /\ work[w].at \in {"list", "store", "ok", "drop"}
KnownInCalm(s) ==
        /\ health[s] = "connected" => conns[s] # 0 \/ \E w \in Slots : Server(w) = s /\ At(w, "close")
        /\ conns[s] # 0 /\ health[s] # "connected" => Settling(s)
        /\ conns[s] # 0 => \/ sessions[conns[s]].cfg = configs[s]
                           \/ \E w \in Slots : Server(w) = s /\ At(w, "drop")
        /\ LET c == sessions[conns[s]] IN
           conns[s] # 0 /\ c.fresh /\ c.alive /\ conns[s] \notin news => c.list = offered[s]
CalmServers == calm => \A s \in Servers : KnownInCalm(s)
McpInv == McpTypes /\ InHand /\ Roles /\ AloneThen /\ CalmThen /\ CalmServers /\ NoneLeaks /\ RegisteredIsOpen

LEMMA McpNumbers == Ids \subseteq Nat \ {0} /\ Slots \subseteq Nat /\ 0 \notin Servers
BY McpAssumption DEF Ids, Slots

\* The request that moves is the only one whose record changes.
LEMMA RequestMoves ==
  ASSUME McpTypes, NEW w \in Slots, NEW r \in Requests, Goes(w, r), r.at = "idle" <=> r.server = 0
  PROVE  /\ work' \in [Slots -> Requests] /\ work'[w] = r
         /\ \A v \in Slots : v # w => work'[v] = work[v]
         /\ \A v \in Slots : At(v, "idle")' <=> Server(v)' = 0
BY DEF Goes, McpTypes, At, Server

LEMMA IdleFits == Idle \in Requests /\ Idle.at = "idle" /\ Idle.server = 0 /\ Idle.kind = "none" /\ Idle.then = "idle"
BY McpNumbers DEF Idle, Requests, Places

\* Steps that only look, or give up, and so change nothing but the request itself.
LEMMA OnlyWork ==
  ASSUME McpInv, NEW w \in Slots, NEW r \in Requests, Goes(w, r), Same, Rest, UNCHANGED news,
         ~At(w, "idle"), ~At(w, "register"), ~At(w, "close"), ~At(w, "drop"),
         calm' \in BOOLEAN, calm' => calm,
         r.at = "idle" <=> r.server = 0, r.server \in {0, Server(w)},
         r.at \notin {"register", "close", "erase", "write"},
         r.at = "idle" \/ (r.kind = work[w].kind /\ r.met = work[w].met), 
         r.then = "erase" => work[w].then = "erase" /\ r.kind = work[w].kind,
         Alone(w) /\ r.at = "dial" => conns[Server(w)] = 0,
         calm' /\ r.at \in {"err", "drop"} => Single(w),
         calm' /\ r.at = "err" => conns[Server(w)] = 0,
         calm' /\ r.at \in {"look", "dial"} => r.cfg = configs[Server(w)],
         calm' /\ r.at \in {"list", "store", "ok"} => conns[Server(w)] = r.session /\ r.session # 0,
         calm' /\ r.at = "store" => r.list = offered[Server(w)],
         calm' /\ work[w].at \in {"list", "store", "ok"} => r.at \in {"list", "store", "ok", "drop"}
  PROVE  McpInv'
<1>1. /\ work' \in [Slots -> Requests] /\ work'[w] = r
      /\ \A v \in Slots : v # w => work'[v] = work[v]
      /\ \A v \in Slots : At(v, "idle")' <=> Server(v)' = 0
  BY RequestMoves DEF McpInv
<1>2. UNCHANGED <<configs, offered, conns, health, sessions, news>>
  BY DEF Same, Rest
<1>3. McpTypes'
  BY <1>1, <1>2 DEF McpInv, McpTypes
<1>4. \A v \in Slots, i \in Ids : Holds(v, i)' <=> Holds(v, i)
  BY <1>1 DEF Holds, At
<1>5. InHand'
  BY <1>1, <1>2, <1>4 DEF McpInv, InHand, At, Server, Holds
<1>6. Roles'
  BY <1>1 DEF McpInv, Roles, At
<1>7. \A v \in Slots : Server(v)' \in {0, Server(v)} /\ (Server(v)' # 0 => Server(v)' = Server(v))
  BY <1>1 DEF Server
<1>8. \A v \in Slots : Single(v) /\ Server(v)' # 0 => Single(v)'
  BY <1>1, <1>7 DEF Single, Server
<1>9. AloneThen'
  BY <1>1, <1>2, <1>7, <1>8 DEF McpInv, AloneThen, Alone, At, Server
<1>10. CalmThen'
  <2> SUFFICES ASSUME calm', NEW v \in Slots, ~At(v, "idle")' PROVE InCalm(v)'
    BY DEF CalmThen
  <2>1. CASE v = w
    BY <1>1, <1>2, <1>7, <1>8, <2>1 DEF McpInv, CalmThen, InCalm, At, Server, Single
  <2>2. CASE v # w
    BY <1>1, <1>2, <1>7, <1>8, <2>2 DEF McpInv, CalmThen, InCalm, At, Server, Single
  <2> QED BY <2>1, <2>2
<1>11. CalmServers'
  <2>1. ASSUME calm', NEW s \in Servers PROVE Settling(s) => Settling(s)'
    BY <1>1, <2>1, McpNumbers DEF Settling, Server, At
  <2> QED
    BY <1>1, <1>2, <2>1 DEF McpInv, CalmServers, KnownInCalm, Settling, At, Server
<1>12. NoneLeaks' /\ RegisteredIsOpen'
  BY <1>1, <1>2, <1>4 DEF McpInv, NoneLeaks, RegisteredIsOpen, Held, Holds
<1> QED
  BY <1>3, <1>5, <1>6, <1>9, <1>10, <1>11, <1>12 DEF McpInv

\* A request that goes to a place keeps all else it knows.
LEMMA AtFits ==
  ASSUME McpTypes, NEW w \in Slots, NEW at \in Places, NEW r, r = [work[w] EXCEPT !.at = at]
  PROVE  /\ r \in Requests /\ r.at = at /\ r.kind = work[w].kind /\ r.server = work[w].server /\ r.cfg = work[w].cfg
         /\ r.session = work[w].session /\ r.list = work[w].list /\ r.then = work[w].then /\ r.met = work[w].met
BY DEF McpTypes, Requests

\* What is known of a request that is under way.
LEMMA UnderWay ==
  ASSUME McpInv, NEW w \in Slots, ~At(w, "idle")
  PROVE  /\ McpTypes /\ calm \in BOOLEAN /\ work[w] \in Requests /\ work[w].at \in Places
         /\ Server(w) \in Servers /\ Server(w) # 0
         /\ conns[Server(w)] \in Ids \cup {0} /\ configs[Server(w)] \in Nat /\ offered[Server(w)] \in Nat
         /\ calm => InCalm(w)
         /\ Alone(w) => Single(w) /\ (At(w, "dial") \/ At(w, "register") => conns[Server(w)] = 0)
<1>1. McpTypes /\ work[w] \in Requests /\ Server(w) # 0
  BY DEF McpInv, McpTypes
<1>2. Server(w) \in Servers /\ work[w].at \in Places
  BY <1>1 DEF Server, Requests
<1> QED
  BY <1>1, <1>2 DEF McpInv, McpTypes, CalmThen, AloneThen

\* A request that ends leaves everything as it is.
LEMMA EndStep ==
  ASSUME McpInv, NEW w \in Slots, Goes(w, Idle), Same, Rest, UNCHANGED <<news, calm>>,
         work[w].at \in {"peek", "find", "again", "use", "get", "write"}
  PROVE  McpInv'
<1>1. ~At(w, "idle") /\ ~At(w, "register") /\ ~At(w, "close") /\ ~At(w, "drop") /\ work[w].at \notin {"list", "store", "ok"}
  BY DEF At
<1> QED
  BY <1>1, IdleFits, UnderWay, OnlyWork

\* A request that has to connect goes and reads the configuration.
LEMMA GetStep ==
  ASSUME McpInv, NEW w \in Slots, To(w, "get"), Same, Rest, UNCHANGED <<news, calm>>, work[w].at \in {"peek", "find", "again"}
  PROVE  McpInv'
<1> DEFINE r == [work[w] EXCEPT !.at = "get"]
<1>1. ~At(w, "idle") /\ ~At(w, "register") /\ ~At(w, "close") /\ ~At(w, "drop") /\ work[w].at \notin {"list", "store", "ok"}
  BY DEF At
<1>2. Goes(w, r) /\ "get" \in Places
  BY DEF To, Places
<1> HIDE DEF r
<1>3. /\ r \in Requests /\ r.at = "get" /\ r.kind = work[w].kind /\ r.server = work[w].server
      /\ r.then = work[w].then /\ r.met = work[w].met
  BY <1>1, <1>2, AtFits, UnderWay DEF r
<1> QED
  BY <1>1, <1>2, <1>3, UnderWay, OnlyWork DEF Server

\* The steps that look for a session: the cache of Tools, the session of Call, and its use.
LEMMA FindStep == ASSUME McpInv, NEW w \in Slots, Peek(w) \/ Find(w) \/ Use(w) \/ WriteRefused(w) PROVE McpInv'
<1> DEFINE c == conns[Server(w)]
           r == [work[w] EXCEPT !.at = "use", !.session = c]
<1>1. /\ Same /\ Rest /\ UNCHANGED <<news, calm>> /\ work[w].at \in {"peek", "find", "again", "use", "write"}
      /\ Goes(w, Idle) \/ (To(w, "get") /\ work[w].at \in {"peek", "find", "again"}) \/ (Goes(w, r) /\ work[w].at \in {"find", "again"} /\ c # 0)
  BY DEF Peek, Find, Use, WriteRefused, At, End
<1>2. ASSUME Goes(w, r), c # 0, work[w].at \in {"find", "again"} PROVE McpInv'
  <2>1. ~At(w, "idle") /\ ~At(w, "register") /\ ~At(w, "close") /\ ~At(w, "drop") /\ work[w].at \notin {"list", "store", "ok"}
    BY <1>2 DEF At
  <2>2. work[w] \in Requests /\ c \in Ids
    BY <1>2, <2>1, UnderWay
  <2>3. r \in Requests /\ r.at = "use" /\ r.kind = work[w].kind /\ r.server = work[w].server /\ r.then = work[w].then /\ r.met = work[w].met
    BY <2>2 DEF Requests, Places
  <2> HIDE DEF r
  <2> QED
    BY <1>1, <1>2, <2>1, <2>3, UnderWay, OnlyWork DEF Server
<1> QED
  BY <1>1, <1>2, EndStep, GetStep

\* Connect reads the configuration; in a calm history it stays what it read.
LEMMA GetConfigStep == ASSUME McpInv, NEW w \in Slots, GetConfig(w) PROVE McpInv'
<1> DEFINE r == [work[w] EXCEPT !.at = "look", !.cfg = configs[Server(w)]]
<1>1. /\ Same /\ Rest /\ UNCHANGED <<news, calm>> /\ work[w].at = "get"
      /\ Goes(w, Idle) \/ Goes(w, r)
  BY DEF GetConfig, At, End
<1>2. ~At(w, "idle") /\ ~At(w, "register") /\ ~At(w, "close") /\ ~At(w, "drop") /\ work[w].at \notin {"list", "store", "ok"}
  BY <1>1 DEF At
<1>3. work[w] \in Requests /\ configs[Server(w)] \in Nat
  BY <1>2, UnderWay
<1>4. /\ r \in Requests /\ r.at = "look" /\ r.kind = work[w].kind /\ r.server = work[w].server /\ r.then = work[w].then /\ r.met = work[w].met
      /\ r.cfg = configs[Server(w)]
  BY <1>3 DEF Requests, Places
<1> HIDE DEF r
<1>5. ASSUME Goes(w, r) PROVE McpInv'
  BY <1>1, <1>2, <1>4, <1>5, UnderWay, OnlyWork DEF Server
<1> QED
  BY <1>1, <1>5, EndStep

\* Connect takes the session there is, or dials because there is none.
LEMMA LookStep == ASSUME McpInv, NEW w \in Slots, Look(w) PROVE McpInv'
<1> DEFINE c == conns[Server(w)]
           r == [work[w] EXCEPT !.at = "list", !.session = c]
           d == [work[w] EXCEPT !.at = "dial"]
<1>1. /\ Same /\ Rest /\ UNCHANGED <<news, calm>> /\ work[w].at = "look"
      /\ (c # 0 /\ Goes(w, r)) \/ (c = 0 /\ Goes(w, d))
  BY DEF Look, At, To
<1>2. ~At(w, "idle") /\ ~At(w, "register") /\ ~At(w, "close") /\ ~At(w, "drop") /\ work[w].at \notin {"list", "store", "ok"}
  BY <1>1 DEF At
<1>3. work[w] \in Requests /\ c \in Ids \cup {0} /\ (calm => work[w].cfg = configs[Server(w)])
  BY <1>1, <1>2, UnderWay DEF InCalm
<1>4. ASSUME c # 0, Goes(w, r) PROVE McpInv'
  <2>1. /\ r \in Requests /\ r.at = "list" /\ r.kind = work[w].kind /\ r.server = work[w].server /\ r.then = work[w].then /\ r.met = work[w].met
        /\ r.session = c
    BY <1>3 DEF Requests, Places
  <2> HIDE DEF r
  <2> QED
    BY <1>1, <1>2, <1>4, <2>1, UnderWay, OnlyWork DEF Server
<1>5. ASSUME c = 0, Goes(w, d) PROVE McpInv'
  <2>1. /\ d \in Requests /\ d.at = "dial" /\ d.kind = work[w].kind /\ d.server = work[w].server /\ d.then = work[w].then /\ d.met = work[w].met
        /\ d.cfg = work[w].cfg
    BY <1>3 DEF Requests, Places
  <2> HIDE DEF d
  <2> QED
    BY <1>1, <1>2, <1>3, <1>5, <2>1, UnderWay, OnlyWork DEF Server
<1> QED
  BY <1>1, <1>4, <1>5

\* A dial or a listing that fails: the history is calm no more, unless nobody else was at the server.
LEMMA FailStep == ASSUME McpInv, NEW w \in Slots, DialFails(w) \/ ListFails(w) PROVE McpInv'
<1>0. calm' = (calm /\ Alone(w)) /\ Same /\ Rest /\ UNCHANGED news
  BY DEF DialFails, ListFails
<1>1. ~At(w, "idle") /\ ~At(w, "register") /\ ~At(w, "close") /\ ~At(w, "drop")
  BY DEF At, DialFails, ListFails
<1>2. work[w] \in Requests /\ calm \in BOOLEAN
  BY <1>1, UnderWay
<1>3. calm' \in BOOLEAN /\ (calm' => calm /\ Alone(w))
  BY <1>0, <1>2
<1>4. CASE DialFails(w)
  <2> DEFINE r == [work[w] EXCEPT !.at = "err"]
  <2>1. Goes(w, r) /\ At(w, "dial")
    BY <1>4 DEF DialFails, To
  <2>2. /\ r \in Requests /\ r.at = "err" /\ r.kind = work[w].kind /\ r.server = work[w].server /\ r.then = work[w].then /\ r.met = work[w].met
    BY <1>2 DEF Requests, Places
  <2> HIDE DEF r
  <2> QED
    BY <1>0, <1>1, <1>3, <2>1, <2>2, UnderWay, OnlyWork DEF Server, At
<1>5. CASE ListFails(w)
  <2> DEFINE r == [work[w] EXCEPT !.at = "drop", !.then = "err"]
  <2>1. Goes(w, r) /\ At(w, "list")
    BY <1>5 DEF ListFails
  <2>2. /\ r \in Requests /\ r.at = "drop" /\ r.kind = work[w].kind /\ r.server = work[w].server /\ r.then = "err" /\ r.met = work[w].met
    BY <1>2 DEF Requests, Places
  <2> HIDE DEF r
  <2> QED
    BY <1>0, <1>1, <1>3, <2>1, <2>2, UnderWay, OnlyWork DEF Server, At
<1> QED
  BY <1>4, <1>5

\* The list is read from the server the session is open to.
LEMMA ListStep == ASSUME McpInv, NEW w \in Slots, List(w) PROVE McpInv'
<1> DEFINE r == [work[w] EXCEPT !.at = "store", !.list = offered[Server(w)]]
<1>1. Same /\ Rest /\ UNCHANGED <<news, calm>> /\ work[w].at = "list" /\ Goes(w, r)
  BY DEF List, At
<1>2. ~At(w, "idle") /\ ~At(w, "register") /\ ~At(w, "close") /\ ~At(w, "drop")
  BY <1>1 DEF At
<1>3. work[w] \in Requests /\ offered[Server(w)] \in Nat /\ (calm => conns[Server(w)] = work[w].session /\ work[w].session # 0)
  BY <1>1, <1>2, UnderWay DEF InCalm
<1>4. /\ r \in Requests /\ r.at = "store" /\ r.kind = work[w].kind /\ r.server = work[w].server /\ r.then = work[w].then /\ r.met = work[w].met
      /\ r.list = offered[Server(w)] /\ r.session = work[w].session
  BY <1>3 DEF Requests, Places
<1> HIDE DEF r
<1> QED
  BY <1>1, <1>2, <1>3, <1>4, UnderWay, OnlyWork DEF Server

\* A request that moves stays at its server or ends, so nobody else gets company.
LEMMA NoCompany ==
  ASSUME McpInv, NEW w \in Slots, ~At(w, "idle"), NEW r \in Requests, Goes(w, r),
         r.at = "idle" <=> r.server = 0, r.server \in {0, Server(w)}
  PROVE  /\ work' \in [Slots -> Requests] /\ work'[w] = r
         /\ \A v \in Slots : v # w => work'[v] = work[v]
         /\ \A v \in Slots : At(v, "idle")' <=> Server(v)' = 0
         /\ \A v \in Slots : Server(v)' \in {0, Server(v)}
         /\ \A v \in Slots : Single(v) /\ Server(v)' # 0 => Single(v)'
<1>1. /\ work' \in [Slots -> Requests] /\ work'[w] = r
      /\ \A v \in Slots : v # w => work'[v] = work[v]
      /\ \A v \in Slots : At(v, "idle")' <=> Server(v)' = 0
  BY RequestMoves DEF McpInv
<1>2. \A v \in Slots : Server(v)' \in {0, Server(v)}
  BY <1>1 DEF Server
<1>3. \A v \in Slots : Single(v) /\ Server(v)' # 0 => Single(v)'
  BY <1>1, <1>2 DEF Single, Server
<1> QED
  BY <1>1, <1>2, <1>3

\* The session dialled is new, and in the hands of its request alone.
LEMMA DialStep == ASSUME McpInv, NEW w \in Slots, Dial(w) PROVE McpInv'
<1>1. At(w, "dial") /\ ~At(w, "idle")
  BY DEF Dial, At
<1>2. PICK i \in Ids :
        /\ sessions[i] = Unused
        /\ sessions' = [sessions EXCEPT ![i] = [Unused EXCEPT !.server = Server(w), !.cfg = work[w].cfg, !.open = TRUE, !.alive = TRUE]]
        /\ Goes(w, [work[w] EXCEPT !.at = "register", !.session = i])
        /\ Rest /\ UNCHANGED <<conns, health, news, calm>>
  BY DEF Dial
<1> DEFINE r == [work[w] EXCEPT !.at = "register", !.session = i]
           n == [Unused EXCEPT !.server = Server(w), !.cfg = work[w].cfg, !.open = TRUE, !.alive = TRUE]
<1>3. /\ r \in Requests /\ r.at = "register" /\ r.kind = work[w].kind /\ r.server = work[w].server /\ r.then = work[w].then /\ r.met = work[w].met
      /\ r.session = i /\ r.cfg = work[w].cfg
  BY <1>1, UnderWay DEF Requests, Places
<1>4. n \in Sessions /\ n.server = Server(w) /\ n.cfg = work[w].cfg /\ n.open /\ ~n.fresh
  BY <1>1, UnderWay DEF Sessions, Unused, Requests
<1>5. /\ sessions' \in [Ids -> Sessions] /\ sessions'[i] = n
      /\ \A j \in Ids : j # i => sessions'[j] = sessions[j]
  BY <1>2, <1>4 DEF McpInv, McpTypes
<1> HIDE DEF r, n
<1>6. /\ work' \in [Slots -> Requests] /\ work'[w] = r
      /\ \A v \in Slots : v # w => work'[v] = work[v]
      /\ \A v \in Slots : At(v, "idle")' <=> Server(v)' = 0
      /\ \A v \in Slots : Server(v)' \in {0, Server(v)}
      /\ \A v \in Slots : Single(v) /\ Server(v)' # 0 => Single(v)'
  <2>1. Goes(w, r)
    BY <1>2 DEF r
  <2> QED
    BY <1>1, <1>3, <2>1, UnderWay, NoCompany DEF Server
<1>7. UNCHANGED <<configs, offered, conns, health, news, calm>>
  BY <1>2 DEF Rest
<1>8. ~sessions[i].open /\ sessions[i].server = 0 /\ i \notin news
  BY <1>2, McpNumbers DEF Unused, McpInv, McpTypes
<1>9. (\A s \in Servers : conns[s] # i) /\ \A v \in Slots : ~Holds(v, i)
  BY <1>8, McpNumbers DEF McpInv, RegisteredIsOpen, InHand
<1>10. McpTypes'
  <2>1. Server(w) \in Servers
    BY <1>1, UnderWay
  <2> QED
    BY <1>4, <1>5, <1>6, <1>7, <1>8, <2>1 DEF McpInv, McpTypes
<1>11. InHand'
  BY <1>3, <1>4, <1>5, <1>6, <1>7, <1>9, McpNumbers DEF McpInv, InHand, Holds, At, Server
<1>12. Roles'
  BY <1>1, <1>3, <1>6 DEF McpInv, Roles, At
<1>13. AloneThen'
  BY <1>1, <1>3, <1>6, <1>7 DEF McpInv, AloneThen, Alone, At, Server
<1>14. CalmThen'
  <2> SUFFICES ASSUME calm', NEW v \in Slots, ~At(v, "idle")' PROVE InCalm(v)'
    BY DEF CalmThen
  <2>1. CASE v = w
    BY <1>1, <1>3, <1>4, <1>5, <1>6, <1>7, <2>1 DEF McpInv, CalmThen, InCalm, At, Server
  <2>2. CASE v # w
    <3>1. At(v, "register") => work[v].session \in Ids \ {i}
      BY <1>6, <1>9, <2>2 DEF McpInv, McpTypes, Requests, InHand, Holds, At
    <3> QED
      BY <1>5, <1>6, <1>7, <2>2, <3>1 DEF McpInv, CalmThen, InCalm, At, Server
  <2> QED BY <2>1, <2>2
<1>15. CalmServers'
  <2> SUFFICES ASSUME calm', NEW s \in Servers PROVE KnownInCalm(s)'
    BY DEF CalmServers
  <2>1. /\ Settling(s) => Settling(s)'
        /\ (\E v \in Slots : Server(v) = s /\ At(v, "close")) => (\E v \in Slots : Server(v) = s /\ At(v, "close"))'
        /\ (\E v \in Slots : Server(v) = s /\ At(v, "drop")) => (\E v \in Slots : Server(v) = s /\ At(v, "drop"))'
    BY <1>1, <1>6 DEF Settling, Server, At
  <2>2. conns[s] # 0 => sessions'[conns[s]] = sessions[conns[s]]
    BY <1>5, <1>9 DEF McpInv, McpTypes
  <2> QED
    BY <1>7, <2>1, <2>2 DEF McpInv, CalmServers, KnownInCalm
<1>16. NoneLeaks'
  BY <1>3, <1>5, <1>6, <1>7, <1>1 DEF McpInv, NoneLeaks, Held, At
<1>17. RegisteredIsOpen'
  BY <1>5, <1>7, <1>9 DEF McpInv, McpTypes, RegisteredIsOpen
<1> QED
  BY <1>10, <1>11, <1>12, <1>13, <1>14, <1>15, <1>16, <1>17 DEF McpInv

\* A request that finds the place taken closes its own session; otherwise it registers it.
LEMMA RegisterStep == ASSUME McpInv, NEW w \in Slots, Register(w) PROVE McpInv'
<1> DEFINE i == work[w].session
           c == conns[Server(w)]
<1>1. At(w, "register") /\ ~At(w, "idle") /\ Rest /\ UNCHANGED <<health, news, calm>>
  BY DEF Register, At
<1>2. /\ work[w] \in Requests /\ Server(w) \in Servers /\ c \in Ids \cup {0} /\ i \in Ids /\ calm \in BOOLEAN
      /\ sessions[i] \in Sessions
  <2>1. work[w] \in Requests /\ Server(w) \in Servers /\ c \in Ids \cup {0} /\ calm \in BOOLEAN
    BY <1>1, UnderWay
  <2>2. i \in Ids
    BY <1>1, <2>1 DEF Requests, McpInv, InHand
  <2> QED
    BY <2>1, <2>2 DEF McpInv, McpTypes
<1>3. /\ Holds(w, i) /\ sessions[i].open /\ sessions[i].server = Server(w)
      /\ (\A s \in Servers : conns[s] # i) /\ (\A v \in Slots : Holds(v, i) => v = w)
  BY <1>1, <1>2 DEF McpInv, InHand, Holds, At
<1> DEFINE j == IF c # 0 THEN c ELSE i
           r == [work[w] EXCEPT !.at = "list", !.session = j]
<1>4. /\ Goes(w, r) /\ j \in Ids
      /\ c # 0 => sessions' = [sessions EXCEPT ![i].open = FALSE] /\ conns' = conns
      /\ c = 0 => sessions' = sessions /\ conns' = [conns EXCEPT ![Server(w)] = i]
  <2>1. CASE c # 0
    <3>1. sessions' = Closed(i) /\ Goes(w, [work[w] EXCEPT !.at = "list", !.session = c]) /\ conns' = conns
      BY <2>1 DEF Register, TakeOrClose
    <3> QED
      BY <1>2, <2>1, <3>1 DEF Closed
  <2>2. CASE c = 0
    <3>1. [work[w] EXCEPT !.at = "list"] = r
      BY <1>2, <2>2 DEF Requests
    <3> QED
      BY <1>2, <2>2, <3>1 DEF Register, TakeOrClose, To
  <2> QED BY <2>1, <2>2
<1>5. /\ r \in Requests /\ r.at = "list" /\ r.kind = work[w].kind /\ r.server = work[w].server /\ r.then = work[w].then /\ r.met = work[w].met
      /\ r.session = j
  BY <1>2, <1>4 DEF Requests, Places
<1> HIDE DEF r
<1>6. /\ work' \in [Slots -> Requests] /\ work'[w] = r
      /\ \A v \in Slots : v # w => work'[v] = work[v]
      /\ \A v \in Slots : At(v, "idle")' <=> Server(v)' = 0
      /\ \A v \in Slots : Server(v)' \in {0, Server(v)}
      /\ \A v \in Slots : Single(v) /\ Server(v)' # 0 => Single(v)'
  BY <1>1, <1>4, <1>5, UnderWay, NoCompany DEF Server
<1>7. /\ UNCHANGED <<configs, offered, health, news, calm>>
      /\ conns' \in [Servers -> Ids \cup {0}] /\ conns'[Server(w)] = j /\ \A s \in Servers : s # Server(w) => conns'[s] = conns[s]
  BY <1>1, <1>2, <1>4 DEF Rest, McpInv, McpTypes
<1>8. /\ sessions' \in [Ids -> Sessions]
      /\ \A k \in Ids : /\ sessions'[k].server = sessions[k].server /\ sessions'[k].cfg = sessions[k].cfg
                        /\ sessions'[k].fresh = sessions[k].fresh /\ sessions'[k].alive = sessions[k].alive
                        /\ sessions'[k].list = sessions[k].list
                        /\ sessions'[k].open => sessions[k].open
                        /\ k # i => sessions'[k] = sessions[k]
      /\ c # 0 => ~sessions'[i].open
      /\ c = 0 => sessions' = sessions
  <2>0. sessions \in [Ids -> Sessions]
    BY DEF McpInv, McpTypes
  <2>1. CASE c = 0
    BY <1>4, <2>0, <2>1
  <2>2. CASE c # 0
    <3>1. i \in Ids /\ sessions' = [sessions EXCEPT ![i].open = FALSE]
      BY <1>2, <1>4, <2>2
    <3> HIDE DEF i, c
    <3>2. /\ sessions' \in [Ids -> Sessions]
          /\ sessions'[i] = [sessions[i] EXCEPT !.open = FALSE]
          /\ \A k \in Ids : k # i => sessions'[k] = sessions[k]
      BY <2>0, <3>1 DEF Sessions
    <3>3. sessions[i] \in Sessions
      BY <2>0, <3>1
    <3> QED
      BY <2>2, <3>2, <3>3 DEF Sessions
  <2> QED
    BY <2>1, <2>2
<1> HIDE DEF i, c, j
<1>9. \A v \in Slots, k \in Ids : Holds(v, k)' => Holds(v, k) /\ v # w /\ k # i
  BY <1>3, <1>5, <1>6 DEF Holds
<1>10. McpTypes'
  BY <1>6, <1>7, <1>8 DEF McpInv, McpTypes
<1>11. \A s \in Servers : conns'[s] # 0 => conns'[s] = conns[s] \/ (s = Server(w) /\ c = 0 /\ conns'[s] = i)
  BY <1>2, <1>7 DEF j, c
<1>12. InHand'
  <2>1. \A v \in Slots : At(v, "register")' => work'[v].session # 0
    BY <1>5, <1>6 DEF McpInv, InHand, At
  <2>2. ASSUME NEW v \in Slots, NEW k \in Ids, Holds(v, k)'
        PROVE  /\ sessions'[k].open /\ sessions'[k].server = Server(v)'
               /\ \A s \in Servers : conns'[s] # k
               /\ \A u \in Slots : Holds(u, k)' => u = v
    <3>1. Holds(v, k) /\ v # w /\ k # i /\ k # 0
      BY <1>9, <2>2, McpNumbers
    <3>2. sessions[k].open /\ sessions[k].server = Server(v) /\ (\A s \in Servers : conns[s] # k) /\ \A u \in Slots : Holds(u, k) => u = v
      BY <3>1 DEF McpInv, InHand
    <3> QED
      BY <1>6, <1>8, <1>9, <1>11, <3>1, <3>2 DEF Server
  <2> QED
    BY <2>1, <2>2 DEF InHand
<1>13. Roles'
  BY <1>1, <1>5, <1>6 DEF McpInv, Roles, At
<1>14. AloneThen'
  <2> SUFFICES ASSUME NEW v \in Slots, Alone(v)', ~At(v, "idle")'
               PROVE  Single(v)' /\ (At(v, "dial")' \/ At(v, "register")' => conns'[Server(v)'] = 0)
    BY DEF AloneThen
  <2>1. CASE v = w
    BY <1>1, <1>5, <1>6, <2>1, UnderWay DEF Alone, At, Server
  <2>2. CASE v # w
    <3>1. Single(v) /\ (At(v, "dial") \/ At(v, "register") => conns[Server(v)] = 0) /\ ~At(v, "idle") /\ Server(v)' = Server(v)
      BY <1>6, <2>2 DEF McpInv, AloneThen, Alone, At, Server
    <3>2. Server(v) # Server(w) /\ Server(v) \in Servers
      BY <3>1, <2>2, UnderWay DEF Single, Server
    <3> QED
      BY <1>6, <1>7, <2>2, <3>1, <3>2, UnderWay DEF At, Server
  <2> QED BY <2>1, <2>2
<1>15. CalmThen'
  <2> SUFFICES ASSUME calm', NEW v \in Slots, ~At(v, "idle")' PROVE InCalm(v)'
    BY DEF CalmThen
  <2>0. calm BY <1>7
  <2>1. CASE v = w
    <3>1. InCalm(w)
      BY <1>1, <2>0, UnderWay
    <3>2. j # 0 /\ Server(w)' = Server(w) /\ (Single(w) => Single(w)')
      BY <1>1, <1>4, <1>5, <1>6, UnderWay, McpNumbers DEF Server
    <3> QED
      BY <1>5, <1>6, <1>7, <2>1, <3>1, <3>2 DEF InCalm, At, Server
  <2>2. CASE v # w
    <3>1. InCalm(v) /\ ~At(v, "idle") /\ work'[v] = work[v] /\ Server(v)' = Server(v) /\ Server(v) \in Servers
      BY <1>6, <2>0, <2>2, UnderWay DEF At, Server
    <3>2. Single(v) => Single(v)'
      BY <1>6, <3>1, McpNumbers
    <3>3. conns'[Server(v)] # conns[Server(v)] => Server(v) = Server(w) /\ c = 0
      BY <1>2, <1>7, <3>1 DEF j, c
    <3>4. work[v].at \in {"err", "close", "erase"} => Single(v)
      BY <3>1, <2>0, UnderWay DEF InCalm, McpInv, Roles, At
    <3>5. work[v].at \in {"err", "close", "erase"} => conns'[Server(v)] = 0
      BY <3>1, <3>3, <3>4, <2>2 DEF InCalm, Single, Server
    <3>6. work[v].at \in {"list", "store", "ok"} => conns'[Server(v)] = work[v].session /\ work[v].session # 0
      BY <3>1, <3>3 DEF InCalm, c
    <3>7. At(v, "register") => sessions'[work[v].session].cfg = work[v].cfg /\ ~sessions'[work[v].session].fresh
      <4>1. At(v, "register") => work[v].session \in Ids
        BY UnderWay, <3>1 DEF McpInv, InHand, Requests
      <4> QED BY <1>8, <3>1, <4>1 DEF InCalm
    <3> QED
      BY <1>7, <3>1, <3>2, <3>5, <3>6, <3>7 DEF InCalm, At, Server
  <2> QED BY <2>1, <2>2
<1>16. CalmServers'
  <2> SUFFICES ASSUME calm', NEW s \in Servers PROVE KnownInCalm(s)'
    BY DEF CalmServers
  <2>0. calm /\ KnownInCalm(s)
    BY <1>7 DEF McpInv, CalmServers
  <2>1. /\ Settling(s) => Settling(s)'
        /\ (\E v \in Slots : Server(v) = s /\ At(v, "close")) => (\E v \in Slots : Server(v) = s /\ At(v, "close"))'
        /\ (\E v \in Slots : Server(v) = s /\ At(v, "drop")) => (\E v \in Slots : Server(v) = s /\ At(v, "drop"))'
    BY <1>1, <1>5, <1>6 DEF Settling, Server, At
  <2>2. CASE conns'[s] = conns[s]
    <3>1. conns[s] # 0 => conns[s] \in Ids
      BY DEF McpInv, McpTypes
    <3> QED
      BY <1>7, <1>8, <2>0, <2>1, <2>2, <3>1 DEF KnownInCalm
  <2>3. CASE conns'[s] # conns[s]
    <3>1. s = Server(w) /\ conns'[s] = i /\ c = 0
      BY <1>2, <1>7, <2>3 DEF j, c
    <3>2. Settling(s)'
      BY <1>5, <1>6, <3>1 DEF Settling, Server, At
    <3>3. InCalm(w)
      BY <1>1, <2>0, UnderWay
    <3>4. sessions'[i].cfg = configs[s] /\ ~sessions'[i].fresh
      BY <1>1, <1>2, <1>8, <3>1, <3>3 DEF InCalm, At, i
    <3>5. conns'[s] # 0
      BY <1>2, <3>1, McpNumbers DEF i
    <3> QED
      BY <1>7, <3>1, <3>2, <3>4, <3>5 DEF KnownInCalm
  <2> QED BY <2>2, <2>3
<1>17. NoneLeaks'
  <2> SUFFICES ASSUME NEW k \in Ids, sessions'[k].open PROVE conns'[sessions'[k].server] = k \/ Held(k)'
    BY DEF NoneLeaks
  <2>1. CASE k = i
    BY <1>3, <1>7, <1>8, <2>1 DEF j
  <2>2. CASE k # i
    <3>1. sessions'[k] = sessions[k] /\ sessions[k].open /\ (conns[sessions[k].server] = k \/ Held(k))
      BY <1>8, <2>2 DEF McpInv, NoneLeaks
    <3>2. Held(k) => Held(k)'
      BY <1>6, <2>2 DEF Held, i
    <3>3. conns[sessions[k].server] = k => conns'[sessions[k].server] = k
      <4>1. CASE sessions[k].server = Server(w)
        BY <1>7, <4>1, McpNumbers DEF j, c
      <4>2. CASE sessions[k].server \in Servers /\ sessions[k].server # Server(w)
        BY <1>7, <4>2
      <4>3. sessions[k].server \in Servers
        BY <3>1 DEF McpInv, McpTypes
      <4> QED BY <4>1, <4>2, <4>3
    <3> QED BY <3>1, <3>2, <3>3
  <2> QED BY <2>1, <2>2
<1>18. RegisteredIsOpen'
  <2> SUFFICES ASSUME NEW s \in Servers, conns'[s] # 0 PROVE sessions'[conns'[s]].open /\ sessions'[conns'[s]].server = s
    BY DEF RegisteredIsOpen
  <2>1. CASE conns'[s] = conns[s]
    <3>1. conns[s] \in Ids /\ conns[s] # i /\ sessions[conns[s]].open /\ sessions[conns[s]].server = s
      BY <1>3, <2>1 DEF McpInv, McpTypes, RegisteredIsOpen
    <3> QED BY <1>8, <2>1, <3>1
  <2>2. CASE s = Server(w) /\ c = 0 /\ conns'[s] = i
    BY <1>3, <1>8, <2>2
  <2> QED BY <1>11, <2>1, <2>2
<1> QED
  BY <1>10, <1>12, <1>13, <1>14, <1>15, <1>16, <1>17, <1>18 DEF McpInv

\* In a calm history a request that is alone at its server leaves the others as they were.
LEMMA OthersCalm ==
  ASSUME McpInv, NEW w \in Slots, ~At(w, "idle"), calm, Single(w), NEW v \in Slots, v # w, ~At(v, "idle")
  PROVE  Server(v) \in Servers /\ Server(v) # Server(w) /\ InCalm(v)
BY UnderWay DEF Single, Server

\* The list is kept with its session.
LEMMA StoreStep == ASSUME McpInv, NEW w \in Slots, StoreList(w) PROVE McpInv'
<1> DEFINE i == work[w].session
           r == [work[w] EXCEPT !.at = "ok"]
<1>1. /\ At(w, "store") /\ ~At(w, "idle") /\ Goes(w, r) /\ UNCHANGED <<configs, offered, conns, health, news, calm>>
      /\ sessions' = [sessions EXCEPT ![i].list = work[w].list, ![i].fresh = TRUE]
  BY DEF StoreList, At, To, Rest
<1>2. work[w] \in Requests /\ sessions \in [Ids -> Sessions]
  BY <1>1, UnderWay DEF McpInv, McpTypes
<1>3. r \in Requests /\ r.at = "ok" /\ r.kind = work[w].kind /\ r.server = work[w].server /\ r.then = work[w].then /\ r.met = work[w].met
      /\ r.session = i
  BY <1>2 DEF Requests, Places
<1> HIDE DEF r
<1>4. /\ work' \in [Slots -> Requests] /\ work'[w] = r
      /\ \A v \in Slots : v # w => work'[v] = work[v]
      /\ \A v \in Slots : At(v, "idle")' <=> Server(v)' = 0
      /\ \A v \in Slots : Server(v)' \in {0, Server(v)}
      /\ \A v \in Slots : Single(v) /\ Server(v)' # 0 => Single(v)'
  BY <1>1, <1>3, UnderWay, NoCompany DEF Server
<1>5. /\ sessions' \in [Ids -> Sessions]
      /\ \A k \in Ids : /\ sessions'[k].server = sessions[k].server /\ sessions'[k].cfg = sessions[k].cfg
                        /\ sessions'[k].open = sessions[k].open /\ sessions'[k].alive = sessions[k].alive
                        /\ k # i => sessions'[k] = sessions[k]
                        /\ k = i => sessions'[k].list = work[w].list
  <2>1. work[w].list \in Nat
    BY <1>2 DEF Requests
  <2> QED
    BY <1>1, <1>2, <2>1 DEF Sessions
<1>6. McpTypes'
  BY <1>1, <1>4, <1>5 DEF McpInv, McpTypes
<1>7. \A v \in Slots, k \in Ids : Holds(v, k)' <=> Holds(v, k)
  BY <1>1, <1>3, <1>4 DEF Holds, At
<1>8. InHand'
  BY <1>1, <1>3, <1>4, <1>5, <1>7 DEF McpInv, InHand, At, Server
<1>9. Roles' /\ AloneThen'
  BY <1>1, <1>3, <1>4 DEF McpInv, Roles, AloneThen, Alone, At, Server
<1>10. CalmThen'
  <2> SUFFICES ASSUME calm', NEW v \in Slots, ~At(v, "idle")' PROVE InCalm(v)'
    BY DEF CalmThen
  <2>0. calm /\ InCalm(w) /\ ~At(v, "idle") /\ InCalm(v) /\ Server(v)' = Server(v) /\ (Single(v) => Single(v)')
    BY <1>1, <1>3, <1>4, UnderWay DEF At, Server
  <2>1. CASE v = w
    BY <1>1, <1>3, <1>4, <2>0, <2>1 DEF InCalm, At, Server
  <2>2. CASE v # w
    <3>1. At(v, "register") => work[v].session \in Ids /\ work[v].session # i
      <4>1. i = conns[Server(w)] /\ Server(w) \in Servers
        BY <1>1, <2>0, UnderWay DEF InCalm, At
      <4>2. At(v, "register") => work[v].session \in Ids /\ Holds(v, work[v].session)
        BY <2>0, UnderWay DEF Holds, At, McpInv, InHand, Requests
      <4> QED
        BY <4>1, <4>2 DEF McpInv, InHand
    <3> QED
      BY <1>1, <1>4, <1>5, <2>0, <2>2, <3>1 DEF InCalm, At, Server
  <2> QED BY <2>1, <2>2
<1>11. CalmServers'
  <2> SUFFICES ASSUME calm', NEW s \in Servers PROVE KnownInCalm(s)'
    BY DEF CalmServers
  <2>0. calm /\ KnownInCalm(s) /\ InCalm(w)
    BY <1>1, UnderWay DEF McpInv, CalmServers
  <2>1. /\ Settling(s) => Settling(s)'
        /\ (\E v \in Slots : Server(v) = s /\ At(v, "close")) => (\E v \in Slots : Server(v) = s /\ At(v, "close"))'
        /\ (\E v \in Slots : Server(v) = s /\ At(v, "drop")) => (\E v \in Slots : Server(v) = s /\ At(v, "drop"))'
    BY <1>1, <1>3, <1>4 DEF Settling, Server, At
  <2>2. conns[s] # 0 => conns[s] \in Ids
    BY DEF McpInv, McpTypes
  <2>3. conns[s] = i /\ conns[s] # 0 => sessions'[i].list = offered[s]
    <3>1. conns[s] = i /\ conns[s] # 0 => s = Server(w)
      BY <1>1, <2>0, UnderWay DEF InCalm, At, McpInv, RegisteredIsOpen
    <3> QED
      BY <1>1, <1>5, <2>0, <2>2, <3>1 DEF InCalm
  <2> QED
    BY <1>1, <1>5, <2>0, <2>1, <2>2, <2>3 DEF KnownInCalm
<1>12. NoneLeaks' /\ RegisteredIsOpen'
  <2>1. \A k \in Ids : Held(k)' <=> Held(k)
    BY <1>7 DEF Held, Holds
  <2> QED
    BY <1>1, <1>5, <2>1 DEF McpInv, McpTypes, NoneLeaks, RegisteredIsOpen
<1> QED
  BY <1>6, <1>8, <1>9, <1>10, <1>11, <1>12 DEF McpInv

\* The end of a connect: the health is marked, and a call goes on.
LEMMA MarkStep == ASSUME McpInv, NEW w \in Slots, MarkOK(w) \/ MarkErr(w) PROVE McpInv'
<1> DEFINE mark == IF At(w, "ok") THEN "connected" ELSE "error"
<1>1. /\ At(w, "ok") \/ At(w, "err")
      /\ ~At(w, "idle") /\ UNCHANGED <<configs, offered, conns, sessions, news, calm>>
      /\ health' = [health EXCEPT ![Server(w)] = mark]
  BY DEF MarkOK, MarkErr, At, Rest
<1>2. work[w] \in Requests /\ Server(w) \in Servers /\ ~At(w, "idle")
  BY <1>1, UnderWay DEF At
<1>3. PICK r \in Requests :
        /\ Goes(w, r) /\ r.server \in {0, Server(w)} /\ r.at \in {"again", "idle"} /\ (r.at = "idle" <=> r.server = 0)
        /\ r.then = "erase" => work[w].then = "erase" /\ r.kind = work[w].kind
        /\ r.at # "idle" => r.kind = work[w].kind /\ r.met = work[w].met
  <2>1. CASE Goes(w, Idle)
    BY <2>1, IdleFits
  <2>2. CASE To(w, "again")
    <3> DEFINE q == [work[w] EXCEPT !.at = "again"]
    <3>1. q \in Requests /\ q.at = "again" /\ q.kind = work[w].kind /\ q.server = work[w].server /\ q.then = work[w].then /\ q.met = work[w].met
      BY <1>2 DEF Requests, Places
    <3>2. Goes(w, q)
      BY <2>2 DEF To
    <3> HIDE DEF q
    <3> QED BY <1>2, <3>1, <3>2, UnderWay DEF Server
  <2> QED
    BY <2>1, <2>2 DEF MarkOK, MarkErr, End
<1>4. /\ work' \in [Slots -> Requests] /\ work'[w] = r
      /\ \A v \in Slots : v # w => work'[v] = work[v]
      /\ \A v \in Slots : At(v, "idle")' <=> Server(v)' = 0
      /\ \A v \in Slots : Server(v)' \in {0, Server(v)}
      /\ \A v \in Slots : Single(v) /\ Server(v)' # 0 => Single(v)'
  BY <1>2, <1>3, NoCompany
<1>5. health' \in [Servers -> {"none", "connected", "error", "down"}] /\ health'[Server(w)] = mark /\ \A s \in Servers : s # Server(w) => health'[s] = health[s]
  BY <1>1, <1>2 DEF McpInv, McpTypes
<1>6. McpTypes'
  BY <1>1, <1>4, <1>5 DEF McpInv, McpTypes
<1>7. \A v \in Slots, k \in Ids : Holds(v, k)' <=> Holds(v, k)
  BY <1>1, <1>3, <1>4 DEF Holds, At
<1>8. InHand'
  BY <1>1, <1>3, <1>4, <1>7 DEF McpInv, InHand, At, Server, Holds
<1>9. Roles' /\ AloneThen'
  BY <1>1, <1>3, <1>4 DEF McpInv, Roles, AloneThen, Alone, At, Server
<1>10. CalmThen'
  <2> SUFFICES ASSUME calm', NEW v \in Slots, ~At(v, "idle")' PROVE InCalm(v)'
    BY DEF CalmThen
  <2>0. calm /\ InCalm(w) /\ ~At(v, "idle") /\ InCalm(v) /\ Server(v)' = Server(v) /\ (Single(v) => Single(v)')
    BY <1>1, <1>2, <1>3, <1>4, UnderWay DEF At, Server
  <2>1. CASE v = w
    BY <1>1, <1>3, <1>4, <2>0, <2>1 DEF InCalm, At, Server
  <2>2. CASE v # w
    BY <1>1, <1>4, <2>0, <2>2 DEF InCalm, At, Server
  <2> QED BY <2>1, <2>2
<1>11. CalmServers'
  <2> SUFFICES ASSUME calm', NEW s \in Servers PROVE KnownInCalm(s)'
    BY DEF CalmServers
  <2>0. calm /\ KnownInCalm(s) /\ InCalm(w)
    BY <1>1, <1>2, UnderWay DEF McpInv, CalmServers
  <2>1. /\ (\E v \in Slots : Server(v) = s /\ At(v, "close")) => (\E v \in Slots : Server(v) = s /\ At(v, "close"))'
        /\ (\E v \in Slots : Server(v) = s /\ At(v, "drop")) => (\E v \in Slots : Server(v) = s /\ At(v, "drop"))'
        /\ s # Server(w) => (Settling(s) => Settling(s)')
    BY <1>1, <1>4 DEF Settling, Server, At
  <2>2. CASE s # Server(w)
    BY <1>1, <1>5, <2>0, <2>1, <2>2 DEF KnownInCalm
  <2>3. CASE s = Server(w)
    <3>1. (mark = "connected" => conns[s] # 0) /\ (mark # "connected" => conns[s] = 0)
      BY <1>1, <2>0, <2>3 DEF InCalm, At
    <3> QED
      BY <1>1, <1>5, <2>0, <2>1, <2>3, <3>1 DEF KnownInCalm
  <2> QED BY <2>2, <2>3
<1>12. NoneLeaks' /\ RegisteredIsOpen'
  <2>1. \A k \in Ids : Held(k)' <=> Held(k)
    BY <1>7 DEF Held, Holds
  <2> QED
    BY <1>1, <2>1 DEF McpInv, NoneLeaks, RegisteredIsOpen
<1> QED
  BY <1>6, <1>8, <1>9, <1>10, <1>11, <1>12 DEF McpInv

\* The session is taken out, and in the hands of the request that closes it.
LEMMA DropStep == ASSUME McpInv, NEW w \in Slots, Drop(w) PROVE McpInv'
<1> DEFINE i == conns[Server(w)]
           r == [work[w] EXCEPT !.at = "close", !.session = i]
<1>1. /\ At(w, "drop") /\ ~At(w, "idle") /\ Goes(w, r) /\ UNCHANGED <<configs, offered, sessions, health, news, calm>>
      /\ conns' = [conns EXCEPT ![Server(w)] = 0]
  BY DEF Drop, TakenOut, At, Rest
<1>2. work[w] \in Requests /\ Server(w) \in Servers /\ i \in Ids \cup {0}
  BY <1>1, UnderWay
<1>3. r \in Requests /\ r.at = "close" /\ r.kind = work[w].kind /\ r.server = work[w].server /\ r.then = work[w].then /\ r.met = work[w].met
      /\ r.session = i
  BY <1>2 DEF Requests, Places
<1>4. conns' \in [Servers -> Ids \cup {0}] /\ conns'[Server(w)] = 0 /\ \A s \in Servers : s # Server(w) => conns'[s] = conns[s]
  BY <1>1, <1>2 DEF McpInv, McpTypes
<1>5. i # 0 => /\ sessions[i].open /\ sessions[i].server = Server(w) /\ (\A s \in Servers : conns'[s] # i)
               /\ \A v \in Slots : ~Holds(v, i)
  BY <1>2, <1>4 DEF McpInv, RegisteredIsOpen, InHand
<1> HIDE DEF r, i
<1>6. /\ work' \in [Slots -> Requests] /\ work'[w] = r
      /\ \A v \in Slots : v # w => work'[v] = work[v]
      /\ \A v \in Slots : At(v, "idle")' <=> Server(v)' = 0
      /\ \A v \in Slots : Server(v)' \in {0, Server(v)}
      /\ \A v \in Slots : Single(v) /\ Server(v)' # 0 => Single(v)'
  BY <1>1, <1>3, UnderWay, NoCompany DEF Server
<1>7. McpTypes'
  BY <1>1, <1>4, <1>6 DEF McpInv, McpTypes
<1>8. \A v \in Slots, k \in Ids : Holds(v, k)' <=> Holds(v, k) \/ (v = w /\ k = i)
  BY <1>1, <1>3, <1>6 DEF Holds, At
<1>9. \A s \in Servers, k \in Ids : conns'[s] = k => conns[s] = k
  BY <1>4, McpNumbers
<1>10. InHand'
  <2>1. \A v \in Slots : At(v, "register")' => work'[v].session # 0
    BY <1>3, <1>6 DEF McpInv, InHand, At
  <2>2. ASSUME NEW v \in Slots, NEW k \in Ids, Holds(v, k)'
        PROVE  /\ sessions'[k].open /\ sessions'[k].server = Server(v)'
               /\ \A s \in Servers : conns'[s] # k
               /\ \A u \in Slots : Holds(u, k)' => u = v
    <3>1. Server(v)' = Server(v)
      BY <1>3, <1>6 DEF Server
    <3>2. CASE v = w /\ k = i
      BY <1>1, <1>5, <1>8, <3>1, <3>2, McpNumbers
    <3>3. CASE Holds(v, k)
      BY <1>1, <1>5, <1>8, <1>9, <3>1, <3>3, McpNumbers DEF McpInv, InHand
    <3> QED BY <1>8, <2>2, <3>2, <3>3
  <2> QED
    BY <2>1, <2>2 DEF InHand
<1>11. Roles'
  BY <1>1, <1>3, <1>6 DEF McpInv, Roles, At
<1>12. AloneThen'
  <2> SUFFICES ASSUME NEW v \in Slots, Alone(v)', ~At(v, "idle")'
               PROVE  Single(v)' /\ (At(v, "dial")' \/ At(v, "register")' => conns'[Server(v)'] = 0)
    BY DEF AloneThen
  <2>1. ~At(v, "idle") /\ Alone(v) /\ Server(v)' = Server(v) /\ Single(v)'
    BY <1>1, <1>3, <1>6, UnderWay DEF Alone, At, Server
  <2>2. At(v, "dial")' \/ At(v, "register")' => conns[Server(v)] = 0
    BY <1>3, <1>6, <2>1, UnderWay DEF At
  <2> QED
    BY <1>4, <2>1, <2>2, UnderWay
<1>13. CalmThen'
  <2> SUFFICES ASSUME calm', NEW v \in Slots, ~At(v, "idle")' PROVE InCalm(v)'
    BY DEF CalmThen
  <2>0. calm /\ InCalm(w) /\ Single(w) /\ ~At(v, "idle") /\ InCalm(v) /\ Server(v)' = Server(v) /\ (Single(v) => Single(v)')
    BY <1>1, <1>3, <1>6, UnderWay DEF At, Server, InCalm
  <2>1. CASE v = w
    BY <1>1, <1>3, <1>4, <1>6, <2>0, <2>1 DEF InCalm, At, Server
  <2>2. CASE v # w
    <3>1. conns'[Server(v)] = conns[Server(v)]
      BY <1>1, <1>4, <2>0, <2>2, OthersCalm
    <3> QED
      BY <1>1, <1>6, <2>0, <2>2, <3>1 DEF InCalm, At, Server
  <2> QED BY <2>1, <2>2
<1>14. CalmServers'
  <2> SUFFICES ASSUME calm', NEW s \in Servers PROVE KnownInCalm(s)'
    BY DEF CalmServers
  <2>0. calm /\ KnownInCalm(s)
    BY <1>1 DEF McpInv, CalmServers
  <2>1. CASE s # Server(w)
    <3>1. /\ (\E v \in Slots : Server(v) = s /\ At(v, "close")) => (\E v \in Slots : Server(v) = s /\ At(v, "close"))'
          /\ (\E v \in Slots : Server(v) = s /\ At(v, "drop")) => (\E v \in Slots : Server(v) = s /\ At(v, "drop"))'
          /\ Settling(s) => Settling(s)'
      BY <1>6, <2>1 DEF Settling, Server, At
    <3> QED
      BY <1>1, <1>4, <2>0, <2>1, <3>1 DEF KnownInCalm
  <2>2. CASE s = Server(w)
    <3>1. (\E v \in Slots : Server(v) = s /\ At(v, "close"))'
      BY <1>3, <1>6, <2>2 DEF Server, At
    <3> QED
      BY <1>4, <2>2, <3>1 DEF KnownInCalm
  <2> QED BY <2>1, <2>2
<1>15. NoneLeaks'
  <2> SUFFICES ASSUME NEW k \in Ids, sessions[k].open PROVE conns'[sessions[k].server] = k \/ Held(k)'
    BY <1>1 DEF NoneLeaks
  <2>1. (conns[sessions[k].server] = k \/ Held(k)) /\ sessions[k].server \in Servers
    BY DEF McpInv, NoneLeaks, McpTypes
  <2>2. (Held(k) => Held(k)') /\ (k = i => Held(k)')
    BY <1>8 DEF Held, Holds
  <2> QED
    BY <1>4, <2>1, <2>2 DEF i
<1>16. RegisteredIsOpen'
  BY <1>1, <1>4 DEF McpInv, RegisteredIsOpen
<1> QED
  BY <1>7, <1>10, <1>11, <1>12, <1>13, <1>14, <1>15, <1>16 DEF McpInv

\* The session taken out is closed, and the server is no longer connected.
LEMMA CloseStep == ASSUME McpInv, NEW w \in Slots, Close(w) PROVE McpInv'
<1> DEFINE i == work[w].session
           then == work[w].then
           after == IF health[Server(w)] = "connected" THEN "down" ELSE health[Server(w)]
<1>1. /\ At(w, "close") /\ ~At(w, "idle") /\ UNCHANGED <<configs, offered, conns, news, calm>>
      /\ health' = [health EXCEPT ![Server(w)] = after]
      /\ sessions' = IF i = 0 THEN sessions ELSE [sessions EXCEPT ![i].open = FALSE]
  BY DEF Close, CloseTaken, Closed, At, Rest
<1>2. /\ work[w] \in Requests /\ Server(w) \in Servers /\ i \in Ids \cup {0} /\ then \in {"idle", "get", "erase", "err"}
      /\ sessions \in [Ids -> Sessions]
  BY <1>1, UnderWay DEF Requests, McpInv, McpTypes
<1>3. PICK r \in Requests :
        /\ Goes(w, r) /\ r.server \in {0, Server(w)} /\ r.at = then /\ (r.at = "idle" <=> r.server = 0)
        /\ r.then = "erase" => then = "erase" /\ r.kind = work[w].kind
        /\ r.at # "idle" => r.kind = work[w].kind /\ r.met = work[w].met
  <2>1. CASE then = "idle"
    BY <2>1, IdleFits DEF Close, End
  <2>2. CASE then # "idle"
    <3> DEFINE q == [work[w] EXCEPT !.at = then, !.session = 0]
    <3>1. q \in Requests /\ q.at = then /\ q.kind = work[w].kind /\ q.server = work[w].server /\ q.then = then /\ q.met = work[w].met
      BY <1>2, <2>2 DEF Requests, Places
    <3>2. Goes(w, q)
      BY <2>2 DEF Close
    <3> HIDE DEF q
    <3> QED BY <1>1, <1>2, <2>2, <3>1, <3>2, UnderWay DEF Server
  <2> QED
    BY <2>1, <2>2
<1>4. /\ work' \in [Slots -> Requests] /\ work'[w] = r
      /\ \A v \in Slots : v # w => work'[v] = work[v]
      /\ \A v \in Slots : At(v, "idle")' <=> Server(v)' = 0
      /\ \A v \in Slots : Server(v)' \in {0, Server(v)}
      /\ \A v \in Slots : Single(v) /\ Server(v)' # 0 => Single(v)'
  BY <1>1, <1>3, NoCompany
<1>5. /\ health' \in [Servers -> {"none", "connected", "error", "down"}]
      /\ health'[Server(w)] # "connected" /\ \A s \in Servers : s # Server(w) => health'[s] = health[s]
  BY <1>1, <1>2 DEF McpInv, McpTypes
<1> HIDE DEF i, after
<1>6. /\ sessions' \in [Ids -> Sessions]
      /\ \A k \in Ids : /\ k # i => sessions'[k] = sessions[k]
                        /\ k = i => ~sessions'[k].open
                        /\ sessions'[k].server = sessions[k].server
                        /\ sessions'[k].open => sessions[k].open
  <2>1. CASE i = 0
    BY <1>1, <1>2, <2>1, McpNumbers
  <2>2. CASE i # 0
    <3>1. /\ sessions' \in [Ids -> Sessions]
          /\ sessions'[i] = [sessions[i] EXCEPT !.open = FALSE]
          /\ \A k \in Ids : k # i => sessions'[k] = sessions[k]
      BY <1>1, <1>2, <2>2 DEF Sessions
    <3>2. sessions[i] \in Sessions
      BY <1>2, <2>2
    <3> QED
      BY <3>1, <3>2 DEF Sessions
  <2> QED BY <2>1, <2>2
<1>7. /\ (\A s \in Servers : conns[s] # 0 => conns[s] # i)
      /\ \A v \in Slots, k \in Ids : Holds(v, k)' => Holds(v, k) /\ k # i /\ v # w
  <2>1. Holds(w, i)
    BY <1>1 DEF Holds, At, i
  <2>2. i # 0 => (\A s \in Servers : conns[s] # i) /\ (\A v \in Slots : Holds(v, i) => v = w)
    BY <1>2, <2>1 DEF McpInv, InHand
  <2> QED
    BY <1>2, <1>3, <1>4, <2>2, McpNumbers DEF Holds
<1>8. McpTypes'
  BY <1>1, <1>4, <1>5, <1>6 DEF McpInv, McpTypes
<1>9. InHand'
  <2>1. \A v \in Slots : At(v, "register")' => work'[v].session # 0
    BY <1>2, <1>3, <1>4 DEF McpInv, InHand, At
  <2> QED
    BY <1>1, <1>4, <1>6, <1>7, <2>1 DEF McpInv, InHand, Server
<1>10. Roles'
  BY <1>1, <1>2, <1>3, <1>4 DEF McpInv, Roles, At
<1>11. AloneThen'
  BY <1>1, <1>2, <1>3, <1>4 DEF McpInv, AloneThen, Alone, At, Server
<1>12. CalmThen'
  <2> SUFFICES ASSUME calm', NEW v \in Slots, ~At(v, "idle")' PROVE InCalm(v)'
    BY DEF CalmThen
  <2>0. calm /\ InCalm(w) /\ ~At(v, "idle") /\ InCalm(v) /\ Server(v)' = Server(v) /\ (Single(v) => Single(v)')
    BY <1>1, <1>3, <1>4, UnderWay DEF At, Server
  <2>1. CASE v = w
    BY <1>1, <1>2, <1>3, <1>4, <2>0, <2>1 DEF InCalm, At, Server
  <2>2. CASE v # w
    <3>1. At(v, "register") => sessions'[work[v].session] = sessions[work[v].session]
      BY <1>4, <1>6, <1>7, <2>0, <2>2, UnderWay DEF Holds, At, McpInv, InHand, Requests
    <3> QED
      BY <1>1, <1>4, <2>0, <2>2, <3>1 DEF InCalm, At, Server
  <2> QED BY <2>1, <2>2
<1>13. CalmServers'
  <2> SUFFICES ASSUME calm', NEW s \in Servers PROVE KnownInCalm(s)'
    BY DEF CalmServers
  <2>0. calm /\ KnownInCalm(s) /\ InCalm(w)
    BY <1>1, UnderWay DEF McpInv, CalmServers
  <2>1. CASE s # Server(w)
    <3>1. /\ (\E v \in Slots : Server(v) = s /\ At(v, "close")) => (\E v \in Slots : Server(v) = s /\ At(v, "close"))'
          /\ (\E v \in Slots : Server(v) = s /\ At(v, "drop")) => (\E v \in Slots : Server(v) = s /\ At(v, "drop"))'
          /\ Settling(s) => Settling(s)'
      BY <1>4, <2>1 DEF Settling, Server, At
    <3>2. conns[s] # 0 => sessions'[conns[s]] = sessions[conns[s]]
      BY <1>6, <1>7 DEF McpInv, McpTypes
    <3> QED
      BY <1>1, <1>5, <2>0, <2>1, <3>1, <3>2 DEF KnownInCalm
  <2>2. CASE s = Server(w)
    BY <1>1, <1>5, <2>0, <2>2 DEF InCalm, KnownInCalm, At
  <2> QED BY <2>1, <2>2
<1>14. NoneLeaks'
  <2> SUFFICES ASSUME NEW k \in Ids, sessions'[k].open PROVE conns[sessions[k].server] = k \/ Held(k)'
    BY <1>1, <1>6 DEF NoneLeaks
  <2>1. k # i /\ (conns[sessions[k].server] = k \/ Held(k))
    BY <1>6 DEF McpInv, NoneLeaks
  <2>2. Held(k) => Held(k)'
    BY <1>4, <2>1 DEF Held, i
  <2> QED
    BY <2>1, <2>2
<1>15. RegisteredIsOpen'
  BY <1>1, <1>6, <1>7 DEF McpInv, McpTypes, RegisteredIsOpen
<1> QED
  BY <1>8, <1>9, <1>10, <1>11, <1>12, <1>13, <1>14, <1>15 DEF McpInv

\* A configuration is written or erased by a request that is alone at its server, as long as the history is calm.
LEMMA ConfigStep == ASSUME McpInv, NEW w \in Slots, Write(w) \/ Erase(w) PROVE McpInv'
<1> DEFINE new == IF At(w, "write") THEN configs[Server(w)] + 1 ELSE 0
<1>1. /\ At(w, "write") \/ At(w, "erase")
      /\ UNCHANGED <<conns, sessions, health, offered, news, calm>>
      /\ configs' = [configs EXCEPT ![Server(w)] = new]
      /\ IF At(w, "write") THEN To(w, "drop") ELSE Goes(w, Idle)
  BY DEF Write, Erase, At, Same, End
<1>2. /\ ~At(w, "idle") /\ work[w] \in Requests /\ Server(w) \in Servers /\ new \in Nat
      /\ calm => Single(w)
  <2>1. ~At(w, "idle")
    BY <1>1 DEF At
  <2> QED
    BY <1>1, <2>1, UnderWay DEF InCalm, McpInv, Roles
<1>3. PICK r \in Requests :
        /\ Goes(w, r) /\ r.server \in {0, Server(w)} /\ (r.at = "idle" <=> r.server = 0)
        /\ r.then = "erase" => work[w].then = "erase" /\ r.kind = work[w].kind
        /\ r.at = IF At(w, "write") THEN "drop" ELSE "idle"
        /\ r.at # "idle" => r.kind = work[w].kind /\ r.met = work[w].met
  <2>1. CASE At(w, "write")
    <3> DEFINE q == [work[w] EXCEPT !.at = "drop"]
    <3>1. q \in Requests /\ q.at = "drop" /\ q.kind = work[w].kind /\ q.server = work[w].server /\ q.then = work[w].then /\ q.met = work[w].met
      BY <1>2 DEF Requests, Places
    <3>2. Goes(w, q)
      BY <1>1, <2>1 DEF To
    <3> HIDE DEF q
    <3> QED BY <1>2, <2>1, <3>1, <3>2, UnderWay DEF Server
  <2>2. CASE ~At(w, "write")
    BY <1>1, <2>2, IdleFits
  <2> QED
    BY <2>1, <2>2
<1>4. /\ work' \in [Slots -> Requests] /\ work'[w] = r
      /\ \A v \in Slots : v # w => work'[v] = work[v]
      /\ \A v \in Slots : At(v, "idle")' <=> Server(v)' = 0
      /\ \A v \in Slots : Server(v)' \in {0, Server(v)}
      /\ \A v \in Slots : Single(v) /\ Server(v)' # 0 => Single(v)'
  BY <1>2, <1>3, NoCompany
<1>5. configs' \in [Servers -> Nat] /\ \A s \in Servers : s # Server(w) => configs'[s] = configs[s]
  BY <1>1, <1>2 DEF McpInv, McpTypes
<1> HIDE DEF new
<1>6. McpTypes'
  BY <1>1, <1>4, <1>5 DEF McpInv, McpTypes
<1>7. \A v \in Slots, k \in Ids : Holds(v, k)' <=> Holds(v, k)
  BY <1>1, <1>3, <1>4 DEF Holds, At
<1>8. InHand'
  BY <1>1, <1>3, <1>4, <1>7 DEF McpInv, InHand, At, Server, Holds
<1>9. Roles' /\ AloneThen'
  BY <1>1, <1>3, <1>4 DEF McpInv, Roles, AloneThen, Alone, At, Server
<1>10. CalmThen'
  <2> SUFFICES ASSUME calm', NEW v \in Slots, ~At(v, "idle")' PROVE InCalm(v)'
    BY DEF CalmThen
  <2>0. calm /\ InCalm(w) /\ ~At(v, "idle") /\ InCalm(v) /\ Server(v)' = Server(v) /\ (Single(v) => Single(v)')
    BY <1>1, <1>2, <1>3, <1>4, UnderWay DEF At, Server
  <2>1. CASE v = w
    BY <1>1, <1>2, <1>3, <1>4, <2>0, <2>1 DEF InCalm, At, Server
  <2>2. CASE v # w
    <3>1. configs'[Server(v)] = configs[Server(v)]
      BY <1>2, <1>5, <2>0, <2>2, OthersCalm
    <3> QED
      BY <1>1, <1>4, <2>0, <2>2, <3>1 DEF InCalm, At, Server
  <2> QED BY <2>1, <2>2
<1>11. CalmServers'
  <2> SUFFICES ASSUME calm', NEW s \in Servers PROVE KnownInCalm(s)'
    BY DEF CalmServers
  <2>0. calm /\ KnownInCalm(s) /\ InCalm(w)
    BY <1>1, <1>2, UnderWay DEF McpInv, CalmServers
  <2>1. /\ (\E v \in Slots : Server(v) = s /\ At(v, "close")) => (\E v \in Slots : Server(v) = s /\ At(v, "close"))'
        /\ (\E v \in Slots : Server(v) = s /\ At(v, "drop")) => (\E v \in Slots : Server(v) = s /\ At(v, "drop"))'
        /\ Settling(s) => Settling(s)'
    BY <1>1, <1>4 DEF Settling, Server, At
  <2>2. CASE s # Server(w)
    BY <1>1, <1>5, <2>0, <2>1, <2>2 DEF KnownInCalm
  <2>3. CASE s = Server(w)
    <3>1. conns[s] # 0 => (\E v \in Slots : Server(v) = s /\ At(v, "drop"))'
      BY <1>1, <1>2, <1>3, <1>4, <2>0, <2>3, UnderWay DEF InCalm, Server, At
    <3> QED
      BY <1>1, <2>0, <2>1, <3>1 DEF KnownInCalm
  <2> QED BY <2>2, <2>3
<1>12. NoneLeaks' /\ RegisteredIsOpen'
  <2>1. \A k \in Ids : Held(k)' <=> Held(k)
    BY <1>7 DEF Held, Holds
  <2> QED
    BY <1>1, <2>1 DEF McpInv, NoneLeaks, RegisteredIsOpen
<1> QED
  BY <1>6, <1>8, <1>9, <1>10, <1>11, <1>12 DEF McpInv

\* A request that begins: whoever is at the same server has company from now on, and a calm history stays calm only
\* when neither side changes, removes or fails anything.
LEMMA StartStep == ASSUME McpInv, NEW w \in Slots, NEW k \in Kinds, NEW s \in Servers, Start(w, k, s) PROVE McpInv'
<1> DEFINE others == {v \in Slots : work[v].server = s}
           r == [Idle EXCEPT !.kind = k, !.server = s, !.at = FirstStep(k), !.then = AfterDrop(k), !.met = others # {}]
<1>1. /\ At(w, "idle") /\ UNCHANGED <<configs, conns, sessions, health, offered, news>>
      /\ work' = [v \in Slots |-> IF v = w THEN r ELSE [work[v] EXCEPT !.met = @ \/ v \in others]]
      /\ calm' = (calm /\ \A v \in Slots : work[v].server = s =>
                      {k, work[v].kind} \cap {"put", "delete", "test"} = {} /\ work[v].at \notin {"err", "drop", "close"})
  BY DEF Start
<1>2. /\ FirstStep(k) \in {"get", "peek", "find", "write", "drop"} /\ (FirstStep(k) = "write" => k = "put")
      /\ (FirstStep(k) = "drop" => k \in {"delete", "test"})
      /\ AfterDrop(k) \in {"idle", "get", "erase"} /\ (AfterDrop(k) = "erase" => k = "delete")
  BY DEF FirstStep, AfterDrop, Kinds
<1>3. r \in Requests /\ r.kind = k /\ r.server = s /\ r.at = FirstStep(k) /\ r.then = AfterDrop(k) /\ r.met = (others # {}) /\ r.session = 0
  BY <1>2 DEF Idle, Requests, Places
<1>4. work \in [Slots -> Requests] /\ calm \in BOOLEAN /\ Server(w) = 0 /\ s # 0
  BY <1>1, McpNumbers DEF McpInv, McpTypes
<1> HIDE DEF r
<1>5. /\ work' \in [Slots -> Requests] /\ work'[w] = r
      /\ \A v \in Slots : v # w => /\ work'[v].kind = work[v].kind /\ work'[v].server = work[v].server /\ work'[v].at = work[v].at
                                   /\ work'[v].cfg = work[v].cfg /\ work'[v].session = work[v].session /\ work'[v].list = work[v].list
                                   /\ work'[v].then = work[v].then /\ work'[v].met = (work[v].met \/ work[v].server = s)
  <2>1. work'[w] = r
    BY <1>1
  <2>2. ASSUME NEW v \in Slots, v # w
        PROVE  /\ work'[v] \in Requests /\ work'[v].kind = work[v].kind /\ work'[v].server = work[v].server /\ work'[v].at = work[v].at
               /\ work'[v].cfg = work[v].cfg /\ work'[v].session = work[v].session /\ work'[v].list = work[v].list
               /\ work'[v].then = work[v].then /\ work'[v].met = (work[v].met \/ work[v].server = s)
    <3>1. work'[v] = [work[v] EXCEPT !.met = work[v].met \/ v \in others] /\ (v \in others <=> work[v].server = s) /\ work[v] \in Requests
      BY <1>1, <1>4, <2>2
    <3> HIDE DEF others
    <3> QED BY <3>1 DEF Requests
  <2>3. work' = [v \in Slots |-> work'[v]]
    BY <1>1
  <2> QED BY <1>3, <2>1, <2>2, <2>3
<1>6. calm' \in BOOLEAN /\ (calm' => calm)
  BY <1>1, <1>4
<1>7. McpTypes'
  <2>1. \A v \in Slots : At(v, "idle")' <=> Server(v)' = 0
    BY <1>2, <1>3, <1>4, <1>5 DEF McpInv, McpTypes, At, Server
  <2> QED
    BY <1>1, <1>5, <1>6, <2>1 DEF McpInv, McpTypes
<1>8. \A v \in Slots, i \in Ids : Holds(v, i)' <=> Holds(v, i)
  BY <1>1, <1>2, <1>3, <1>5 DEF Holds, At
<1>9. InHand'
  BY <1>1, <1>2, <1>3, <1>5, <1>8 DEF McpInv, InHand, At, Server, Holds
<1>10. Roles'
  BY <1>2, <1>3, <1>5 DEF McpInv, Roles, At
<1>11. \A v \in Slots : v # w /\ Single(v) /\ work[v].server # s => Single(v)'
  BY <1>3, <1>5 DEF Single, Server
<1>12. others = {} => Single(w)'
  BY <1>3, <1>5 DEF Single, Server
<1>13. AloneThen'
  <2> SUFFICES ASSUME NEW v \in Slots, Alone(v)', ~At(v, "idle")'
               PROVE  Single(v)' /\ (At(v, "dial")' \/ At(v, "register")' => conns'[Server(v)'] = 0)
    BY DEF AloneThen
  <2>1. CASE v = w
    BY <1>2, <1>3, <1>5, <1>12, <2>1 DEF Alone, At, Server
  <2>2. CASE v # w
    <3>1. work'[v].met = (work[v].met \/ work[v].server = s)
      BY <1>5, <2>2
    <3>2. Alone(v) /\ work[v].server # s
      BY <3>1 DEF Alone
    <3> QED
      BY <1>1, <1>5, <1>11, <2>2, <3>2 DEF McpInv, AloneThen, At, Server
  <2> QED BY <2>1, <2>2
<1>14. CalmThen'
  <2> SUFFICES ASSUME calm', NEW v \in Slots, ~At(v, "idle")' PROVE InCalm(v)'
    BY DEF CalmThen
  <2>0. calm /\ \A u \in Slots : work[u].server = s =>
          k \notin {"put", "delete", "test"} /\ work[u].kind \notin {"put", "delete", "test"} /\ work[u].at \notin {"err", "drop", "close"}
    BY <1>1, <1>6
  <2>1. CASE v = w
    <3>1. k \in {"put", "delete", "test"} => Single(w)'
      BY <1>12, <2>0
    <3> QED
      BY <1>2, <1>3, <1>5, <2>1, <3>1 DEF InCalm, At, Server
  <2>2. CASE v # w
    <3>1. InCalm(v) /\ Server(v)' = Server(v)
      BY <1>5, <2>0, <2>2, UnderWay DEF At, Server
    <3>2. (work[v].kind \in {"put", "delete", "test"} \/ work[v].at \in {"err", "drop", "close"}) => Single(v)'
      BY <1>11, <2>0, <2>2, <3>1 DEF InCalm
    <3> QED
      BY <1>1, <1>5, <2>2, <3>1, <3>2 DEF InCalm, At, Server
  <2> QED BY <2>1, <2>2
<1>15. CalmServers'
  <2> SUFFICES ASSUME calm', NEW t \in Servers PROVE KnownInCalm(t)'
    BY DEF CalmServers
  <2>1. calm /\ KnownInCalm(t)
    BY <1>6 DEF McpInv, CalmServers
  <2>2. /\ Settling(t) => Settling(t)'
        /\ (\E v \in Slots : Server(v) = t /\ At(v, "close")) => (\E v \in Slots : Server(v) = t /\ At(v, "close"))'
        /\ (\E v \in Slots : Server(v) = t /\ At(v, "drop")) => (\E v \in Slots : Server(v) = t /\ At(v, "drop"))'
    BY <1>1, <1>5 DEF Settling, Server, At
  <2> QED
    BY <1>1, <2>1, <2>2 DEF KnownInCalm
<1>16. NoneLeaks' /\ RegisteredIsOpen'
  <2>1. \A i \in Ids : Held(i)' <=> Held(i)
    BY <1>8 DEF Held, Holds
  <2> QED
    BY <1>1, <2>1 DEF McpInv, NoneLeaks, RegisteredIsOpen
<1> QED
  BY <1>7, <1>9, <1>10, <1>13, <1>14, <1>15, <1>16 DEF McpInv

\* A server that changes its list announces it to every session it has; the cache is stale until that is handled.
LEMMA ChangeStep == ASSUME McpInv, NEW s \in Servers, Change(s) PROVE McpInv'
<1>1. /\ offered' = [offered EXCEPT ![s] = @ + 1] /\ news' = news \cup {i \in Ids : sessions[i].server = s /\ Alive(i)}
      /\ calm' = (calm /\ ~Listing(s)) /\ UNCHANGED <<configs, conns, sessions, health, work>>
  BY DEF Change
<1>2. /\ offered' \in [Servers -> Nat] /\ news' \in SUBSET Ids /\ calm' \in BOOLEAN /\ (calm' => calm)
      /\ \A t \in Servers : t # s => offered'[t] = offered[t]
  BY <1>1 DEF McpInv, McpTypes
<1>3. McpTypes'
  BY <1>1, <1>2 DEF McpInv, McpTypes, At, Server, Alive
<1>4. InHand' /\ Roles' /\ AloneThen' /\ NoneLeaks' /\ RegisteredIsOpen'
  BY <1>1 DEF McpInv, InHand, Holds, Roles, AloneThen, Alone, Single, At, Server, NoneLeaks, Held, RegisteredIsOpen
<1>5. CalmThen'
  <2> SUFFICES ASSUME calm', NEW v \in Slots, ~At(v, "idle")' PROVE InCalm(v)'
    BY DEF CalmThen
  <2>1. InCalm(v) /\ ~Listing(s) /\ Server(v) \in Servers
    BY <1>1, <1>2, UnderWay DEF At
  <2>2. At(v, "store") => offered'[Server(v)] = offered[Server(v)]
    BY <1>2, <2>1 DEF Listing, At, Server
  <2> QED
    BY <1>1, <2>1, <2>2 DEF InCalm, At, Server, Single
<1>6. CalmServers'
  <2> SUFFICES ASSUME calm', NEW t \in Servers PROVE KnownInCalm(t)'
    BY DEF CalmServers
  <2>1. KnownInCalm(t)
    BY <1>2 DEF McpInv, CalmServers
  <2>2. t = s /\ conns[t] # 0 /\ sessions[conns[t]].alive => conns[t] \in news'
    BY <1>1 DEF McpInv, McpTypes, RegisteredIsOpen, Alive
  <2> QED
    BY <1>1, <1>2, <2>1, <2>2 DEF KnownInCalm, Settling, At, Server
<1> QED
  BY <1>3, <1>4, <1>5, <1>6 DEF McpInv

\* The handling of an announcement, and the end of a session at its server, leave an open session open.
LEMMA NewsStep == ASSUME McpInv, NEW i \in Ids, Announce(i) \/ Die(i) PROVE McpInv'
<1>1. /\ news' = news \ {i} /\ UNCHANGED <<configs, conns, health, work, offered>>
      /\ calm' \in BOOLEAN /\ (calm' => calm)
  <2>1. calm \in BOOLEAN /\ news \in SUBSET Ids
    BY DEF McpInv, McpTypes
  <2>2. CASE Announce(i)
    BY <2>1, <2>2 DEF Announce
  <2>3. CASE Die(i)
    BY <2>1, <2>3 DEF Die
  <2> QED BY <2>2, <2>3
<1>2. sessions \in [Ids -> Sessions]
  BY DEF McpInv, McpTypes
<1>3. /\ sessions' \in [Ids -> Sessions]
      /\ \A k \in Ids : /\ sessions'[k].server = sessions[k].server /\ sessions'[k].cfg = sessions[k].cfg
                        /\ sessions'[k].open = sessions[k].open /\ sessions'[k].list = sessions[k].list
                        /\ sessions'[k].fresh => sessions[k].fresh
                        /\ sessions'[k].alive => sessions[k].alive
  <2>1. CASE Announce(i)
    <3> DEFINE c == conns[sessions[i].server]
    <3>1. sessions' = IF c = 0 THEN sessions ELSE [sessions EXCEPT ![c].fresh = FALSE]
      BY <2>1 DEF Announce, CacheDropped
    <3> HIDE DEF c
    <3> QED
      BY <1>2, <3>1 DEF Sessions
  <2>2. CASE Die(i)
    BY <1>2, <2>2 DEF Die, Sessions
  <2> QED BY <2>1, <2>2
<1>4. \A s \in Servers : conns[s] = i => ~sessions'[i].alive \/ ~sessions'[i].fresh
  <2> SUFFICES ASSUME NEW s \in Servers, conns[s] = i PROVE ~sessions'[i].alive \/ ~sessions'[i].fresh
    OBVIOUS
  <2>1. sessions[i].server = s /\ i # 0
    BY McpNumbers DEF McpInv, RegisteredIsOpen
  <2>2. CASE Announce(i)
    BY <1>2, <2>1, <2>2 DEF Announce, CacheDropped, Sessions
  <2>3. CASE Die(i)
    BY <1>2, <2>3 DEF Die, Sessions
  <2> QED BY <2>2, <2>3
<1>5. McpTypes'
  BY <1>1, <1>3 DEF McpInv, McpTypes, At, Server
<1>6. InHand' /\ Roles' /\ AloneThen'
  BY <1>1, <1>3 DEF McpInv, InHand, Holds, Roles, AloneThen, Alone, Single, At, Server
<1>7. NoneLeaks' /\ RegisteredIsOpen'
  BY <1>1, <1>3 DEF McpInv, McpTypes, NoneLeaks, Held, RegisteredIsOpen
<1>8. CalmThen'
  <2> SUFFICES ASSUME calm', NEW v \in Slots, ~At(v, "idle")' PROVE InCalm(v)'
    BY DEF CalmThen
  <2>1. InCalm(v)
    BY <1>1, UnderWay DEF At
  <2>2. At(v, "register") => work[v].session \in Ids
    BY DEF McpInv, McpTypes, Requests, InHand
  <2> QED
    BY <1>1, <1>3, <2>1, <2>2 DEF InCalm, At, Server, Single
<1>9. CalmServers'
  <2> SUFFICES ASSUME calm', NEW t \in Servers PROVE KnownInCalm(t)'
    BY DEF CalmServers
  <2>1. KnownInCalm(t) /\ conns[t] \in Ids \cup {0}
    BY <1>1 DEF McpInv, McpTypes, CalmServers
  <2> QED
    BY <1>1, <1>3, <1>4, <2>1 DEF KnownInCalm, Settling, At, Server
<1> QED
  BY <1>5, <1>6, <1>7, <1>8, <1>9 DEF McpInv

LEMMA McpStarts == McpInit => McpInv
<1> SUFFICES ASSUME McpInit PROVE McpInv
  OBVIOUS
<1>1. \A w \in Slots : work[w] = Idle
  BY DEF McpInit
<1>2. \A i \in Ids : sessions[i] = Unused /\ ~Unused.open
  BY DEF McpInit, Unused
<1>3. McpTypes
  <2>1. Unused \in Sessions
    BY DEF Unused, Sessions
  <2> QED
    BY <1>1, <1>2, <2>1, IdleFits DEF McpInit, McpTypes, At, Server
<1>4. InHand /\ Roles /\ AloneThen /\ CalmThen
  BY <1>1, IdleFits DEF InHand, Holds, Roles, AloneThen, CalmThen, At
<1>5. CalmServers /\ NoneLeaks /\ RegisteredIsOpen
  BY <1>2 DEF McpInit, CalmServers, KnownInCalm, NoneLeaks, RegisteredIsOpen
<1> QED
  BY <1>3, <1>4, <1>5 DEF McpInv

LEMMA McpMoves == McpInv /\ [McpNext]_mcpVars => McpInv'
<1> SUFFICES ASSUME McpInv, [McpNext]_mcpVars PROVE McpInv'
  OBVIOUS
<1>1. ASSUME NEW w \in Slots, Step(w) PROVE McpInv'
  BY <1>1, FindStep, GetConfigStep, LookStep, FailStep, ListStep, DialStep, RegisterStep, StoreStep, MarkStep, DropStep, CloseStep, ConfigStep
     DEF Step
<1>2. ASSUME NEW w \in Slots, NEW k \in Kinds, NEW s \in Servers, Start(w, k, s) PROVE McpInv'
  BY <1>2, StartStep
<1>3. ASSUME NEW s \in Servers, Change(s) PROVE McpInv'
  BY <1>3, ChangeStep
<1>4. ASSUME NEW i \in Ids, Announce(i) \/ Die(i) PROVE McpInv'
  BY <1>4, NewsStep
<1>5. CASE UNCHANGED mcpVars
  BY <1>5 DEF mcpVars, McpInv, McpTypes, InHand, Holds, Roles, AloneThen, CalmThen, InCalm, CalmServers, KnownInCalm, Settling, Single, Alone,
              At, Server, NoneLeaks, Held, RegisteredIsOpen
<1> QED
  BY <1>1, <1>2, <1>3, <1>4, <1>5 DEF McpNext

LEMMA McpInvFits == McpInv => McpSound
<1> SUFFICES ASSUME McpInv PROVE McpSound
  OBVIOUS
<1>1. ASSUME NEW s \in Servers, Quiet(s)
      PROVE  /\ (health[s] = "connected") <=> (conns[s] # 0)
             /\ conns[s] # 0 => sessions[conns[s]].cfg = configs[s]
             /\ LET c == sessions[conns[s]] IN conns[s] # 0 /\ c.fresh /\ c.alive /\ conns[s] \notin news => c.list = offered[s]
  <2>1. KnownInCalm(s) /\ \A w \in Slots : Server(w) # s
    BY <1>1 DEF Quiet, McpInv, CalmServers, Server
  <2> QED
    BY <2>1 DEF KnownInCalm, Settling
<1>2. HealthKnown /\ ConfigInUse /\ ListInUse
  BY <1>1 DEF HealthKnown, ConfigInUse, ListInUse
<1> QED
  BY <1>2 DEF McpInv, McpSound

-----------------------------------------------------------------------------
(* The exchanges with a model: the invariant.                              *)

Tools == {"look", "act"}
LEMMA ToolsFit ==
  IsFiniteSet(Exchanges) /\ MaxPerConn \in Nat /\ MaxApprovals \in Nat /\ MCReplies \subseteq Seq(Tools)
<1>1. <<>> \in Seq(Tools) /\ <<"look">> \in Seq(Tools) /\ <<"act", "look">> \in Seq(Tools)
  BY DEF Tools
<1> QED
  BY <1>1, ServicesAssumption DEF MCReplies

Verdicts == {"none", "free", "yes", "no", "late"}
ToolPlaces == {"idle", "start", "acquire", "chat", "call", "ask", "wait", "clear", "run", "finish", "over"}
Exchange == [at : ToolPlaces, tools : BOOLEAN, turn : Nat, todo : Seq(Tools), thread : Seq(Seq(Tools)), asks : 0..MaxApprovals,
             verdict : Verdicts, ended : {"no", "limit", "error", "done", "gone"}]
Asked == [known : BOOLEAN, shown : BOOLEAN, box : {"empty", "yes", "no"}, first : {"none", "yes", "no"}]
ToolTypes ==
    /\ exchange \in [Exchanges -> Exchange]
    /\ approvals \in [T!Approvals -> Asked]
    /\ decisions \in SUBSET [id : T!Approvals, choice : {"yes", "no"}]
    /\ ran \in SUBSET [at : Exchanges \X Nat, tool : Tools, approval : 0..MaxApprovals]
\* An exchange in the middle of a turn has a call to do, the p-th message made the calls, and the results of those done follow it.
MidTurn(e) == T!X(e).at \in {"call", "ask", "wait", "clear", "run"}
HalfPaired(t, todo) ==
    \E p \in 1..Len(t) :
        /\ \E Q \in SUBSET (1..(p - 1)) : T!Paired(t, Q, p - 1)
        /\ Len(todo) <= Len(t[p]) /\ p + (Len(t[p]) - Len(todo)) = Len(t)
        /\ \A k \in 1..(Len(t[p]) - Len(todo)) : t[p + k] = <<t[p][k]>>
        /\ \A k \in 1..Len(todo) : todo[k] = t[p][Len(t[p]) - Len(todo) + k]
TurnFits(e) ==
    /\ T!X(e).at \in {"idle", "start", "acquire"} => T!X(e).thread = <<>>
    /\ MidTurn(e) => T!X(e).todo # <<>> /\ HalfPaired(T!X(e).thread, T!X(e).todo)
\* What the exchange knows of its approval, and what the approval holds.
ConsentFits(e) ==
    LET a == approvals[T!Approval(e)] IN
    /\ \A k \in 1..MaxApprovals : k > T!X(e).asks => approvals[<<e, k>>] = T!Unasked
    /\ T!X(e).at \in {"ask", "wait", "clear"} => T!X(e).asks > 0 /\ Head(T!X(e).todo) \notin MCReadOnly
    /\ T!X(e).at \in {"ask", "wait"} => (a.box = "empty" /\ a.first = "none") \/ (a.box # "empty" /\ a.first = a.box)
    /\ T!At(e, "clear") => T!X(e).verdict \in {"yes", "no", "late"}
    /\ T!X(e).at \in {"clear", "run"} /\ T!X(e).verdict = "yes" => T!X(e).asks > 0 /\ a.first = "yes"
    /\ T!At(e, "run") /\ T!X(e).verdict = "free" => Head(T!X(e).todo) \in MCReadOnly
\* A decision under way is about an approval the user was shown; a call that ran is not the one that comes next.
DecisionsFit == \A d \in decisions : approvals[d.id].shown
RanBefore == \A r \in ran : r.at[2] < Len(T!X(r.at[1]).thread) /\ (r.tool \notin MCReadOnly => r.approval > 0)
\* The invariant: what an exchange knows of its turn and its approval, besides what is to be shown.
ToolInv ==
    /\ ToolTypes /\ (\A e \in Exchanges : TurnFits(e) /\ ConsentFits(e)) /\ DecisionsFit /\ RanBefore
    /\ T!SlotsRight /\ T!RanApproved /\ T!Threaded /\ T!NoneForgotten

\* The exchange that moves is the only one whose record changes.
LEMMA ExchangeMoves ==
  ASSUME ToolTypes, NEW e \in Exchanges, NEW r \in Exchange, T!Goes(e, r)
  PROVE  /\ exchange' \in [Exchanges -> Exchange] /\ T!X(e)' = r
         /\ \A f \in Exchanges : f # e => T!X(f)' = T!X(f)
BY DEF ToolTypes, T!Goes, T!X

\* The module of the exchanges counts as this one does.
LEMMA CardinalityAgrees == \A S : T!Cardinality(S) = Cardinality(S)
BY DEF T!Cardinality, Cardinality

\* The slots stay those of the exchanges that hold one, when an exchange takes or gives back its own.
LEMMA SlotsStep ==
  ASSUME T!SlotsRight, NEW e \in Exchanges, \A f \in Exchanges : f # e => (T!Holding(f)' <=> T!Holding(f)),
         \/ slots' = slots /\ (T!Holding(e)' <=> T!Holding(e))
         \/ slots' = slots + 1 /\ slots < MaxPerConn /\ ~T!Holding(e) /\ T!Holding(e)'
         \/ slots' = slots - 1 /\ T!Holding(e) /\ ~T!Holding(e)'
  PROVE  T!SlotsRight'
<1> USE ToolsFit
<1> USE CardinalityAgrees
<1> DEFINE H == {f \in Exchanges : T!Holding(f)}
           I == {f \in Exchanges : T!Holding(f)'}
<1>1. IsFiniteSet(H) /\ Cardinality(H) \in Nat /\ slots = Cardinality(H) /\ slots <= MaxPerConn
  BY FS_Subset, FS_CardinalityType DEF T!SlotsRight
<1>2. CASE slots' = slots /\ (T!Holding(e)' <=> T!Holding(e))
  <2>1. I = H
    BY <1>2
  <2> QED BY <1>1, <1>2, <2>1 DEF T!SlotsRight
<1>3. CASE slots' = slots + 1 /\ slots < MaxPerConn /\ ~T!Holding(e) /\ T!Holding(e)'
  <2>1. I = H \cup {e} /\ e \notin H
    BY <1>3
  <2> HIDE DEF I, H
  <2>2. Cardinality(I) = Cardinality(H) + 1
    BY <1>1, <2>1, FS_AddElement
  <2>3. slots' = Cardinality(I) /\ slots' <= MaxPerConn
    BY <1>1, <1>3, <2>2
  <2> QED BY <2>3 DEF T!SlotsRight, I
<1>4. CASE slots' = slots - 1 /\ T!Holding(e) /\ ~T!Holding(e)'
  <2>1. I = H \ {e} /\ e \in H
    BY <1>4
  <2> HIDE DEF I, H
  <2>2. Cardinality(I) = Cardinality(H) - 1
    BY <1>1, <2>1, FS_RemoveElement
  <2>3. slots' = Cardinality(I) /\ slots' <= MaxPerConn
    BY <1>1, <1>4, <2>2
  <2> QED BY <2>3 DEF T!SlotsRight, I
<1> QED BY <1>2, <1>3, <1>4

\* What a step of one exchange has to keep, for all of them to be kept.
LEMMA ExchangeKeepsAll ==
  ASSUME ToolInv, NEW e \in Exchanges, NEW r \in Exchange, T!Goes(e, r),
         approvals' \in [T!Approvals -> Asked], \A a \in T!Approvals : a[1] # e => approvals'[a] = approvals[a],
         \A a \in T!Approvals : /\ approvals[a].first = "yes" => approvals'[a].first = "yes"
                                /\ approvals[a].shown => approvals'[a].shown,
         decisions' = decisions, ran' \in SUBSET [at : Exchanges \X Nat, tool : Tools, approval : 0..MaxApprovals],
         RanBefore', T!RanApproved',
         \/ slots' = slots /\ (T!Holding(e)' <=> T!Holding(e))
         \/ slots' = slots + 1 /\ slots < MaxPerConn /\ ~T!Holding(e) /\ T!Holding(e)'
         \/ slots' = slots - 1 /\ T!Holding(e) /\ ~T!Holding(e)',
         TurnFits(e)', ConsentFits(e)',
         r.at = "chat" => \E Q \in SUBSET (1..Len(r.thread)) : T!Paired(r.thread, Q, Len(r.thread)),
         \A k \in 1..MaxApprovals : approvals'[<<e, k>>].known => k = r.asks /\ r.at \in {"ask", "wait", "clear"}
  PROVE  ToolInv'
<1>1. /\ exchange' \in [Exchanges -> Exchange] /\ T!X(e)' = r
      /\ \A f \in Exchanges : f # e => T!X(f)' = T!X(f)
  BY ExchangeMoves DEF ToolInv
<1>2. ToolTypes'
  BY <1>1 DEF ToolInv, ToolTypes
<1>3. T!SlotsRight'
  BY <1>1, SlotsStep DEF ToolInv, T!Holding
<1>4. ASSUME NEW f \in Exchanges PROVE TurnFits(f)' /\ ConsentFits(f)'
  <2>1. CASE f # e
    <3>1. \A k \in 1..MaxApprovals : <<f, k>> \in T!Approvals /\ approvals'[<<f, k>>] = approvals[<<f, k>>]
      BY <2>1 DEF T!Approvals
    <3>2. T!X(f)' = T!X(f) /\ T!X(f).asks \in 0..MaxApprovals /\ T!Approval(f)' = T!Approval(f)
      BY <1>1, <2>1 DEF T!Approval, ToolInv, ToolTypes, Exchange, T!X
    <3>3. TurnFits(f) /\ ConsentFits(f)
      BY DEF ToolInv
    <3>4. T!X(f).asks > 0 => approvals'[T!Approval(f)] = approvals[T!Approval(f)]
      BY <3>1, <3>2 DEF T!Approval
    <3>5. TurnFits(f)'
      BY <3>2, <3>3 DEF TurnFits, MidTurn
    <3>6. ConsentFits(f)'
      BY <3>1, <3>2, <3>3, <3>4 DEF ConsentFits, T!At
    <3> QED BY <3>5, <3>6
  <2> QED BY <2>1
<1>5. DecisionsFit'
  BY DEF ToolInv, ToolTypes, DecisionsFit
<1>7. T!Threaded'
  BY <1>1 DEF ToolInv, T!Threaded, T!At
<1>8. T!NoneForgotten'
  <2> SUFFICES ASSUME NEW a \in T!Approvals, approvals'[a].known PROVE a = T!Approval(a[1])' /\ T!X(a[1])'.at \in {"ask", "wait", "clear"}
    BY DEF T!NoneForgotten
  <2>1. a = <<a[1], a[2]>> /\ a[1] \in Exchanges /\ a[2] \in 1..MaxApprovals
    BY DEF T!Approvals
  <2>2. CASE a[1] = e
    BY <1>1, <2>1, <2>2 DEF T!Approval
  <2>3. CASE a[1] # e
    BY <1>1, <2>1, <2>3 DEF ToolInv, T!NoneForgotten, T!Approval
  <2> QED BY <2>2, <2>3
<1> QED
  BY <1>2, <1>3, <1>4, <1>5, <1>7, <1>8 DEF ToolInv

\* The calls that ran stay those that ran on the user's consent, when none is added.
LEMMA ExchangeKeeps ==
  ASSUME ToolInv, NEW e \in Exchanges, NEW r \in Exchange, T!Goes(e, r),
         approvals' \in [T!Approvals -> Asked], \A a \in T!Approvals : a[1] # e => approvals'[a] = approvals[a],
         \A a \in T!Approvals : /\ approvals[a].first = "yes" => approvals'[a].first = "yes"
                                /\ approvals[a].shown => approvals'[a].shown,
         decisions' = decisions, ran' = ran, Len(r.thread) >= Len(T!X(e).thread),
         \/ slots' = slots /\ (T!Holding(e)' <=> T!Holding(e))
         \/ slots' = slots + 1 /\ slots < MaxPerConn /\ ~T!Holding(e) /\ T!Holding(e)'
         \/ slots' = slots - 1 /\ T!Holding(e) /\ ~T!Holding(e)',
         TurnFits(e)', ConsentFits(e)',
         r.at = "chat" => \E Q \in SUBSET (1..Len(r.thread)) : T!Paired(r.thread, Q, Len(r.thread)),
         \A k \in 1..MaxApprovals : approvals'[<<e, k>>].known => k = r.asks /\ r.at \in {"ask", "wait", "clear"}
  PROVE  ToolInv'
<1>1. T!X(e)' = r /\ \A f \in Exchanges : f # e => T!X(f)' = T!X(f)
  BY ExchangeMoves DEF ToolInv
<1>2. RanBefore'
  <2>1. ASSUME NEW q \in ran PROVE q.at[2] < Len(T!X(q.at[1])'.thread) /\ (q.tool \notin MCReadOnly => q.approval > 0)
    <3>1. q.at[1] \in Exchanges /\ q.at[2] \in Nat /\ q.at[2] < Len(T!X(q.at[1]).thread) /\ (q.tool \notin MCReadOnly => q.approval > 0)
      BY DEF ToolInv, ToolTypes, RanBefore
    <3>2. Len(T!X(e).thread) \in Nat /\ Len(r.thread) \in Nat
      BY DEF ToolInv, ToolTypes, Exchange, T!X
    <3> QED BY <1>1, <3>1, <3>2
  <2> QED BY <2>1 DEF RanBefore
<1>3. T!RanApproved'
  <2>1. \A q \in ran : q.tool \notin MCReadOnly => <<q.at[1], q.approval>> \in T!Approvals
    BY DEF ToolInv, ToolTypes, T!Approvals, RanBefore
  <2> QED
    BY <2>1 DEF ToolInv, T!RanApproved
<1>4. ran' \in SUBSET [at : Exchanges \X Nat, tool : Tools, approval : 0..MaxApprovals]
  BY DEF ToolInv, ToolTypes
<1> QED
  BY <1>2, <1>3, <1>4, ExchangeKeepsAll

\* What is known of an exchange.
LEMMA ExchangeKnown ==
  ASSUME ToolInv, NEW e \in Exchanges
  PROVE  /\ T!X(e) \in Exchange /\ TurnFits(e) /\ ConsentFits(e) /\ T!X(e).asks \in 0..MaxApprovals
         /\ approvals \in [T!Approvals -> Asked] /\ (\A k \in 1..MaxApprovals : <<e, k>> \in T!Approvals)
         /\ T!X(e).asks > 0 => T!Approval(e) \in T!Approvals /\ approvals[T!Approval(e)] \in Asked
         /\ \A k \in 1..MaxApprovals : approvals[<<e, k>>].known => k = T!X(e).asks /\ T!X(e).at \in {"ask", "wait", "clear"}
<1>1. T!X(e) \in Exchange /\ TurnFits(e) /\ ConsentFits(e) /\ approvals \in [T!Approvals -> Asked]
  BY DEF ToolInv, ToolTypes, T!X
<1>2. T!X(e).asks \in 0..MaxApprovals /\ \A k \in 1..MaxApprovals : <<e, k>> \in T!Approvals
  BY <1>1 DEF Exchange, T!Approvals
<1>3. T!X(e).asks > 0 => T!Approval(e) \in T!Approvals
  BY <1>2 DEF T!Approval
<1>4. \A k \in 1..MaxApprovals : approvals[<<e, k>>].known => k = T!X(e).asks /\ T!X(e).at \in {"ask", "wait", "clear"}
  BY <1>2 DEF ToolInv, T!NoneForgotten, T!Approval
<1> QED
  BY <1>1, <1>2, <1>3, <1>4

\* Steps that move an exchange to its next place, and change nothing else of what the invariant is about.
LEMMA PlaceStep ==
  ASSUME ToolInv, NEW e \in Exchanges, NEW r \in Exchange, T!Goes(e, r), UNCHANGED <<approvals, decisions, ran>>,
         r.thread = T!X(e).thread, r.asks = T!X(e).asks,
         \/ slots' = slots /\ (T!Holding(e)' <=> T!Holding(e))
         \/ slots' = slots + 1 /\ slots < MaxPerConn /\ ~T!Holding(e) /\ T!Holding(e)'
         \/ slots' = slots - 1 /\ T!Holding(e) /\ ~T!Holding(e)',
         r.at \notin {"call", "ask", "wait", "clear", "run"}, T!X(e).at \notin {"ask", "wait", "clear"},
         r.at \in {"idle", "start", "acquire", "chat"} => r.thread = <<>>
  PROVE  ToolInv'
<1>1. T!X(e)' = r
  BY ExchangeMoves DEF ToolInv
<1>2. T!X(e) \in Exchange /\ ConsentFits(e) /\ approvals \in [T!Approvals -> Asked]
      /\ \A k \in 1..MaxApprovals : ~approvals[<<e, k>>].known
  BY ExchangeKnown
<1>3. TurnFits(e)' /\ ConsentFits(e)'
  BY <1>1, <1>2 DEF TurnFits, MidTurn, ConsentFits, T!At
<1>4. r.at = "chat" => \E Q \in SUBSET (1..Len(r.thread)) : T!Paired(r.thread, Q, Len(r.thread))
  <2> SUFFICES ASSUME r.at = "chat" PROVE T!Paired(r.thread, {}, Len(r.thread))
    OBVIOUS
  <2> QED BY DEF T!Paired
<1>5. Len(r.thread) \in Nat /\ Len(r.thread) >= Len(T!X(e).thread)
  BY DEF Exchange
<1>6. /\ approvals' \in [T!Approvals -> Asked] /\ approvals' = approvals /\ decisions' = decisions /\ ran' = ran
      /\ \A k \in 1..MaxApprovals : ~approvals'[<<e, k>>].known
  BY <1>2
<1>7. \A a \in T!Approvals : approvals'[a] = approvals[a]
  BY <1>6
<1> QED
  BY <1>3, <1>4, <1>5, <1>6, <1>7, ExchangeKeeps

\* An exchange begins, and takes a slot when there is one.
LEMMA EnterStep ==
  ASSUME ToolInv, NEW e \in Exchanges, T!Start(e) \/ T!Acquire(e) \/ \E tools \in BOOLEAN : T!Ask(e, tools)
  PROVE  ToolInv'
<1>1. T!X(e) \in Exchange /\ TurnFits(e)
  BY ExchangeKnown
<1>2. T!X(e).at \in {"idle", "start", "acquire"} /\ T!X(e).thread = <<>> /\ UNCHANGED <<approvals, decisions, ran>>
  BY <1>1 DEF T!Start, T!Acquire, T!Ask, T!At, T!Others, TurnFits
<1>3. PICK r \in Exchange :
        /\ T!Goes(e, r) /\ r.thread = T!X(e).thread /\ r.asks = T!X(e).asks
        /\ r.at = IF T!Acquire(e) THEN "chat" ELSE IF T!Start(e) THEN "acquire" ELSE "start"
  <2>1. CASE T!Acquire(e)
    <3> DEFINE q == [T!X(e) EXCEPT !.at = "chat"]
    <3>1. q \in Exchange /\ q.at = "chat" /\ q.thread = T!X(e).thread /\ q.asks = T!X(e).asks
      BY <1>1 DEF Exchange, ToolPlaces
    <3> HIDE DEF q
    <3> QED BY <2>1, <3>1 DEF T!Acquire, q
  <2>2. CASE T!Start(e) /\ ~T!Acquire(e)
    <3> DEFINE q == [T!X(e) EXCEPT !.at = "acquire"]
    <3>1. q \in Exchange /\ q.at = "acquire" /\ q.thread = T!X(e).thread /\ q.asks = T!X(e).asks
      BY <1>1 DEF Exchange, ToolPlaces
    <3>2. T!Goes(e, q)
      BY <2>2 DEF T!Start
    <3> HIDE DEF q
    <3> QED BY <2>2, <3>1, <3>2
  <2>3. CASE ~T!Start(e) /\ ~T!Acquire(e)
    <3>1. PICK tools \in BOOLEAN : T!Ask(e, tools)
      BY <2>3
    <3> DEFINE q == [T!X(e) EXCEPT !.at = "start", !.tools = tools]
    <3>2. q \in Exchange /\ q.at = "start" /\ q.thread = T!X(e).thread /\ q.asks = T!X(e).asks
      BY <1>1 DEF Exchange, ToolPlaces
    <3>3. T!Goes(e, q)
      BY <3>1 DEF T!Ask
    <3> HIDE DEF q
    <3> QED BY <2>3, <3>2, <3>3
  <2> QED BY <2>1, <2>2, <2>3
<1>4. T!X(e)' = r
  BY <1>3, ExchangeMoves DEF ToolInv
<1>5. \/ slots' = slots /\ (T!Holding(e)' <=> T!Holding(e))
      \/ slots' = slots + 1 /\ slots < MaxPerConn /\ ~T!Holding(e) /\ T!Holding(e)'
  BY <1>3, <1>4, <1>2 DEF T!Start, T!Acquire, T!Ask, T!Holding, T!At
<1> QED
  BY <1>2, <1>3, <1>5, PlaceStep

\* Messages that are added do not disturb the turns before them.
LEMMA PairedPrefix ==
  ASSUME NEW t \in Seq(Seq(Tools)), NEW u \in Seq(Seq(Tools)), NEW n \in 0..Len(t), n <= Len(u), \A i \in 1..n : u[i] = t[i],
         NEW Q \in SUBSET (1..n), T!Paired(t, Q, n)
  PROVE  T!Paired(u, Q, n)
<1>1. n > 0 => 1 \in Q
  BY DEF T!Paired
<1>2. ASSUME NEW i \in Q
      PROVE  LET last == i + Len(u[i]) IN
               /\ last <= n /\ (last = n \/ last + 1 \in Q)
               /\ \A k \in 1..Len(u[i]) : i + k \notin Q /\ u[i + k] = <<u[i][k]>>
  <2>a. i \in 1..n
    BY <1>2
  <2>b. Len(t) \in Nat /\ n \in Int /\ n <= Len(t)
    OBVIOUS
  <2>0. i \in 1..n /\ i \in 1..Len(t)
    BY <2>a, <2>b
  <2>1. i \in 1..n /\ u[i] = t[i] /\ t[i] \in Seq(Tools)
    <3>1. t[i] \in Seq(Tools)
      BY <2>0
    <3> QED BY <2>0, <3>1
  <2>2. PICK l \in Nat : l = Len(t[i])
    BY <2>1
  <2>3. i + l <= n /\ (i + l = n \/ i + l + 1 \in Q) /\ \A k \in 1..l : i + k \notin Q /\ t[i + k] = <<t[i][k]>>
    BY <1>2, <2>2 DEF T!Paired
  <2>4. \A k \in 1..l : i + k \in 1..n
    BY <2>b, <2>1, <2>3
  <2>5. \A k \in 1..l : u[i + k] = <<u[i][k]>>
    BY <2>1, <2>3, <2>4
  <2> QED
    BY <2>1, <2>2, <2>3, <2>5
<1> QED
  BY <1>1, <1>2 DEF T!Paired

\* The calls are asked for at the end of what is paired; each result is one call less to do; the last one closes the turn.
LEMMA HalfBegins ==
  ASSUME NEW t \in Seq(Seq(Tools)), NEW reply \in Seq(Tools), NEW Q \in SUBSET (1..Len(t)), T!Paired(t, Q, Len(t))
  PROVE  HalfPaired(Append(t, reply), reply)
<1> DEFINE u == Append(t, reply)
           p == Len(t) + 1
<1>1. /\ u \in Seq(Seq(Tools)) /\ Len(u) = p /\ u[p] = reply /\ \A i \in 1..Len(t) : u[i] = t[i]
      /\ p \in 1..Len(u) /\ p - 1 = Len(t) /\ Len(t) \in 0..Len(t) /\ Len(t) <= Len(u)
  OBVIOUS
<1> HIDE DEF u, p
<1>2. T!Paired(u, Q, p - 1) /\ Q \in SUBSET (1..(p - 1))
  BY <1>1, PairedPrefix
<1>3. Len(reply) \in Nat /\ Len(reply) - Len(reply) = 0 /\ p \in Nat
  BY <1>1
<1>4. /\ p \in 1..Len(u) /\ \E S \in SUBSET (1..(p - 1)) : T!Paired(u, S, p - 1)
      /\ Len(reply) <= Len(u[p]) /\ p + (Len(u[p]) - Len(reply)) = Len(u)
      /\ \A k \in 1..(Len(u[p]) - Len(reply)) : u[p + k] = <<u[p][k]>>
      /\ \A k \in 1..Len(reply) : reply[k] = u[p][Len(u[p]) - Len(reply) + k]
  <2>1. \A k \in 1..(Len(u[p]) - Len(reply)) : u[p + k] = <<u[p][k]>>
    BY <1>1, <1>3
  <2>2. \A k \in 1..Len(reply) : Len(u[p]) - Len(reply) + k = k
    BY <1>1, <1>3
  <2> QED
    BY <1>1, <1>2, <1>3, <2>1, <2>2
<1>5. HalfPaired(u, reply)
  BY <1>4 DEF HalfPaired
<1> QED
  BY <1>5 DEF u

LEMMA HalfGoesOn ==
  ASSUME NEW t \in Seq(Seq(Tools)), NEW todo \in Seq(Tools), todo # <<>>, HalfPaired(t, todo)
  PROVE  HalfPaired(Append(t, <<Head(todo)>>), Tail(todo))
<1>1. PICK p \in 1..Len(t) :
        /\ \E Q \in SUBSET (1..(p - 1)) : T!Paired(t, Q, p - 1)
        /\ Len(todo) <= Len(t[p]) /\ p + (Len(t[p]) - Len(todo)) = Len(t)
        /\ \A k \in 1..(Len(t[p]) - Len(todo)) : t[p + k] = <<t[p][k]>>
        /\ \A k \in 1..Len(todo) : todo[k] = t[p][Len(t[p]) - Len(todo) + k]
  BY DEF HalfPaired
<1>2. PICK Q \in SUBSET (1..(p - 1)) : T!Paired(t, Q, p - 1)
  BY <1>1
<1> DEFINE h == <<Head(todo)>>
           u == Append(t, h)
           rest == Tail(todo)
<1>3. PICK n \in Nat, m \in Nat, len \in Nat : n = Len(t) /\ m = Len(todo) /\ len = Len(t[p])
  <2>1. t[p] \in Seq(Tools)
    OBVIOUS
  <2> QED BY <2>1
<1>4. m >= 1 /\ m <= len /\ p \in 1..n /\ p + (len - m) = n
  BY <1>1, <1>3
<1>5. /\ u \in Seq(Seq(Tools)) /\ Len(u) = n + 1 /\ u[n + 1] = h /\ \A i \in 1..n : u[i] = t[i]
  <2>1. h \in Seq(Tools)
    OBVIOUS
  <2> HIDE DEF h
  <2> QED BY <1>3, <2>1
<1>6. rest \in Seq(Tools) /\ Len(rest) = m - 1 /\ (\A k \in 1..(m - 1) : rest[k] = todo[k + 1]) /\ Head(todo) = todo[1]
  BY <1>3, <1>4
<1> HIDE DEF u, rest
<1>7. u[p] = t[p] /\ T!Paired(u, Q, p - 1)
  <2>1. p - 1 \in 0..Len(t) /\ p - 1 <= Len(u) /\ \A i \in 1..(p - 1) : u[i] = t[i]
    BY <1>3, <1>4, <1>5
  <2> QED
    BY <1>2, <1>4, <1>5, <2>1, PairedPrefix
<1>8. \A k \in 1..(len - (m - 1)) : u[p + k] = <<t[p][k]>>
  <2> SUFFICES ASSUME NEW k \in 1..(len - (m - 1)) PROVE u[p + k] = <<t[p][k]>>
    OBVIOUS
  <2>1. CASE k <= len - m
    <3>1. p + k \in 1..n /\ k \in 1..(len - m)
      BY <1>4, <2>1
    <3> QED BY <1>1, <1>3, <1>5, <3>1
  <2>2. CASE k = len - m + 1
    <3>1. p + k = n + 1 /\ 1 \in 1..m
      BY <1>4, <2>2
    <3>2. todo[1] = t[p][len - m + 1]
      BY <1>1, <1>3, <3>1
    <3> QED BY <1>5, <1>6, <2>2, <3>1, <3>2
  <2> QED BY <1>4, <2>1, <2>2
<1>9. \A k \in 1..(m - 1) : rest[k] = t[p][len - (m - 1) + k]
  <2> SUFFICES ASSUME NEW k \in 1..(m - 1) PROVE rest[k] = t[p][len - (m - 1) + k]
    OBVIOUS
  <2>1. k + 1 \in 1..m /\ len - m + (k + 1) = len - (m - 1) + k
    BY <1>4
  <2>2. todo[k + 1] = t[p][len - m + (k + 1)]
    BY <1>1, <1>3, <2>1
  <2> QED BY <1>6, <2>1, <2>2
<1>10. p \in 1..(n + 1) /\ m - 1 <= len /\ p + (len - (m - 1)) = n + 1
  BY <1>4
<1>11. Len(u) = n + 1 /\ Len(rest) = m - 1 /\ Len(u[p]) = len
  BY <1>3, <1>5, <1>6, <1>7
<1>12. /\ p \in 1..Len(u) /\ \E S \in SUBSET (1..(p - 1)) : T!Paired(u, S, p - 1)
       /\ Len(rest) <= Len(u[p]) /\ p + (Len(u[p]) - Len(rest)) = Len(u)
       /\ \A k \in 1..(Len(u[p]) - Len(rest)) : u[p + k] = <<u[p][k]>>
       /\ \A k \in 1..Len(rest) : rest[k] = u[p][Len(u[p]) - Len(rest) + k]
  BY <1>7, <1>8, <1>9, <1>10, <1>11
<1>13. HalfPaired(u, rest)
  BY <1>12 DEF HalfPaired
<1> QED
  BY <1>13 DEF u, rest

LEMMA HalfEnds ==
  ASSUME NEW t \in Seq(Seq(Tools)), HalfPaired(t, <<>>)
  PROVE  \E Q \in SUBSET (1..Len(t)) : T!Paired(t, Q, Len(t))
<1> DEFINE none == <<>>
<1>0. Len(none) = 0
  OBVIOUS
<1>1. PICK p \in 1..Len(t) :
        /\ \E Q \in SUBSET (1..(p - 1)) : T!Paired(t, Q, p - 1)
        /\ Len(none) <= Len(t[p]) /\ p + (Len(t[p]) - Len(none)) = Len(t)
        /\ \A k \in 1..(Len(t[p]) - Len(none)) : t[p + k] = <<t[p][k]>>
  BY DEF HalfPaired
<1> HIDE DEF none
<1>2. PICK Q \in SUBSET (1..(p - 1)) : T!Paired(t, Q, p - 1)
  BY <1>1
<1>3. PICK n \in Nat, len \in Nat : n = Len(t) /\ len = Len(t[p])
  <2>1. t[p] \in Seq(Tools)
    OBVIOUS
  <2> QED BY <2>1
<1>4. p \in 1..n /\ p + len = n /\ \A k \in 1..len : t[p + k] = <<t[p][k]>>
  BY <1>0, <1>1, <1>3
<1> DEFINE R == Q \cup {p}
<1>5. R \in SUBSET (1..n)
  BY <1>4
<1>6. n > 0 => 1 \in R
  <2>1. CASE p = 1
    BY <2>1
  <2>2. CASE p > 1
    BY <1>2, <1>4, <2>2 DEF T!Paired
  <2> QED BY <1>4, <2>1, <2>2
<1>7. ASSUME NEW i \in R
      PROVE  LET last == i + Len(t[i]) IN
               /\ last <= n /\ (last = n \/ last + 1 \in R)
               /\ \A k \in 1..Len(t[i]) : i + k \notin R /\ t[i + k] = <<t[i][k]>>
  <2>1. CASE i = p
    <3>1. \A k \in 1..len : p + k \notin R
      BY <1>4
    <3> QED
      BY <1>3, <1>4, <2>1, <3>1
  <2>2. CASE i \in Q
    <3>1. t[i] \in Seq(Tools) /\ i \in 1..(p - 1)
      BY <1>3, <1>4, <2>2
    <3>2. PICK l \in Nat : l = Len(t[i])
      BY <3>1
    <3>3. i + l <= p - 1 /\ (i + l = p - 1 \/ i + l + 1 \in Q) /\ \A k \in 1..l : i + k \notin Q /\ t[i + k] = <<t[i][k]>>
      BY <1>2, <2>2, <3>2 DEF T!Paired
    <3>4. i + l <= n /\ i + l + 1 \in R
      BY <1>4, <3>1, <3>3
    <3>5. \A k \in 1..l : i + k # p
      BY <1>4, <3>1, <3>3
    <3> QED
      BY <3>2, <3>3, <3>4, <3>5
  <2> QED BY <2>1, <2>2
<1> HIDE DEF R
<1>8. T!Paired(t, R, n)
  BY <1>6, <1>7 DEF T!Paired
<1> QED
  BY <1>3, <1>5, <1>8

-----------------------------------------------------------------------------
\* An approval that is cleared is the same but for being known.
LEMMA ClearedFits ==
  ASSUME ToolInv, NEW e \in Exchanges, T!X(e).asks > 0
  PROVE  /\ T!Cleared(e) \in [T!Approvals -> Asked]
         /\ \A a \in T!Approvals : a # T!Approval(e) => T!Cleared(e)[a] = approvals[a]
         /\ \A a \in T!Approvals : T!Cleared(e)[a].first = approvals[a].first /\ T!Cleared(e)[a].shown = approvals[a].shown
         /\ ~T!Cleared(e)[T!Approval(e)].known
<1>1. approvals \in [T!Approvals -> Asked] /\ T!Approval(e) \in T!Approvals
  BY ExchangeKnown
<1> DEFINE b == [approvals[T!Approval(e)] EXCEPT !.known = FALSE]
<1>2. /\ b \in Asked /\ ~b.known
      /\ b.first = approvals[T!Approval(e)].first /\ b.shown = approvals[T!Approval(e)].shown
  BY <1>1 DEF Asked
<1>3. T!Cleared(e) = [approvals EXCEPT ![T!Approval(e)] = b]
  BY <1>1 DEF T!Cleared
<1> HIDE DEF b
<1> QED
  BY <1>1, <1>2, <1>3

\* An exchange that ends gives its slot back and leaves no approval behind.
LEMMA EndsStep ==
  ASSUME ToolInv, NEW e \in Exchanges, NEW how \in {"limit", "error", "done", "gone"}, T!Over(e, how),
         T!X(e).at \notin {"idle", "over", "clear"}, approvals' = T!Dropped(e), UNCHANGED <<decisions, ran>>
  PROVE  ToolInv'
<1>1. T!X(e) \in Exchange /\ TurnFits(e) /\ ConsentFits(e) /\ T!X(e).asks \in 0..MaxApprovals /\ approvals \in [T!Approvals -> Asked]
  BY ExchangeKnown
<1> DEFINE r == [T!X(e) EXCEPT !.at = "over", !.ended = how]
<1>2. r \in Exchange /\ r.at = "over" /\ r.thread = T!X(e).thread /\ r.asks = T!X(e).asks
  BY <1>1 DEF Exchange, ToolPlaces
<1>3. T!Goes(e, r) /\ slots' = IF T!Holding(e) THEN slots - 1 ELSE slots
  BY DEF T!Over, T!Release
<1> HIDE DEF r
<1>4. T!X(e)' = r
  BY <1>2, <1>3, ExchangeMoves DEF ToolInv
<1>5. \/ slots' = slots /\ (T!Holding(e)' <=> T!Holding(e))
      \/ slots' = slots - 1 /\ T!Holding(e) /\ ~T!Holding(e)'
  BY <1>2, <1>3, <1>4 DEF T!Holding
<1>6. /\ approvals' \in [T!Approvals -> Asked]
      /\ \A a \in T!Approvals : a # T!Approval(e) => approvals'[a] = approvals[a]
      /\ \A a \in T!Approvals : approvals'[a].first = approvals[a].first /\ approvals'[a].shown = approvals[a].shown
      /\ \A k \in 1..MaxApprovals : ~approvals'[<<e, k>>].known
  <2>1. CASE T!X(e).at \in {"ask", "wait"}
    <3>1. T!X(e).asks > 0 /\ approvals' = T!Cleared(e)
      BY <1>1, <2>1 DEF ConsentFits, T!Dropped
    <3>2. \A k \in 1..MaxApprovals : <<e, k>> \in T!Approvals /\ (approvals[<<e, k>>].known => <<e, k>> = T!Approval(e))
      BY ExchangeKnown DEF T!Approval
    <3> QED
      BY <3>1, <3>2, ClearedFits
  <2>2. CASE T!X(e).at \notin {"ask", "wait"}
    <3>1. approvals' = approvals
      BY <2>2 DEF T!Dropped
    <3>2. \A k \in 1..MaxApprovals : ~approvals[<<e, k>>].known
      BY <2>2, ExchangeKnown
    <3> QED
      BY <1>1, <3>1, <3>2
  <2> QED BY <2>1, <2>2
<1>7. \A a \in T!Approvals : a[1] # e => approvals'[a] = approvals[a]
  BY <1>6 DEF T!Approval
<1>8. TurnFits(e)'
  BY <1>2, <1>4 DEF TurnFits, MidTurn
<1>9. ConsentFits(e)'
  <2>1. \A k \in 1..MaxApprovals : k > T!X(e).asks => approvals'[<<e, k>>] = T!Unasked
    <3> SUFFICES ASSUME NEW k \in 1..MaxApprovals, k > T!X(e).asks PROVE approvals'[<<e, k>>] = T!Unasked
      OBVIOUS
    <3>1. <<e, k>> \in T!Approvals /\ <<e, k>> # T!Approval(e) /\ approvals[<<e, k>>] = T!Unasked
      BY <1>1, ExchangeKnown DEF T!Approval, ConsentFits
    <3> QED BY <1>6, <3>1
  <2> QED
    BY <1>2, <1>4, <2>1 DEF ConsentFits, T!At
<1>10. Len(r.thread) >= Len(T!X(e).thread)
  BY <1>1, <1>2 DEF Exchange
<1> QED
  BY <1>2, <1>3, <1>5, <1>6, <1>7, <1>8, <1>9, <1>10, ExchangeKeeps

\* The ends of an exchange that do not depend on an answer.
LEMMA OverStep == ASSUME ToolInv, NEW e \in Exchanges, T!ProviderFails(e) \/ T!Finish(e) \/ T!Gone(e) PROVE ToolInv'
<1>1. CASE T!ProviderFails(e)
  BY <1>1, EndsStep DEF T!ProviderFails, T!At, T!Dropped, T!Others
<1>2. CASE T!Finish(e)
  BY <1>2, EndsStep DEF T!Finish, T!At, T!Dropped, T!Others
<1>3. CASE T!Gone(e)
  BY <1>3, EndsStep DEF T!Gone, T!Noticing, T!Others
<1> QED BY <1>1, <1>2, <1>3

\* The provider answers: the text ends the exchange, the calls open a turn, or there were too many turns.
LEMMA AnswerStep == ASSUME ToolInv, NEW e \in Exchanges, NEW reply \in MCReplies, T!Answer(e, reply) PROVE ToolInv'
<1>1. T!X(e) \in Exchange /\ TurnFits(e) /\ ConsentFits(e) /\ approvals \in [T!Approvals -> Asked]
      /\ \A k \in 1..MaxApprovals : approvals[<<e, k>>].known => k = T!X(e).asks /\ T!X(e).at \in {"ask", "wait", "clear"}
  BY ExchangeKnown
<1>2. T!At(e, "chat") /\ T!X(e).at = "chat" /\ UNCHANGED <<approvals, decisions, ran>>
  BY DEF T!Answer, T!At, T!Others
<1> DEFINE t == T!X(e).thread
<1>3. t \in Seq(Seq(Tools)) /\ reply \in Seq(Tools)
  BY <1>1, ToolsFit DEF Exchange
<1>4. CASE reply = <<>>
  <2> DEFINE r == [T!X(e) EXCEPT !.at = "finish"]
  <2>1. T!Goes(e, r) /\ slots' = slots
    BY <1>4 DEF T!Answer
  <2>2. r \in Exchange /\ r.at = "finish" /\ r.thread = T!X(e).thread /\ r.asks = T!X(e).asks
    BY <1>1 DEF Exchange, ToolPlaces
  <2> HIDE DEF r
  <2>3. T!X(e)' = r
    BY <2>1, <2>2, ExchangeMoves DEF ToolInv
  <2>4. T!Holding(e)' <=> T!Holding(e)
    BY <1>2, <2>2, <2>3 DEF T!Holding
  <2>5. TurnFits(e)' /\ ConsentFits(e)'
    BY <1>1, <1>2, <2>2, <2>3 DEF TurnFits, MidTurn, ConsentFits, T!At
  <2>6. Len(r.thread) >= Len(T!X(e).thread) /\ \A k \in 1..MaxApprovals : ~approvals[<<e, k>>].known
    BY <1>1, <1>2, <1>3, <2>2
  <2> QED
    BY <1>1, <1>2, <2>1, <2>2, <2>4, <2>5, <2>6, ExchangeKeeps
<1>5. CASE reply # <<>> /\ T!X(e).turn = T!Turns(e)
  <2>1. T!Over(e, "limit") /\ approvals' = T!Dropped(e)
    BY <1>2, <1>5 DEF T!Answer, T!Dropped
  <2> QED
    BY <1>2, <2>1, EndsStep
<1>6. CASE reply # <<>> /\ T!X(e).turn # T!Turns(e)
  <2> DEFINE r == [T!X(e) EXCEPT !.at = "call", !.todo = reply, !.thread = Append(@, reply)]
  <2>1. T!Goes(e, r) /\ slots' = slots
    BY <1>6 DEF T!Answer
  <2>2. /\ Append(t, reply) \in Seq(Seq(Tools)) /\ Len(Append(t, reply)) = Len(t) + 1 /\ Len(t) \in Nat
    BY <1>3
  <2>3. r \in Exchange /\ r.at = "call" /\ r.thread = Append(t, reply) /\ r.asks = T!X(e).asks /\ r.todo = reply
    BY <1>1, <1>3, <2>2 DEF Exchange, ToolPlaces
  <2> HIDE DEF r
  <2>4. T!X(e)' = r
    BY <2>1, <2>3, ExchangeMoves DEF ToolInv
  <2>5. T!Holding(e)' <=> T!Holding(e)
    BY <1>2, <2>3, <2>4 DEF T!Holding
  <2>6. HalfPaired(Append(t, reply), reply)
    <3>1. PICK Q \in SUBSET (1..Len(t)) : T!Paired(t, Q, Len(t))
      BY <1>2 DEF ToolInv, T!Threaded
    <3> QED BY <1>3, <3>1, HalfBegins
  <2>7. TurnFits(e)' /\ ConsentFits(e)'
    BY <1>1, <1>2, <1>6, <2>3, <2>4, <2>6 DEF TurnFits, MidTurn, ConsentFits, T!At
  <2>8. Len(r.thread) >= Len(T!X(e).thread) /\ \A k \in 1..MaxApprovals : ~approvals[<<e, k>>].known
    BY <1>1, <1>2, <2>2, <2>3
  <2> QED
    BY <1>1, <1>2, <2>1, <2>3, <2>5, <2>7, <2>8, ExchangeKeeps
<1> QED BY <1>4, <1>5, <1>6

\* The next call is announced, and asks for an approval of its own unless it is read-only.
LEMMA CallStep == ASSUME ToolInv, NEW e \in Exchanges, T!Call(e) PROVE ToolInv'
<1>1. /\ T!X(e) \in Exchange /\ TurnFits(e) /\ ConsentFits(e) /\ T!X(e).asks \in 0..MaxApprovals
      /\ approvals \in [T!Approvals -> Asked] /\ (\A k \in 1..MaxApprovals : <<e, k>> \in T!Approvals)
      /\ \A k \in 1..MaxApprovals : approvals[<<e, k>>].known => k = T!X(e).asks /\ T!X(e).at \in {"ask", "wait", "clear"}
  BY ExchangeKnown
<1>2. T!X(e).at = "call" /\ slots' = slots /\ UNCHANGED <<decisions, ran>>
  BY DEF T!Call, T!At, T!Others
<1>3. Len(T!X(e).thread) \in Nat
  BY <1>1 DEF Exchange
<1>4. CASE Head(T!X(e).todo) \in MCReadOnly
  <2> DEFINE r == [T!X(e) EXCEPT !.at = "run", !.verdict = "free"]
  <2>1. T!Goes(e, r) /\ approvals' = approvals
    BY <1>4 DEF T!Call
  <2>2. /\ r \in Exchange /\ r.at = "run" /\ r.thread = T!X(e).thread /\ r.asks = T!X(e).asks /\ r.todo = T!X(e).todo
        /\ r.verdict = "free"
    BY <1>1 DEF Exchange, ToolPlaces, Verdicts
  <2> HIDE DEF r
  <2>3. T!X(e)' = r
    BY <2>1, <2>2, ExchangeMoves DEF ToolInv
  <2>4. T!Holding(e)' <=> T!Holding(e)
    BY <1>2, <2>2, <2>3 DEF T!Holding
  <2>5. TurnFits(e)' /\ ConsentFits(e)'
    BY <1>1, <1>2, <1>4, <2>1, <2>2, <2>3 DEF TurnFits, MidTurn, ConsentFits, T!At
  <2>6. Len(r.thread) >= Len(T!X(e).thread) /\ \A k \in 1..MaxApprovals : ~approvals[<<e, k>>].known
    BY <1>1, <1>2, <1>3, <2>2
  <2> QED
    BY <1>1, <1>2, <2>1, <2>2, <2>4, <2>5, <2>6, ExchangeKeeps
<1>5. CASE Head(T!X(e).todo) \notin MCReadOnly
  <2> DEFINE n == T!X(e).asks + 1
             r == [T!X(e) EXCEPT !.at = "ask", !.asks = n]
             b == [T!Unasked EXCEPT !.known = TRUE]
  <2>0. T!X(e).asks < MaxApprovals
    BY <1>5 DEF T!Call
  <2>1. T!Goes(e, r) /\ approvals' = [approvals EXCEPT ![<<e, n>>].known = TRUE]
    BY <1>5 DEF T!Call
  <2>2. n \in 1..MaxApprovals /\ n > T!X(e).asks /\ n > 0
    BY <1>1, <2>0, ToolsFit
  <2> HIDE DEF n
  <2>a. n \in 0..MaxApprovals
    BY <2>2, ToolsFit
  <2>3. /\ r \in Exchange /\ r.at = "ask" /\ r.thread = T!X(e).thread /\ r.asks = n /\ r.todo = T!X(e).todo
    BY <1>1, <2>a DEF Exchange, ToolPlaces
  <2>4. <<e, n>> \in T!Approvals /\ approvals[<<e, n>>] = T!Unasked
    BY <1>1, <2>2 DEF ConsentFits
  <2>5. b \in Asked /\ b.box = "empty" /\ b.first = "none"
    BY DEF Asked, T!Unasked
  <2>6. approvals' = [approvals EXCEPT ![<<e, n>>] = b]
    BY <1>1, <2>1, <2>4
  <2> HIDE DEF r, b
  <2>7. /\ approvals' \in [T!Approvals -> Asked] /\ approvals'[<<e, n>>] = b
        /\ \A a \in T!Approvals : a # <<e, n>> => approvals'[a] = approvals[a]
    BY <1>1, <2>4, <2>5, <2>6
  <2>8. T!X(e)' = r
    BY <2>1, <2>3, ExchangeMoves DEF ToolInv
  <2>9. T!Holding(e)' <=> T!Holding(e)
    BY <1>2, <2>3, <2>8 DEF T!Holding
  <2>10. TurnFits(e)'
    BY <1>1, <1>2, <2>3, <2>8 DEF TurnFits, MidTurn
  <2>11. ConsentFits(e)'
    <3>1. T!Approval(e)' = <<e, n>>
      BY <2>3, <2>8 DEF T!Approval
    <3>2. \A k \in 1..MaxApprovals : k > n => <<e, k>> # <<e, n>> /\ <<e, k>> \in T!Approvals /\ approvals[<<e, k>>] = T!Unasked
      BY <1>1, <2>2 DEF ConsentFits, n
    <3> QED
      BY <1>5, <2>2, <2>3, <2>5, <2>7, <2>8, <3>1, <3>2 DEF ConsentFits, T!At
  <2>12. \A k \in 1..MaxApprovals : approvals'[<<e, k>>].known => k = r.asks /\ r.at \in {"ask", "wait", "clear"}
    <3> SUFFICES ASSUME NEW k \in 1..MaxApprovals, k # n PROVE ~approvals'[<<e, k>>].known
      BY <2>3
    <3>1. <<e, k>> # <<e, n>> /\ <<e, k>> \in T!Approvals /\ ~approvals[<<e, k>>].known
      BY <1>1, <1>2
    <3> QED BY <2>7, <3>1
  <2>13. \A a \in T!Approvals : a[1] # e => approvals'[a] = approvals[a]
    BY <2>7
  <2>14. \A a \in T!Approvals : /\ approvals[a].first = "yes" => approvals'[a].first = "yes"
                                /\ approvals[a].shown => approvals'[a].shown
    BY <2>4, <2>7 DEF T!Unasked
  <2>15. Len(r.thread) >= Len(T!X(e).thread)
    BY <1>3, <2>3
  <2> QED
    BY <1>2, <2>1, <2>3, <2>7, <2>9, <2>10, <2>11, <2>12, <2>13, <2>14, <2>15, ExchangeKeeps
<1> QED BY <1>4, <1>5

\* An exchange that waits for its approval goes to its next place, and nothing but that approval changes.
LEMMA WaitStep ==
  ASSUME ToolInv, NEW e \in Exchanges, T!X(e).at \in {"ask", "wait", "clear"},
         NEW r \in Exchange, T!Goes(e, r), slots' = slots, UNCHANGED <<decisions, ran>>,
         r.at \in {"wait", "clear", "run"}, r.thread = T!X(e).thread, r.asks = T!X(e).asks, r.todo = T!X(e).todo,
         NEW b \in Asked, approvals' = [approvals EXCEPT ![T!Approval(e)] = b],
         b.first = approvals[T!Approval(e)].first, approvals[T!Approval(e)].shown => b.shown,
         b.known => r.at \in {"wait", "clear"},
         r.at = "wait" => b.box = approvals[T!Approval(e)].box /\ T!X(e).at = "ask",
         r.at = "clear" => r.verdict \in {"yes", "no", "late"},
         r.at \in {"clear", "run"} => r.verdict # "free" /\ (r.verdict = "yes" => b.first = "yes")
  PROVE  ToolInv'
<1>1. /\ T!X(e) \in Exchange /\ TurnFits(e) /\ ConsentFits(e) /\ T!X(e).asks \in 0..MaxApprovals
      /\ approvals \in [T!Approvals -> Asked] /\ (\A k \in 1..MaxApprovals : <<e, k>> \in T!Approvals)
      /\ \A k \in 1..MaxApprovals : approvals[<<e, k>>].known => k = T!X(e).asks
  BY ExchangeKnown
<1>2. T!X(e).asks > 0 /\ Head(T!X(e).todo) \notin MCReadOnly
  BY <1>1 DEF ConsentFits
<1>3. T!Approval(e) \in T!Approvals /\ Len(T!X(e).thread) \in Nat
  BY <1>1, <1>2, ExchangeKnown DEF Exchange
<1>4. /\ approvals' \in [T!Approvals -> Asked] /\ approvals'[T!Approval(e)] = b
      /\ \A a \in T!Approvals : a # T!Approval(e) => approvals'[a] = approvals[a]
  BY <1>1, <1>3
<1>5. T!X(e)' = r /\ T!Approval(e)' = T!Approval(e)
  BY ExchangeMoves DEF ToolInv, T!Approval
<1>6. T!Holding(e)' <=> T!Holding(e)
  BY <1>5 DEF T!Holding
<1>7. TurnFits(e)'
  BY <1>1, <1>5 DEF TurnFits, MidTurn
<1>8. ConsentFits(e)'
  <2>1. \A k \in 1..MaxApprovals : k > r.asks => approvals'[<<e, k>>] = T!Unasked
    <3> SUFFICES ASSUME NEW k \in 1..MaxApprovals, k > r.asks PROVE approvals'[<<e, k>>] = T!Unasked
      OBVIOUS
    <3>1. <<e, k>> \in T!Approvals /\ <<e, k>> # T!Approval(e) /\ approvals[<<e, k>>] = T!Unasked
      BY <1>1 DEF T!Approval, ConsentFits
    <3> QED BY <1>4, <3>1
  <2>2. r.at = "wait" => (b.box = "empty" /\ b.first = "none") \/ (b.box # "empty" /\ b.first = b.box)
    BY <1>1 DEF ConsentFits
  <2> QED
    BY <1>2, <1>4, <1>5, <2>1, <2>2 DEF ConsentFits, T!At
<1>9. \A k \in 1..MaxApprovals : approvals'[<<e, k>>].known => k = r.asks /\ r.at \in {"ask", "wait", "clear"}
  <2> SUFFICES ASSUME NEW k \in 1..MaxApprovals, approvals'[<<e, k>>].known
               PROVE k = r.asks /\ r.at \in {"ask", "wait", "clear"}
    OBVIOUS
  <2>1. CASE k = T!X(e).asks
    BY <1>4, <2>1 DEF T!Approval
  <2>2. CASE k # T!X(e).asks
    <3>1. <<e, k>> \in T!Approvals /\ <<e, k>> # T!Approval(e)
      BY <1>1, <2>2 DEF T!Approval
    <3> QED BY <1>1, <1>4, <2>2, <3>1
  <2> QED BY <2>1, <2>2
<1>10. \A a \in T!Approvals : a[1] # e => approvals'[a] = approvals[a]
  BY <1>4 DEF T!Approval
<1>11. \A a \in T!Approvals : /\ approvals[a].first = "yes" => approvals'[a].first = "yes"
                              /\ approvals[a].shown => approvals'[a].shown
  BY <1>4
<1>12. Len(r.thread) >= Len(T!X(e).thread)
  BY <1>3
<1> QED
  BY <1>4, <1>6, <1>7, <1>8, <1>9, <1>10, <1>11, <1>12, ExchangeKeeps

\* The approval is shown, answered or given up, and cleared.
LEMMA ApprovalStep ==
  ASSUME ToolInv, NEW e \in Exchanges, T!ShowApproval(e) \/ T!Receive(e) \/ T!TimedOut(e) \/ T!Clear(e)
  PROVE  ToolInv'
<1>1. /\ T!X(e) \in Exchange /\ ConsentFits(e) /\ approvals \in [T!Approvals -> Asked]
  BY ExchangeKnown
<1>2. T!X(e).at \in {"ask", "wait", "clear"} /\ slots' = slots /\ UNCHANGED <<decisions, ran>>
  BY DEF T!ShowApproval, T!Receive, T!TimedOut, T!Clear, T!At, T!Others
<1>3. T!Approval(e) \in T!Approvals /\ approvals[T!Approval(e)] \in Asked
  BY <1>2, ExchangeKnown DEF ConsentFits
<1> DEFINE a == approvals[T!Approval(e)]
<1>4. CASE T!ShowApproval(e)
  <2> DEFINE r == [T!X(e) EXCEPT !.at = "wait"]
             b == [a EXCEPT !.shown = TRUE]
  <2>1. T!Goes(e, r) /\ approvals' = [approvals EXCEPT ![T!Approval(e)] = b] /\ T!X(e).at = "ask"
    BY <1>1, <1>3, <1>4 DEF T!ShowApproval, T!At
  <2>2. r \in Exchange /\ r.at = "wait" /\ r.thread = T!X(e).thread /\ r.asks = T!X(e).asks /\ r.todo = T!X(e).todo
    BY <1>1 DEF Exchange, ToolPlaces
  <2>3. b \in Asked /\ b.first = a.first /\ b.shown /\ b.box = a.box
    BY <1>3 DEF Asked
  <2> HIDE DEF r, b
  <2> QED BY <1>2, <2>1, <2>2, <2>3, WaitStep
<1>5. CASE T!Receive(e)
  <2> DEFINE r == [T!X(e) EXCEPT !.at = "clear", !.verdict = a.box]
             b == [a EXCEPT !.box = "empty"]
  <2>1. T!Goes(e, r) /\ approvals' = [approvals EXCEPT ![T!Approval(e)] = b] /\ T!X(e).at = "wait" /\ a.box # "empty"
    BY <1>1, <1>3, <1>5 DEF T!Receive, T!At
  <2>2. a.box \in {"yes", "no"} /\ a.first = a.box
    BY <1>1, <1>3, <2>1 DEF Asked, ConsentFits
  <2>3. /\ r \in Exchange /\ r.at = "clear" /\ r.thread = T!X(e).thread /\ r.asks = T!X(e).asks /\ r.todo = T!X(e).todo
        /\ r.verdict = a.box
    BY <1>1, <2>2 DEF Exchange, ToolPlaces, Verdicts
  <2>4. b \in Asked /\ b.first = a.first /\ b.shown = a.shown
    BY <1>3 DEF Asked
  <2> HIDE DEF r, b
  <2> QED BY <1>2, <2>1, <2>2, <2>3, <2>4, WaitStep
<1>6. CASE T!TimedOut(e)
  <2> DEFINE r == [T!X(e) EXCEPT !.at = "clear", !.verdict = "late"]
  <2>1. T!Goes(e, r) /\ approvals' = [approvals EXCEPT ![T!Approval(e)] = a]
    BY <1>1, <1>3, <1>6 DEF T!TimedOut
  <2>2. /\ r \in Exchange /\ r.at = "clear" /\ r.thread = T!X(e).thread /\ r.asks = T!X(e).asks /\ r.todo = T!X(e).todo
        /\ r.verdict = "late"
    BY <1>1 DEF Exchange, ToolPlaces, Verdicts
  <2> HIDE DEF r
  <2> QED BY <1>2, <1>3, <2>1, <2>2, WaitStep
<1>7. CASE T!Clear(e)
  <2> DEFINE r == [T!X(e) EXCEPT !.at = "run"]
             b == [a EXCEPT !.known = FALSE]
  <2>1. T!Goes(e, r) /\ approvals' = [approvals EXCEPT ![T!Approval(e)] = b] /\ T!X(e).at = "clear"
    BY <1>1, <1>3, <1>7 DEF T!Clear, T!Cleared, T!At
  <2>2. /\ r \in Exchange /\ r.at = "run" /\ r.thread = T!X(e).thread /\ r.asks = T!X(e).asks /\ r.todo = T!X(e).todo
        /\ r.verdict = T!X(e).verdict
    BY <1>1 DEF Exchange, ToolPlaces
  <2>3. b \in Asked /\ b.first = a.first /\ b.shown = a.shown /\ ~b.known
    BY <1>3 DEF Asked
  <2>4. T!X(e).verdict \in {"yes", "no", "late"} /\ (T!X(e).verdict = "yes" => a.first = "yes")
    BY <1>1, <2>1 DEF ConsentFits, T!At
  <2> HIDE DEF r, b
  <2> QED BY <1>2, <2>1, <2>2, <2>3, <2>4, WaitStep
<1> QED BY <1>4, <1>5, <1>6, <1>7

\* The call at the head is run or declined, and its result follows it; the last one brings the next turn.
LEMMA RunStep == ASSUME ToolInv, NEW e \in Exchanges, T!Run(e) PROVE ToolInv'
<1>1. /\ T!X(e) \in Exchange /\ TurnFits(e) /\ ConsentFits(e) /\ T!X(e).asks \in 0..MaxApprovals
      /\ approvals \in [T!Approvals -> Asked]
      /\ \A k \in 1..MaxApprovals : approvals[<<e, k>>].known => k = T!X(e).asks /\ T!X(e).at \in {"ask", "wait", "clear"}
  BY ExchangeKnown
<1>2. T!X(e).at = "run" /\ slots' = slots /\ UNCHANGED <<approvals, decisions>>
  BY DEF T!Run, T!At, T!Others
<1>3. /\ T!X(e).thread \in Seq(Seq(Tools)) /\ T!X(e).todo \in Seq(Tools) /\ T!X(e).todo # <<>> /\ T!X(e).turn \in Nat
      /\ HalfPaired(T!X(e).thread, T!X(e).todo)
  BY <1>1, <1>2 DEF Exchange, TurnFits, MidTurn
<1> DEFINE x == T!X(e)
           tool == Head(x.todo)
           rest == Tail(x.todo)
           t == Append(x.thread, <<tool>>)
           place == IF rest = <<>> THEN "chat" ELSE "call"
           turn == IF rest = <<>> THEN x.turn + 1 ELSE x.turn
           r == [x EXCEPT !.thread = t, !.todo = rest, !.verdict = "none", !.at = place, !.turn = turn]
           q == [at |-> <<e, Len(x.thread)>>, tool |-> tool, approval |-> IF tool \in MCReadOnly THEN 0 ELSE x.asks]
<1>4. T!Goes(e, r)
  BY DEF T!Run
<1>5. ran' = IF T!Runs(x.verdict) THEN ran \cup {q} ELSE ran
  BY DEF T!Run
<1>6. tool \in Tools /\ rest \in Seq(Tools) /\ <<tool>> \in Seq(Tools)
  BY <1>3
<1>7. t \in Seq(Seq(Tools)) /\ Len(t) = Len(x.thread) + 1 /\ Len(x.thread) \in Nat
  <2> DEFINE w == <<tool>>
  <2>1. w \in Seq(Tools)
    BY <1>6
  <2> HIDE DEF w
  <2>2. Append(x.thread, w) \in Seq(Seq(Tools)) /\ Len(Append(x.thread, w)) = Len(x.thread) + 1 /\ Len(x.thread) \in Nat
    BY <1>3, <2>1
  <2> QED BY <2>2 DEF w
<1>8. HalfPaired(t, rest)
  BY <1>3, HalfGoesOn
<1> HIDE DEF rest, t
<1>9. turn \in Nat /\ place \in {"chat", "call"} /\ (place = "chat" <=> rest = <<>>)
  BY <1>3
<1> HIDE DEF turn, place
<1>10. /\ r \in Exchange /\ r.at = place /\ r.thread = t /\ r.asks = x.asks /\ r.todo = rest /\ r.verdict = "none"
  BY <1>1, <1>6, <1>7, <1>9 DEF Exchange, ToolPlaces, Verdicts
<1> HIDE DEF r
<1>11. T!X(e)' = r /\ \A f \in Exchanges : f # e => T!X(f)' = T!X(f)
  BY <1>4, <1>10, ExchangeMoves DEF ToolInv
<1>12. T!Holding(e)' <=> T!Holding(e)
  BY <1>2, <1>9, <1>10, <1>11 DEF T!Holding
<1>13. TurnFits(e)'
  BY <1>8, <1>9, <1>10, <1>11 DEF TurnFits, MidTurn
<1>14. ConsentFits(e)'
  BY <1>1, <1>2, <1>9, <1>10, <1>11 DEF ConsentFits, T!At
<1>15. r.at = "chat" => \E Q \in SUBSET (1..Len(r.thread)) : T!Paired(r.thread, Q, Len(r.thread))
  <2> SUFFICES ASSUME rest = <<>> PROVE \E Q \in SUBSET (1..Len(t)) : T!Paired(t, Q, Len(t))
    BY <1>9, <1>10
  <2>1. HalfPaired(t, <<>>)
    BY <1>8
  <2> QED BY <1>7, <2>1, HalfEnds
<1>16. T!Runs(x.verdict) => q.approval \in 0..MaxApprovals /\ (tool \notin MCReadOnly => x.asks > 0 /\ approvals[T!Approval(e)].first = "yes")
  <2>1. ASSUME T!Runs(x.verdict), tool \notin MCReadOnly PROVE x.asks > 0 /\ approvals[T!Approval(e)].first = "yes"
    <3>1. x.verdict = "yes"
      BY <1>1, <1>2, <2>1 DEF T!Runs, ConsentFits, T!At
    <3> QED BY <1>1, <1>2, <3>1 DEF ConsentFits
  <2>2. 0 \in 0..MaxApprovals
    BY ToolsFit
  <2> QED BY <1>1, <2>1, <2>2
<1>17. T!Runs(x.verdict) => q \in [at : Exchanges \X Nat, tool : Tools, approval : 0..MaxApprovals]
  BY <1>6, <1>7, <1>16
<1>18. /\ q.at[1] = e /\ q.at[2] = Len(x.thread) /\ q.tool = tool /\ (tool \notin MCReadOnly => q.approval = x.asks)
       /\ q.at = <<e, Len(x.thread)>>
  OBVIOUS
<1> HIDE DEF q
<1>19. /\ ran \in SUBSET [at : Exchanges \X Nat, tool : Tools, approval : 0..MaxApprovals]
       /\ \A p \in ran : p.at[1] \in Exchanges /\ p.at[2] \in Nat /\ p.at[2] < Len(exchange[p.at[1]].thread)
       /\ \A p \in ran : p.tool \notin MCReadOnly => p.approval > 0
  BY DEF ToolInv, ToolTypes, RanBefore, T!X
<1>20. RanBefore'
  <2> DEFINE Before(p) == p.at[2] < Len(exchange'[p.at[1]].thread) /\ (p.tool \notin MCReadOnly => p.approval > 0)
  <2>0. exchange'[e].thread = t /\ exchange[e] = x /\ \A f \in Exchanges : f # e => exchange'[f] = exchange[f]
    BY <1>10, <1>11 DEF T!X
  <2>1. ASSUME NEW p \in ran PROVE Before(p)
    <3>1. CASE p.at[1] = e
      BY <1>7, <1>19, <2>0, <3>1
    <3>2. CASE p.at[1] # e
      BY <1>19, <2>0, <3>2
    <3> QED BY <3>1, <3>2
  <2>2. T!Runs(x.verdict) => Before(q)
    BY <1>7, <1>16, <1>18, <2>0
  <2>3. \A p \in ran' : Before(p)
    BY <1>5, <2>1, <2>2
  <2> QED BY <2>3 DEF RanBefore, T!X
<1>21. T!RanApproved'
  <2>1. T!Runs(x.verdict) /\ q.tool \notin MCReadOnly => approvals[<<q.at[1], q.approval>>].first = "yes"
    BY <1>16, <1>18 DEF T!Approval
  <2>2. \A p \in ran : p.at # q.at
    <3> SUFFICES ASSUME NEW p \in ran, p.at = q.at PROVE FALSE
      OBVIOUS
    <3>1. p.at[1] = e /\ p.at[2] = Len(x.thread) /\ p.at[2] < Len(exchange[p.at[1]].thread)
      BY <1>18, <1>19
    <3> QED BY <1>7, <3>1 DEF T!X
  <2>3. T!RanApproved
    BY DEF ToolInv
  <2> QED BY <1>2, <1>5, <2>1, <2>2, <2>3 DEF T!RanApproved
<1>22. ran' \in SUBSET [at : Exchanges \X Nat, tool : Tools, approval : 0..MaxApprovals]
  BY <1>5, <1>17, <1>19
<1>23. \A k \in 1..MaxApprovals : ~approvals[<<e, k>>].known
  BY <1>1, <1>2
<1>24. approvals' = approvals /\ decisions' = decisions
  BY <1>2
<1> QED
  BY <1>1, <1>2, <1>4, <1>10, <1>12, <1>13, <1>14, <1>15, <1>20, <1>21, <1>22, <1>23, <1>24, ExchangeKeepsAll

\* A decision under way reaches its approval, or is refused; no exchange moves.
LEMMA DecideStep ==
  ASSUME ToolInv, NEW a \in T!Approvals, NEW choice \in {"yes", "no"}, T!Decide(a, choice) PROVE ToolInv'
<1>1. /\ UNCHANGED <<exchange, slots, approvals, ran>> /\ approvals[a].shown
      /\ decisions' = decisions \cup {[id |-> a, choice |-> choice]}
  BY DEF T!Decide
<1>2. ToolTypes'
  BY <1>1 DEF ToolInv, ToolTypes
<1>3. DecisionsFit'
  BY <1>1 DEF ToolInv, DecisionsFit
<1>4. \A e \in Exchanges : TurnFits(e)' /\ ConsentFits(e)'
  BY <1>1 DEF ToolInv, TurnFits, MidTurn, ConsentFits, T!Approval, T!At, T!X
<1>5. RanBefore' /\ T!SlotsRight' /\ T!RanApproved' /\ T!Threaded' /\ T!NoneForgotten'
  BY <1>1 DEF ToolInv, RanBefore, T!SlotsRight, T!Holding, T!RanApproved, T!Threaded, T!NoneForgotten, T!Approval, T!At, T!X
<1> QED BY <1>2, <1>3, <1>4, <1>5 DEF ToolInv

LEMMA ResumeStep == ASSUME ToolInv, NEW d \in decisions, T!ResumeTool(d) PROVE ToolInv'
<1>1. d.id \in T!Approvals /\ d.choice \in {"yes", "no"} /\ approvals[d.id].shown /\ approvals \in [T!Approvals -> Asked]
  BY DEF ToolInv, ToolTypes, DecisionsFit
<1> DEFINE a == approvals[d.id]
           b == T!Sent(d.id, d.choice)
<1>2. /\ UNCHANGED <<exchange, slots, ran>> /\ decisions' = decisions \ {d}
      /\ approvals' = [approvals EXCEPT ![d.id] = b]
  BY DEF T!ResumeTool
<1>3. /\ b \in Asked /\ b.known = a.known /\ b.shown = a.shown
      /\ a.box # "empty" => b = a
      /\ a.box = "empty" => b.box = d.choice /\ b.first = IF a.first = "none" THEN d.choice ELSE a.first
  <2>1. a \in Asked
    BY <1>1
  <2> DEFINE first == IF a.first = "none" THEN d.choice ELSE a.first
             c == [a EXCEPT !.box = d.choice, !.first = first]
  <2>2. b = IF a.box # "empty" THEN a ELSE c
    BY DEF T!Sent
  <2>3. first \in {"none", "yes", "no"}
    BY <1>1, <2>1 DEF Asked
  <2> HIDE DEF first
  <2>4. c \in Asked /\ c.known = a.known /\ c.shown = a.shown /\ c.box = d.choice /\ c.first = first
    BY <1>1, <2>1, <2>3 DEF Asked
  <2> HIDE DEF b, c
  <2> QED BY <2>1, <2>2, <2>4 DEF first
<1> HIDE DEF b
<1>4. /\ approvals' \in [T!Approvals -> Asked] /\ approvals'[d.id] = b
      /\ \A p \in T!Approvals : p # d.id => approvals'[p] = approvals[p]
  BY <1>1, <1>2, <1>3
<1>5. \A p \in T!Approvals : /\ approvals[p].first = "yes" => approvals'[p].first = "yes"
                             /\ approvals'[p].shown = approvals[p].shown /\ approvals'[p].known = approvals[p].known
  BY <1>3, <1>4
<1>6. ToolTypes'
  BY <1>2, <1>4 DEF ToolInv, ToolTypes
<1>7. DecisionsFit'
  BY <1>2, <1>5 DEF ToolInv, ToolTypes, DecisionsFit
<1>8. ASSUME NEW e \in Exchanges PROVE TurnFits(e)' /\ ConsentFits(e)'
  <2>1. TurnFits(e)'
    BY <1>2 DEF ToolInv, TurnFits, MidTurn, T!X
  <2>2. /\ ConsentFits(e) /\ T!X(e)' = T!X(e) /\ T!Approval(e)' = T!Approval(e) /\ T!X(e).asks \in 0..MaxApprovals
        /\ T!X(e).asks > 0 => T!Approval(e) \in T!Approvals
        /\ \A k \in 1..MaxApprovals : <<e, k>> \in T!Approvals
    BY <1>2, ExchangeKnown DEF T!X, T!Approval
  <2>3. \A k \in 1..MaxApprovals : k > T!X(e).asks => approvals'[<<e, k>>] = T!Unasked
    <3> SUFFICES ASSUME NEW k \in 1..MaxApprovals, k > T!X(e).asks PROVE approvals'[<<e, k>>] = T!Unasked
      OBVIOUS
    <3>1. approvals[<<e, k>>] = T!Unasked /\ <<e, k>> \in T!Approvals
      BY <2>2 DEF ConsentFits
    <3>2. <<e, k>> # d.id
      BY <1>1, <3>1 DEF T!Unasked
    <3> QED BY <1>4, <3>1, <3>2
  <2>4. T!X(e).at \in {"ask", "wait", "clear"} => T!X(e).asks > 0
    BY <2>2 DEF ConsentFits
  <2> DEFINE p == approvals[T!Approval(e)]
             q == approvals'[T!Approval(e)]
  <2>5. T!X(e).at \in {"ask", "wait"} => (q.box = "empty" /\ q.first = "none") \/ (q.box # "empty" /\ q.first = q.box)
    <3> SUFFICES ASSUME T!X(e).at \in {"ask", "wait"}
                 PROVE (q.box = "empty" /\ q.first = "none") \/ (q.box # "empty" /\ q.first = q.box)
      OBVIOUS
    <3>1. T!Approval(e) \in T!Approvals /\ ((p.box = "empty" /\ p.first = "none") \/ (p.box # "empty" /\ p.first = p.box))
      BY <2>2, <2>4 DEF ConsentFits
    <3>2. CASE T!Approval(e) # d.id
      BY <1>4, <3>1, <3>2
    <3>3. CASE T!Approval(e) = d.id
      BY <1>1, <1>3, <1>4, <3>1, <3>3
    <3> QED BY <3>2, <3>3
  <2>6. T!X(e).asks > 0 /\ p.first = "yes" => q.first = "yes"
    BY <1>5, <2>2
  <2>7. ConsentFits(e)'
    BY <2>2, <2>3, <2>5, <2>6 DEF ConsentFits, T!At
  <2> QED BY <2>1, <2>7
<1>9. T!RanApproved'
  <2>1. \A q \in ran : q.tool \notin MCReadOnly => <<q.at[1], q.approval>> \in T!Approvals
    BY DEF ToolInv, ToolTypes, T!Approvals, RanBefore
  <2> QED
    BY <1>2, <1>5, <2>1 DEF ToolInv, T!RanApproved
<1>10. RanBefore' /\ T!SlotsRight' /\ T!Threaded'
  BY <1>2 DEF ToolInv, RanBefore, T!SlotsRight, T!Holding, T!Threaded, T!At, T!X
<1>11. T!NoneForgotten'
  BY <1>2, <1>5 DEF ToolInv, T!NoneForgotten, T!Approval, T!X
<1> QED BY <1>6, <1>7, <1>8, <1>9, <1>10, <1>11 DEF ToolInv

\* A client that leaves changes nothing the invariant is about.
LEMMA QuietStep ==
  ASSUME ToolInv, UNCHANGED <<exchange, slots, approvals, decisions, ran>> PROVE ToolInv'
<1>1. ToolTypes' /\ DecisionsFit'
  BY DEF ToolInv, ToolTypes, DecisionsFit
<1>2. \A e \in Exchanges : TurnFits(e)' /\ ConsentFits(e)'
  BY DEF ToolInv, TurnFits, MidTurn, ConsentFits, T!Approval, T!At, T!X
<1>3. RanBefore' /\ T!SlotsRight' /\ T!RanApproved' /\ T!Threaded' /\ T!NoneForgotten'
  BY DEF ToolInv, RanBefore, T!SlotsRight, T!Holding, T!RanApproved, T!Threaded, T!NoneForgotten, T!Approval, T!At, T!X
<1> QED BY <1>1, <1>2, <1>3 DEF ToolInv

-----------------------------------------------------------------------------
LEMMA ToolStarts == T!ToolInit => ToolInv
<1> SUFFICES ASSUME T!ToolInit PROVE ToolInv
  OBVIOUS
<1> USE ToolsFit
<1>1. /\ exchange = [e \in Exchanges |-> T!Fresh] /\ slots = 0
      /\ approvals = [a \in T!Approvals |-> T!Unasked]
      /\ decisions = {} /\ ran = {}
  BY DEF T!ToolInit
<1>2. /\ T!Fresh \in Exchange /\ T!Fresh.at = "idle" /\ T!Fresh.thread = <<>> /\ T!Fresh.asks = 0
  BY DEF T!Fresh, Exchange, ToolPlaces, Verdicts
<1>3. T!Unasked \in Asked /\ ~T!Unasked.known
  BY DEF T!Unasked, Asked
<1>4. ToolTypes
  BY <1>1, <1>2, <1>3 DEF ToolTypes
<1>5. ASSUME NEW e \in Exchanges PROVE T!X(e) = T!Fresh /\ TurnFits(e) /\ ConsentFits(e) /\ ~T!Holding(e)
  <2>1. T!X(e) = T!Fresh
    BY <1>1 DEF T!X
  <2>2. TurnFits(e) /\ ~T!Holding(e)
    BY <1>2, <2>1 DEF TurnFits, MidTurn, T!Holding
  <2>3. \A k \in 1..MaxApprovals : approvals[<<e, k>>] = T!Unasked
    BY <1>1 DEF T!Approvals
  <2>4. ConsentFits(e)
    BY <1>2, <2>1, <2>3 DEF ConsentFits, T!At
  <2> QED BY <2>1, <2>2, <2>4
<1>6. T!SlotsRight
  <2>1. {e \in Exchanges : T!Holding(e)} = {}
    BY <1>5
  <2>2. Cardinality({e \in Exchanges : T!Holding(e)}) = 0
    BY <2>1, FS_EmptySet
  <2>3. 0 <= MaxPerConn
    OBVIOUS
  <2> QED BY <1>1, <2>2, <2>3, CardinalityAgrees DEF T!SlotsRight
<1>7. DecisionsFit /\ RanBefore /\ T!RanApproved
  BY <1>1 DEF DecisionsFit, RanBefore, T!RanApproved
<1>8. T!Threaded
  BY <1>2, <1>5 DEF T!Threaded, T!At
<1>9. T!NoneForgotten
  BY <1>1, <1>3 DEF T!NoneForgotten
<1> QED
  BY <1>4, <1>5, <1>6, <1>7, <1>8, <1>9 DEF ToolInv

LEMMA ToolMoves == ToolInv /\ [T!ToolNext]_toolVars => ToolInv'
<1> SUFFICES ASSUME ToolInv, [T!ToolNext]_toolVars PROVE ToolInv'
  OBVIOUS
<1>1. ASSUME NEW e \in Exchanges, T!Step(e) PROVE ToolInv'
  BY <1>1, EnterStep, OverStep, CallStep, ApprovalStep, RunStep, AnswerStep DEF T!Step
<1>2. ASSUME NEW e \in Exchanges, T!Leave(e) PROVE ToolInv'
  BY <1>2, QuietStep DEF T!Leave
<1>3. ASSUME NEW e \in Exchanges, NEW tools \in BOOLEAN, T!Ask(e, tools) PROVE ToolInv'
  BY <1>3, EnterStep
<1>4. ASSUME NEW a \in T!Approvals, T!Decide(a, "yes") \/ T!Decide(a, "no") PROVE ToolInv'
  BY <1>4, DecideStep
<1>5. ASSUME NEW d \in decisions, T!ResumeTool(d) PROVE ToolInv'
  BY <1>5, ResumeStep
<1>6. CASE UNCHANGED toolVars
  BY <1>6, QuietStep DEF toolVars
<1> QED
  BY <1>1, <1>2, <1>3, <1>4, <1>5, <1>6 DEF T!ToolNext

LEMMA ToolInvFits == ToolInv => T!ToolLoopSound
BY DEF ToolInv, T!ToolLoopSound

-----------------------------------------------------------------------------
(* The accounts with their sessions: the invariant.                        *)

LEMMA AccountsFit == "nobody" \notin Users /\ MaxLogins \in Nat
  BY ServicesAssumption
LEMMA ThrottleFits == MaxFails \in Nat /\ MaxAttempts \in Nat
  BY ServicesAssumption

\* The invariant: what a request under way knows, and what keeps the others from changing it.
Account == [state : {"never", "here", "gone"}, admin : BOOLEAN, off : BOOLEAN, pw : Nat]
AccSession == [user : Users \cup {"nobody"}, pw : Nat]
AccPlaces == {"idle", "check", "get", "count", "write", "revoke", "erase", "mint"}
AccRequest == [kind : A!Writers \cup {"none", "login"}, user : Users \cup {"nobody"}, at : AccPlaces,
               patch : Patches \cup {"none", "password"}, row : Account]
AccTypes ==
    /\ accounts \in [Users -> Account]
    /\ issued \in [A!Tokens -> AccSession] /\ minted \in Nat /\ stamps \in Nat
    /\ inflight \in [A!Workers -> AccRequest]
    /\ setupToken \in BOOLEAN /\ collided \in BOOLEAN
\* Where a request of each kind can be.
PlaceFits(w) ==
    /\ A!At(w, "idle") <=> inflight[w].kind = "none"
    /\ A!At(w, "idle") <=> A!User(w) = "nobody"
    /\ inflight[w].kind = "login" => inflight[w].at \in {"check", "mint"}
    /\ inflight[w].kind = "patch" => inflight[w].at \in {"get", "count", "write", "revoke"}
    /\ inflight[w].kind = "delete" => inflight[w].at \in {"get", "count", "revoke", "erase"}
    /\ inflight[w].kind = "change" => inflight[w].patch = "password" /\ inflight[w].at \in {"check", "get", "count", "write", "revoke", "mint"}
Usable(u) == A!Here(u) /\ ~accounts[u].off
Administers(u) == A!Here(u) /\ accounts[u].admin /\ ~accounts[u].off
\* The one writer has the row as it is, and another administrator when it takes one away; a change of the own password is
\* one of a user who was signed in.
WriterFits(w) ==
    /\ \A v \in A!Workers : A!Writing(v) => v = w
    /\ inflight[w].at \notin {"check", "get"} => A!Here(A!User(w)) /\ A!Row(w) = accounts[A!User(w)]
    /\ inflight[w].at \in {"write", "revoke", "erase"} /\ A!Losing(w, A!Row(w)) => \E v \in Users : v # A!User(w) /\ Administers(v)
    /\ inflight[w].kind = "change" => Usable(A!User(w))
    /\ inflight[w].at \in {"erase", "mint"} /\ A!User(w) \notin loose => \A t \in A!Tokens : issued[t].user # A!User(w)
\* A login has the row as it is, unless somebody wrote it meanwhile.
LoginFits(w) ==
    /\ \A v \in A!Workers : A!Writing(v) /\ A!User(v) = A!User(w) => A!User(w) \in loose
    /\ A!At(w, "mint") /\ A!User(w) \notin loose => Usable(A!User(w)) /\ A!Row(w).pw = accounts[A!User(w)].pw
\* Before a writer of its user has written, a session fits the account.
TokenFits(t) ==
    LET u == issued[t].user IN
    /\ u # "nobody" /\ u \notin loose
    /\ \A w \in A!Workers : A!Writing(w) /\ A!User(w) = u => inflight[w].at \in {"check", "get", "count", "write"}
    => Usable(u) /\ accounts[u].pw = issued[t].pw
AccInv ==
    /\ AccTypes /\ (\A w \in A!Workers : PlaceFits(w)) /\ A!SetupOnce
    /\ setupToken => \A w \in A!Workers : ~A!Writing(w)
    /\ ~collided => /\ A!AdminStays
                    /\ \A w \in A!Workers : (A!Writing(w) => WriterFits(w)) /\ (inflight[w].kind = "login" => LoginFits(w))
                    /\ \A t \in A!Tokens : TokenFits(t)

-----------------------------------------------------------------------------
LEMMA AccNoRequest == A!NoRequest \in AccRequest
  BY DEF A!NoRequest, AccRequest, A!Writers, AccPlaces, A!Absent, Account

\* A request that goes on leaves the others where they are.
LEMMA RequestGoes ==
    ASSUME inflight \in [A!Workers -> AccRequest], NEW w \in A!Workers, NEW r \in AccRequest, A!Goes(w, r)
    PROVE  /\ inflight' \in [A!Workers -> AccRequest]
           /\ inflight'[w] = r
           /\ \A v \in A!Workers : v # w => inflight'[v] = inflight[v]
  BY DEF A!Goes

\* A statement that only reads: the request had written nothing yet, and fits its new place.
LEMMA ReadingMoves ==
    ASSUME AccInv, NEW w \in A!Workers, NEW r \in AccRequest, A!Goes(w, r), A!Unmoved,
           inflight[w].at \in {"check", "get", "count"},
           PlaceFits(w)',
           A!Writing(w)' => A!Writing(w) /\ A!User(w)' = A!User(w),
           ~collided /\ A!Writing(w)' => WriterFits(w)',
           ~collided /\ inflight'[w].kind = "login" => LoginFits(w)'
    PROVE  AccInv'
<1>1. /\ inflight' \in [A!Workers -> AccRequest]
      /\ \A v \in A!Workers : v # w => inflight'[v] = inflight[v]
  BY RequestGoes DEF AccInv, AccTypes
<1>2. AccTypes'
  BY <1>1 DEF AccInv, AccTypes, A!Unmoved
<1>3. \A v \in A!Workers : PlaceFits(v)'
  BY <1>1 DEF AccInv, PlaceFits, A!At, A!User
<1>4. A!SetupOnce'
  BY DEF AccInv, A!SetupOnce, A!Unmoved, A!Here
<1>5. setupToken' => \A v \in A!Workers : ~A!Writing(v)'
  BY <1>1 DEF AccInv, A!Unmoved, A!Writing
<1>6. ASSUME ~collided'
      PROVE  /\ A!AdminStays'
             /\ \A v \in A!Workers : (A!Writing(v)' => WriterFits(v)') /\ (inflight'[v].kind = "login" => LoginFits(v)')
             /\ \A t \in A!Tokens : TokenFits(t)'
  <2>0. ~collided
    BY <1>6 DEF A!Unmoved
  <2>1. A!AdminStays'
    BY <2>0 DEF AccInv, A!AdminStays, A!Unmoved, A!Here
  <2>2. \A v \in A!Workers : A!Writing(v)' => A!Writing(v) /\ A!User(v)' = A!User(v)
    BY <1>1 DEF A!Writing, A!User
  <2>3. ASSUME NEW v \in A!Workers, A!Writing(v)'
        PROVE  WriterFits(v)'
    <3>1. CASE v = w
      BY <2>0, <2>3, <3>1
    <3>2. CASE v # w
      <4>1. WriterFits(v) /\ inflight'[v] = inflight[v]
        BY <1>1, <2>0, <2>2, <2>3, <3>2 DEF AccInv
      <4> QED
        BY <4>1, <2>2 DEF WriterFits, A!Unmoved, A!User, A!Row, A!Here, A!Losing, Usable, Administers
    <3> QED
      BY <3>1, <3>2
  <2>4. ASSUME NEW v \in A!Workers, inflight'[v].kind = "login"
        PROVE  LoginFits(v)'
    <3>1. CASE v = w
      BY <2>0, <2>4, <3>1
    <3>2. CASE v # w
      <4>1. LoginFits(v) /\ inflight'[v] = inflight[v]
        BY <1>1, <2>0, <2>4, <3>2 DEF AccInv
      <4> QED
        BY <4>1, <2>2 DEF LoginFits, A!Unmoved, A!User, A!Row, A!Here, A!At, Usable
    <3> QED
      BY <3>1, <3>2
  <2>5. ASSUME NEW t \in A!Tokens
        PROVE  TokenFits(t)'
    <3>1. TokenFits(t)
      BY <2>0 DEF AccInv
    <3>2. ASSUME \A v \in A!Workers : A!Writing(v)' /\ A!User(v)' = issued[t].user => inflight'[v].at \in {"check", "get", "count", "write"},
                 NEW v \in A!Workers, A!Writing(v), A!User(v) = issued[t].user
          PROVE  inflight[v].at \in {"check", "get", "count", "write"}
      BY <1>1, <3>2 DEF A!Writing, A!User
    <3> QED
      BY <3>1, <3>2 DEF TokenFits, A!Unmoved, Usable, A!Here
  <2> QED
    BY <2>1, <2>3, <2>4, <2>5
<1> QED
  BY <1>2, <1>3, <1>4, <1>5, <1>6 DEF AccInv

\* A request that ends before it wrote.
LEMMA ReadingEnds ==
    ASSUME AccInv, NEW w \in A!Workers, A!Ends(w), A!Unmoved, inflight[w].at \in {"check", "get", "count"}
    PROVE  AccInv'
<1>1. inflight'[w] = A!NoRequest
  BY AccNoRequest, RequestGoes DEF AccInv, AccTypes, A!Ends
<1>2. PlaceFits(w)' /\ ~A!Writing(w)' /\ inflight'[w].kind # "login"
  BY <1>1 DEF A!NoRequest, PlaceFits, A!At, A!User, A!Writing, A!Writers
<1> QED
  BY <1>1, <1>2, AccNoRequest, ReadingMoves DEF A!Ends

LEMMA AccWrongPassword ==
    ASSUME AccInv, NEW w \in A!Workers, A!WrongPassword(w)
    PROVE  AccInv'
  BY ReadingEnds DEF A!WrongPassword, A!At

\* The request at w, typed.
LEMMA RequestTyped ==
    ASSUME AccInv, NEW w \in A!Workers
    PROVE  /\ inflight[w] \in AccRequest /\ PlaceFits(w)
           /\ inflight[w].kind \in A!Writers \cup {"none", "login"} /\ inflight[w].at \in AccPlaces
           /\ A!User(w) \in Users \cup {"nobody"} /\ A!Row(w) \in Account
           /\ ~A!At(w, "idle") => A!User(w) \in Users
  BY DEF AccInv, AccTypes, AccRequest, PlaceFits, A!At, A!User, A!Row

LEMMA AccCheck ==
    ASSUME AccInv, NEW w \in A!Workers, A!Check(w)
    PROVE  AccInv'
<1>1. CASE A!Ends(w)
  BY <1>1, ReadingEnds DEF A!Check, A!At
<1>2. CASE ~A!Ends(w)
  <2> DEFINE at == IF inflight[w].kind = "login" THEN "mint" ELSE "get"
             r == [inflight[w] EXCEPT !.at = at, !.row = accounts[A!User(w)]]
  <2>1. /\ A!Goes(w, r) /\ A!Here(A!User(w)) /\ inflight[w].at = "check" /\ A!Unmoved
        /\ inflight[w].kind = "login" => ~accounts[A!User(w)].off
    BY <1>2 DEF A!Check, A!At
  <2>2. inflight[w] \in AccRequest /\ A!User(w) \in Users /\ accounts[A!User(w)] \in Account
    BY <2>1, RequestTyped DEF AccInv, AccTypes, A!At
  <2>3. at \in AccPlaces
    BY DEF AccPlaces
  <2> HIDE DEF at
  <2>4. /\ r \in AccRequest
        /\ r.kind = inflight[w].kind /\ r.user = inflight[w].user /\ r.patch = inflight[w].patch
        /\ r.at = at /\ r.row = accounts[A!User(w)]
    BY <2>2, <2>3 DEF AccRequest
  <2> HIDE DEF r
  <2>5. inflight'[w] = r /\ \A v \in A!Workers : v # w => inflight'[v] = inflight[v]
    BY <2>1, <2>4, RequestGoes DEF AccInv, AccTypes
  <2>6. at = (IF inflight[w].kind = "login" THEN "mint" ELSE "get")
    BY DEF at
  <2>7. PlaceFits(w)'
    BY <2>1, <2>4, <2>5, <2>6, RequestTyped DEF PlaceFits, A!At, A!User, A!Writers
  <2>8. A!Writing(w)' <=> A!Writing(w)
    BY <2>4, <2>5 DEF A!Writing
  <2>9. A!User(w)' = A!User(w)
    BY <2>4, <2>5 DEF A!User
  <2>10. ASSUME ~collided, A!Writing(w)'
         PROVE  WriterFits(w)'
    <3>1. WriterFits(w) /\ inflight[w].kind # "login" /\ inflight'[w].at = "get" /\ inflight'[w].kind = inflight[w].kind
      BY <2>10, <2>8, <2>4, <2>5, <2>6 DEF AccInv, A!Writing, A!Writers
    <3>2. \A v \in A!Workers : A!Writing(v)' => v = w
      BY <2>5, <3>1 DEF WriterFits, A!Writing
    <3> QED
      BY <2>1, <2>9, <3>1, <3>2 DEF WriterFits, A!Unmoved, Usable, A!Here
  <2>11. ASSUME ~collided, inflight'[w].kind = "login"
         PROVE  LoginFits(w)'
    <3>1. LoginFits(w) /\ inflight[w].kind = "login"
      BY <2>11, <2>4, <2>5 DEF AccInv
    <3>2. \A v \in A!Workers : A!Writing(v)' /\ A!User(v)' = A!User(w)' => A!User(w)' \in loose'
      BY <2>1, <2>5, <2>8, <2>9, <3>1 DEF LoginFits, A!Unmoved, A!Writing, A!User
    <3>3. Usable(A!User(w))' /\ A!Row(w)'.pw = accounts[A!User(w)]'.pw
      BY <2>1, <2>4, <2>5, <2>9, <3>1 DEF A!Unmoved, Usable, A!Here, A!Row
    <3> QED
      BY <3>2, <3>3 DEF LoginFits
  <2> QED
    BY <2>1, <2>4, <2>7, <2>8, <2>9, <2>10, <2>11, ReadingMoves
<1> QED
  BY <1>1, <1>2

LEMMA AccGet ==
    ASSUME AccInv, NEW w \in A!Workers, A!Get(w)
    PROVE  AccInv'
<1>1. CASE A!Ends(w)
  BY <1>1, ReadingEnds DEF A!Get, A!At
<1>2. CASE ~A!Ends(w)
  <2> DEFINE row == accounts[A!User(w)]
             at == IF A!Losing(w, row) THEN "count" ELSE A!AfterGet(w)
             r == [inflight[w] EXCEPT !.row = row, !.at = at]
  <2>1. A!Goes(w, r) /\ A!Here(A!User(w)) /\ inflight[w].at = "get" /\ A!Unmoved
    BY <1>2 DEF A!Get, A!At
  <2>2. inflight[w] \in AccRequest /\ A!User(w) \in Users /\ row \in Account
    BY <2>1, RequestTyped DEF AccInv, AccTypes, A!At
  <2>3. at \in AccPlaces
    BY DEF AccPlaces, A!AfterGet
  <2> HIDE DEF at, row
  <2>4. /\ r \in AccRequest
        /\ r.kind = inflight[w].kind /\ r.user = inflight[w].user /\ r.patch = inflight[w].patch
        /\ r.at = at /\ r.row = row
    BY <2>2, <2>3 DEF AccRequest
  <2> HIDE DEF r
  <2>5. inflight'[w] = r /\ \A v \in A!Workers : v # w => inflight'[v] = inflight[v]
    BY <2>1, <2>4, RequestGoes DEF AccInv, AccTypes
  <2>6. at = (IF A!Losing(w, row) THEN "count" ELSE A!AfterGet(w)) /\ row = accounts[A!User(w)]
    BY DEF at, row
  <2>7. A!Writing(w) /\ inflight[w].kind # "none" /\ inflight[w].kind # "login"
    BY <2>1, RequestTyped DEF PlaceFits, A!At, A!Writing, A!Writers
  <2>8. A!Writing(w)' /\ A!User(w)' = A!User(w) /\ inflight'[w].kind # "login"
    BY <2>4, <2>5, <2>7 DEF A!Writing, A!User
  <2>9. PlaceFits(w)'
    BY <2>1, <2>4, <2>5, <2>6, <2>7, RequestTyped DEF PlaceFits, A!At, A!User, A!AfterGet, A!Losing
  <2>10. ASSUME ~collided
         PROVE  WriterFits(w)'
    <3>1. WriterFits(w)
      BY <2>10, <2>7 DEF AccInv
    <3>2. \A v \in A!Workers : A!Writing(v)' => v = w
      BY <2>5, <3>1 DEF WriterFits, A!Writing
    <3>3. A!Here(A!User(w))' /\ A!Row(w)' = accounts[A!User(w)]'
      BY <2>1, <2>4, <2>5, <2>6, <2>8 DEF A!Unmoved, A!Here, A!Row
    <3>4. A!Losing(w, row) => inflight'[w].at = "count"
      BY <2>4, <2>5, <2>6
    <3>5. A!Losing(w, A!Row(w))' => A!Losing(w, row)
      BY <2>4, <2>5, <2>6 DEF A!Losing, A!Row
    <3>6. inflight'[w].kind = "change" => Usable(A!User(w))'
      BY <2>1, <2>4, <2>5, <2>8, <3>1 DEF WriterFits, Usable, A!Here, A!Unmoved
    <3>7. inflight'[w].at \notin {"erase", "mint"}
      BY <2>4, <2>5, <2>6 DEF A!AfterGet
    <3> QED
      BY <3>2, <3>3, <3>4, <3>5, <3>6, <3>7 DEF WriterFits
  <2> QED
    BY <2>1, <2>4, <2>7, <2>8, <2>9, <2>10, ReadingMoves
<1> QED
  BY <1>1, <1>2

LEMMA AccCount ==
    ASSUME AccInv, NEW w \in A!Workers, A!Count(w)
    PROVE  AccInv'
<1>1. CASE A!OtherAdmins(A!User(w)) = {}
  BY <1>1, ReadingEnds DEF A!Count, A!At
<1>2. CASE A!OtherAdmins(A!User(w)) # {}
  <2> DEFINE r == [inflight[w] EXCEPT !.at = A!AfterGet(w)]
  <2>1. A!Goes(w, r) /\ inflight[w].at = "count" /\ A!Unmoved
    BY <1>2 DEF A!Count, A!At, A!To
  <2>2. inflight[w] \in AccRequest /\ A!AfterGet(w) \in {"revoke", "write"} /\ A!AfterGet(w) \in AccPlaces
    BY RequestTyped DEF A!AfterGet, AccPlaces
  <2>4. /\ r \in AccRequest
        /\ r.kind = inflight[w].kind /\ r.user = inflight[w].user /\ r.patch = inflight[w].patch
        /\ r.at = A!AfterGet(w) /\ r.row = inflight[w].row
    BY <2>2 DEF AccRequest
  <2> HIDE DEF r
  <2>5. inflight'[w] = r /\ \A v \in A!Workers : v # w => inflight'[v] = inflight[v]
    BY <2>1, <2>4, RequestGoes DEF AccInv, AccTypes
  <2>7. A!Writing(w) /\ inflight[w].kind # "none" /\ inflight[w].kind # "login"
    BY <2>1, RequestTyped DEF PlaceFits, A!At, A!Writing, A!Writers
  <2>8. A!Writing(w)' /\ A!User(w)' = A!User(w) /\ A!Row(w)' = A!Row(w) /\ inflight'[w].kind # "login"
    BY <2>4, <2>5, <2>7 DEF A!Writing, A!User, A!Row
  <2>9. PlaceFits(w)'
    BY <2>1, <2>4, <2>5, <2>7, RequestTyped DEF PlaceFits, A!At, A!User, A!AfterGet
  <2>10. ASSUME ~collided
         PROVE  WriterFits(w)'
    <3>1. WriterFits(w)
      BY <2>10, <2>7 DEF AccInv
    <3>2. \A v \in A!Workers : A!Writing(v)' => v = w
      BY <2>5, <3>1 DEF WriterFits, A!Writing
    <3>3. A!Here(A!User(w))' /\ A!Row(w)' = accounts[A!User(w)]'
      BY <2>1, <2>8, <3>1 DEF WriterFits, A!Unmoved, A!Here
    <3>4. \E v \in Users : v # A!User(w)' /\ Administers(v)'
      BY <1>2, <2>1, <2>8 DEF A!OtherAdmins, Administers, A!Here, A!Unmoved
    <3>6. inflight'[w].kind = "change" => Usable(A!User(w))'
      BY <2>1, <2>4, <2>5, <2>8, <3>1 DEF WriterFits, Usable, A!Here, A!Unmoved
    <3>7. inflight'[w].at \notin {"erase", "mint"}
      BY <2>2, <2>4, <2>5
    <3> QED
      BY <3>2, <3>3, <3>4, <3>6, <3>7 DEF WriterFits
  <2> QED
    BY <2>1, <2>4, <2>7, <2>8, <2>9, <2>10, ReadingMoves
<1> QED
  BY <1>1, <1>2

\* A request begins: if it writes, somebody is there; if it changes its own password, its user is signed in.
LEMMA RequestBegins ==
    ASSUME AccInv, NEW w \in A!Workers, NEW kind \in A!Writers \cup {"login"}, NEW u \in Users,
           NEW p \in Patches \cup {"none", "password"}, NEW at \in {"get", "check"},
           A!Begin(w, kind, u, p, at), stamps' \in Nat,
           kind \in {"patch", "delete"} => at = "get",
           kind \in {"change", "login"} => at = "check",
           kind = "change" => p = "password" /\ Usable(u),
           kind \in A!Writers => ~setupToken
    PROVE  AccInv'
<1> DEFINE r == [A!NoRequest EXCEPT !.kind = kind, !.user = u, !.at = at, !.patch = p]
<1>1. A!Goes(w, r) /\ A!At(w, "idle") /\ UNCHANGED <<accounts, issued, minted, setupToken>>
  BY DEF A!Begin
<1>2. /\ r \in AccRequest
      /\ r.kind = kind /\ r.user = u /\ r.at = at /\ r.patch = p /\ r.row = A!Absent
  <2>1. at \in AccPlaces /\ A!Absent \in Account
    BY DEF AccPlaces, A!Absent, Account
  <2> QED
    BY <2>1 DEF A!NoRequest, AccRequest
<1> HIDE DEF r
<1>3. /\ inflight' \in [A!Workers -> AccRequest]
      /\ inflight'[w] = r /\ \A v \in A!Workers : v # w => inflight'[v] = inflight[v]
  BY <1>1, <1>2, RequestGoes DEF AccInv, AccTypes
<1>4. inflight[w].kind = "none" /\ A!User(w) = "nobody"
  BY <1>1, RequestTyped DEF PlaceFits
<1>5. AccTypes'
  <2>1. collided' \in BOOLEAN
    BY DEF A!Begin
  <2> QED
    BY <1>1, <1>3, <2>1 DEF AccInv, AccTypes
<1>6. ASSUME NEW v \in A!Workers
      PROVE  PlaceFits(v)'
  <2>1. CASE v = w
    BY <1>2, <1>3, <2>1, AccountsFit DEF PlaceFits, A!At, A!User, A!Writers
  <2>2. CASE v # w
    BY <1>3, <2>2, RequestTyped DEF PlaceFits, A!At, A!User
  <2> QED
    BY <2>1, <2>2
<1>7. A!SetupOnce'
  BY <1>1 DEF AccInv, A!SetupOnce, A!Here
<1>8. setupToken' => \A v \in A!Workers : ~A!Writing(v)'
  BY <1>1, <1>2, <1>3 DEF AccInv, A!Writing
<1>9. ASSUME ~collided'
      PROVE  /\ A!AdminStays'
             /\ \A v \in A!Workers : (A!Writing(v)' => WriterFits(v)') /\ (inflight'[v].kind = "login" => LoginFits(v)')
             /\ \A t \in A!Tokens : TokenFits(t)'
  <2>0. ~collided /\ (kind \in A!Writers => \A v \in A!Workers : ~A!Writing(v))
    BY <1>9 DEF A!Begin
  <2>1. A!AdminStays'
    BY <1>1, <2>0 DEF AccInv, A!AdminStays, A!Here
  <2>l. /\ loose \subseteq loose'
        /\ \A v \in A!Workers : A!User(v) = u /\ {kind, inflight[v].kind} \cap A!Writers # {} => u \in loose'
    BY DEF A!Begin
  <2>2. ASSUME NEW v \in A!Workers, A!Writing(v)'
        PROVE  WriterFits(v)'
    <3>1. CASE v = w
      <4>1. kind \in A!Writers
        BY <1>2, <1>3, <2>2, <3>1 DEF A!Writing
      <4>2. \A x \in A!Workers : A!Writing(x)' => x = v
        BY <1>3, <2>0, <3>1, <4>1 DEF A!Writing
      <4>3. inflight'[v].at \in {"check", "get"} /\ (inflight'[v].kind = "change" => Usable(A!User(v))')
        BY <1>1, <1>2, <1>3, <3>1 DEF A!User, Usable, A!Here
      <4> QED
        BY <4>2, <4>3 DEF WriterFits
    <3>2. CASE v # w
      <4>1. WriterFits(v) /\ inflight'[v] = inflight[v]
        BY <1>3, <2>0, <2>2, <3>2 DEF AccInv, A!Writing
      <4>2. kind \notin A!Writers
        BY <1>3, <2>0, <2>2, <3>2 DEF A!Writing
      <4>3. \A x \in A!Workers : A!Writing(x)' => x = v
        BY <1>2, <1>3, <4>1, <4>2 DEF WriterFits, A!Writing
      <4> QED
        BY <1>1, <2>l, <4>1, <4>3 DEF WriterFits, A!User, A!Row, A!Here, A!Losing, Usable, Administers
    <3> QED
      BY <3>1, <3>2
  <2>3. ASSUME NEW v \in A!Workers, inflight'[v].kind = "login"
        PROVE  LoginFits(v)'
    <3>1. CASE v = w
      <4>1. kind = "login" /\ A!User(v)' = u /\ ~A!At(v, "mint")'
        BY <1>2, <1>3, <2>3, <3>1 DEF A!User, A!At
      <4>2. ASSUME NEW x \in A!Workers, A!Writing(x)', A!User(x)' = u
            PROVE  u \in loose'
        <5>1. x # w
          BY <1>2, <1>3, <4>1, <4>2 DEF A!Writing, A!Writers
        <5>2. A!Writing(x) /\ A!User(x) = u
          BY <1>3, <4>2, <5>1 DEF A!Writing, A!User
        <5> QED
          BY <2>l, <5>2 DEF A!Writing
      <4> QED
        BY <4>1, <4>2 DEF LoginFits
    <3>2. CASE v # w
      <4>1. LoginFits(v) /\ inflight'[v] = inflight[v] /\ inflight[v].kind = "login"
        BY <1>3, <2>0, <2>3, <3>2 DEF AccInv
      <4>2. ASSUME NEW x \in A!Workers, A!Writing(x)', A!User(x)' = A!User(v)'
            PROVE  A!User(v)' \in loose'
        <5>1. CASE x = w
          BY <1>2, <1>3, <2>l, <4>1, <4>2, <5>1 DEF A!Writing, A!User
        <5>2. CASE x # w
          BY <1>3, <2>l, <4>1, <4>2, <5>2 DEF A!Writing, A!User, LoginFits
        <5> QED
          BY <5>1, <5>2
      <4> QED
        BY <1>1, <2>l, <4>1, <4>2 DEF LoginFits, A!User, A!Row, A!Here, A!At, Usable
    <3> QED
      BY <3>1, <3>2
  <2>4. ASSUME NEW t \in A!Tokens
        PROVE  TokenFits(t)'
    <3>1. TokenFits(t)
      BY <2>0 DEF AccInv
    <3>2. ASSUME \A v \in A!Workers : A!Writing(v)' /\ A!User(v)' = issued[t].user => inflight'[v].at \in {"check", "get", "count", "write"},
                 NEW v \in A!Workers, A!Writing(v), A!User(v) = issued[t].user
          PROVE  inflight[v].at \in {"check", "get", "count", "write"}
      BY <1>3, <1>4, <3>2 DEF A!Writing, A!User, A!Writers
    <3> QED
      BY <1>1, <2>l, <3>1, <3>2 DEF TokenFits, Usable, A!Here
  <2> QED
    BY <2>1, <2>2, <2>3, <2>4
<1> QED
  BY <1>5, <1>6, <1>7, <1>8, <1>9 DEF AccInv

\* Who is signed in is there.
LEMMA SignedInIsUsable ==
    ASSUME AccInv, NEW u \in Users, A!SignedIn(u)
    PROVE  Usable(u) /\ ~setupToken
  BY DEF AccInv, A!SetupOnce, A!SignedIn, A!Valid, Usable

LEMMA AdminIsThere ==
    ASSUME AccInv, A!AdminSignedIn
    PROVE  ~setupToken /\ \E v \in Users : Administers(v)
  BY SignedInIsUsable DEF A!AdminSignedIn, Usable, Administers

LEMMA AccBeginPatch ==
    ASSUME AccInv, NEW w \in A!Workers, NEW u \in Users, NEW p \in Patches, A!BeginPatch(w, u, p)
    PROVE  AccInv'
<1>1. stamps' \in Nat /\ ~setupToken /\ A!Begin(w, "patch", u, p, "get")
  BY AdminIsThere DEF A!BeginPatch, AccInv, AccTypes
<1> QED
  BY <1>1, RequestBegins DEF A!Writers

LEMMA AccBeginDelete ==
    ASSUME AccInv, NEW w \in A!Workers, NEW u \in Users, A!BeginDelete(w, u)
    PROVE  AccInv'
<1>1. stamps' \in Nat /\ ~setupToken /\ A!Begin(w, "delete", u, "none", "get")
  BY AdminIsThere DEF A!BeginDelete, AccInv, AccTypes
<1> QED
  BY <1>1, RequestBegins DEF A!Writers

LEMMA AccBeginChange ==
    ASSUME AccInv, NEW w \in A!Workers, NEW u \in Users, A!BeginChange(w, u)
    PROVE  AccInv'
<1>1. stamps' \in Nat /\ ~setupToken /\ Usable(u) /\ A!Begin(w, "change", u, "password", "check")
  BY SignedInIsUsable DEF A!BeginChange, AccInv, AccTypes
<1> QED
  BY <1>1, RequestBegins DEF A!Writers

LEMMA AccBeginLogin ==
    ASSUME AccInv, NEW w \in A!Workers, NEW u \in Users, A!BeginLogin(w, u)
    PROVE  AccInv'
<1>1. stamps' \in Nat /\ A!Begin(w, "login", u, "none", "check")
  BY DEF A!BeginLogin, AccInv, AccTypes
<1> QED
  BY <1>1, RequestBegins DEF A!Writers

\* A new account changes nothing for those who are there.
LEMMA AccountMade ==
    ASSUME AccInv, NEW u \in Users, NEW admin \in BOOLEAN, accounts[u] = A!Absent, accounts' = A!Made(u, admin)
    PROVE  /\ accounts' \in [Users -> Account]
           /\ accounts'[u].state = "here" /\ accounts'[u].admin = admin /\ ~accounts'[u].off /\ accounts'[u].pw = stamps + 1
           /\ ~A!Here(u)
           /\ \A v \in Users : v # u => accounts'[v] = accounts[v]
           /\ \A v \in Users : A!Here(v) => A!Here(v)' /\ accounts'[v] = accounts[v]
           /\ \A v \in Users : Usable(v) => Usable(v)'
           /\ \A v \in Users : Administers(v) => Administers(v)'
<1>1. accounts \in [Users -> Account] /\ stamps \in Nat
  BY DEF AccInv, AccTypes
<1> DEFINE r == [A!Admin(stamps + 1) EXCEPT !.admin = admin]
<1>2. r \in Account
  <2>1. A!Admin(stamps + 1) \in Account
    BY <1>1 DEF A!Admin, Account
  <2> QED
    BY <2>1 DEF Account
<1>3. r.state = "here" /\ r.admin = admin /\ ~r.off /\ r.pw = stamps + 1
  BY DEF A!Admin
<1> HIDE DEF r
<1>4. ~A!Here(u)
  BY DEF A!Here, A!Absent
<1>5. /\ accounts' \in [Users -> Account]
      /\ accounts'[u] = r
      /\ \A v \in Users : v # u => accounts'[v] = accounts[v]
  BY <1>1, <1>2 DEF A!Made, r
<1>6. \A v \in Users : A!Here(v) => A!Here(v)' /\ accounts'[v] = accounts[v]
  BY <1>4, <1>5 DEF A!Here
<1> QED
  BY <1>3, <1>4, <1>5, <1>6 DEF Usable, Administers

LEMMA AccCreateUser ==
    ASSUME AccInv, NEW u \in Users, NEW admin \in BOOLEAN, A!CreateUser(u, admin)
    PROVE  AccInv'
<1>1. /\ accounts[u] = A!Absent /\ accounts' = A!Made(u, admin) /\ stamps' = stamps + 1
      /\ UNCHANGED <<issued, minted, setupToken, inflight, collided, loose>>
      /\ ~setupToken
  BY AdminIsThere DEF A!CreateUser
<1>2. /\ accounts' \in [Users -> Account]
      /\ \A v \in Users : A!Here(v) => A!Here(v)' /\ accounts'[v] = accounts[v]
      /\ \A v \in Users : Usable(v) => Usable(v)'
      /\ \A v \in Users : Administers(v) => Administers(v)'
  BY <1>1, AccountMade
<1>3. AccTypes'
  BY <1>1, <1>2 DEF AccInv, AccTypes
<1>4. \A w \in A!Workers : PlaceFits(w)'
  BY <1>1 DEF AccInv, PlaceFits, A!At, A!User
<1>5. A!SetupOnce' /\ (setupToken' => \A w \in A!Workers : ~A!Writing(w)')
  BY <1>1 DEF A!SetupOnce
<1>6. ASSUME ~collided'
      PROVE  /\ A!AdminStays'
             /\ \A w \in A!Workers : (A!Writing(w)' => WriterFits(w)') /\ (inflight'[w].kind = "login" => LoginFits(w)')
             /\ \A t \in A!Tokens : TokenFits(t)'
  <2>0. ~collided /\ \A w \in A!Workers : A!User(w)' = A!User(w) /\ A!Row(w)' = A!Row(w) /\ A!Writing(w)' = A!Writing(w)
    BY <1>1, <1>6 DEF A!User, A!Row, A!Writing
  <2>1. A!AdminStays'
    BY <1>2, AdminIsThere DEF A!CreateUser, A!AdminStays, Administers
  <2>2. ASSUME NEW w \in A!Workers, A!Writing(w)'
        PROVE  WriterFits(w)'
    <3>1. WriterFits(w) /\ A!User(w) \in Users
      BY <2>0, <2>2, RequestTyped DEF AccInv, PlaceFits, A!Writing, A!Writers
    <3>2. inflight'[w].at \notin {"check", "get"} => A!Here(A!User(w))' /\ A!Row(w)' = accounts'[A!User(w)]
      BY <1>1, <1>2, <2>0, <3>1 DEF WriterFits
    <3>3. inflight'[w].kind = "change" => Usable(A!User(w))'
      BY <1>1, <1>2, <2>0, <3>1 DEF WriterFits, Usable, A!Here
    <3> QED
      BY <1>1, <1>2, <2>0, <3>1, <3>2, <3>3 DEF WriterFits, A!Losing
  <2>3. ASSUME NEW w \in A!Workers, inflight'[w].kind = "login"
        PROVE  LoginFits(w)'
    <3>1. LoginFits(w) /\ A!User(w) \in Users
      BY <1>1, <2>0, <2>3, RequestTyped DEF AccInv, PlaceFits
    <3> QED
      BY <1>1, <1>2, <2>0, <3>1 DEF LoginFits, A!At, Usable
  <2>4. ASSUME NEW t \in A!Tokens
        PROVE  TokenFits(t)'
    <3>1. TokenFits(t) /\ issued[t].user \in Users \cup {"nobody"}
      BY <2>0 DEF AccInv, AccTypes, AccSession
    <3> QED
      BY <1>1, <1>2, <2>0, <3>1 DEF TokenFits, Usable
  <2> QED
    BY <2>1, <2>2, <2>3, <2>4
<1> QED
  BY <1>3, <1>4, <1>5, <1>6 DEF AccInv

LEMMA AccBootstrap ==
    ASSUME AccInv, NEW w \in A!Workers, NEW u \in Users, A!Bootstrap(w, u)
    PROVE  AccInv'
<1> DEFINE row == A!Made(u, TRUE)[u]
           r == [A!NoRequest EXCEPT !.kind = "login", !.user = u, !.at = "mint", !.row = row]
<1>1. /\ accounts[u] = A!Absent /\ accounts' = A!Made(u, TRUE) /\ stamps' = stamps + 1 /\ setupToken' = FALSE /\ setupToken
      /\ A!Goes(w, r) /\ A!At(w, "idle")
      /\ UNCHANGED <<issued, minted, collided, loose>>
  BY DEF A!Bootstrap
<1>2. /\ accounts' \in [Users -> Account]
      /\ accounts'[u].state = "here" /\ accounts'[u].admin = TRUE /\ ~accounts'[u].off /\ accounts'[u].pw = stamps + 1
      /\ \A v \in Users : A!Here(v) => A!Here(v)' /\ accounts'[v] = accounts[v]
      /\ \A v \in Users : Usable(v) => Usable(v)'
  BY <1>1, AccountMade
<1>r. row = accounts'[u] /\ row \in Account
  BY <1>1, <1>2
<1> HIDE DEF row
<1>3. /\ r \in AccRequest
      /\ r.kind = "login" /\ r.user = u /\ r.at = "mint" /\ r.row = row
  <2>1. "mint" \in AccPlaces
    BY DEF AccPlaces
  <2> QED
    BY <1>r, <2>1 DEF A!NoRequest, AccRequest
<1> HIDE DEF r
<1>4. /\ inflight' \in [A!Workers -> AccRequest]
      /\ inflight'[w] = r /\ \A v \in A!Workers : v # w => inflight'[v] = inflight[v]
  BY <1>1, <1>3, RequestGoes DEF AccInv, AccTypes
<1>5. AccTypes'
  <2>1. setupToken' \in BOOLEAN
    BY <1>1
  <2>2. stamps' \in Nat
    BY <1>1 DEF AccInv, AccTypes
  <2> QED
    BY <1>1, <1>2, <1>4, <2>1, <2>2 DEF AccInv, AccTypes
<1>6. \A v \in A!Workers : PlaceFits(v)'
  BY <1>3, <1>4, AccountsFit DEF AccInv, PlaceFits, A!At, A!User
<1>7. \A v \in A!Workers : ~A!Writing(v)'
  BY <1>1, <1>3, <1>4 DEF AccInv, A!Writing, A!Writers
<1>8. ASSUME ~collided'
      PROVE  /\ A!AdminStays'
             /\ \A v \in A!Workers : inflight'[v].kind = "login" => LoginFits(v)'
             /\ \A t \in A!Tokens : TokenFits(t)'
  <2>1. A!AdminStays'
    BY <1>2 DEF A!AdminStays, A!Here
  <2>2. ASSUME NEW v \in A!Workers, inflight'[v].kind = "login"
        PROVE  LoginFits(v)'
    <3>1. CASE v = w
      BY <1>2, <1>3, <1>4, <1>7, <1>r, <3>1 DEF LoginFits, A!User, A!Row, Usable, A!Here
    <3>2. CASE v # w
      <4>1. LoginFits(v) /\ inflight'[v] = inflight[v] /\ A!User(v) \in Users
        BY <1>1, <1>4, <1>8, <2>2, <3>2, RequestTyped DEF AccInv, PlaceFits
      <4> QED
        BY <1>1, <1>2, <1>7, <4>1 DEF LoginFits, A!At, Usable, A!User, A!Row
    <3> QED
      BY <3>1, <3>2
  <2>3. ASSUME NEW t \in A!Tokens
        PROVE  TokenFits(t)'
    <3>1. TokenFits(t) /\ issued[t].user \in Users \cup {"nobody"} /\ \A v \in A!Workers : ~A!Writing(v)
      BY <1>1, <1>8 DEF AccInv, AccTypes, AccSession
    <3> QED
      BY <1>1, <1>2, <3>1 DEF TokenFits, Usable
  <2> QED
    BY <2>1, <2>2, <2>3
<1> QED
  BY <1>1, <1>5, <1>6, <1>7, <1>8 DEF AccInv, A!SetupOnce

-----------------------------------------------------------------------------
\* What a patch makes of a row.
LEMMA PatchedFacts ==
    ASSUME NEW row \in Account, NEW patch \in Patches \cup {"none", "password"}, stamps \in Nat
    PROVE  /\ A!Patched(row, patch) \in Account
           /\ A!Patched(row, patch).state = row.state
           /\ row.admin /\ patch # "demote" => A!Patched(row, patch).admin
           /\ A!Patched(row, patch).admin /\ ~row.admin => patch = "promote"
           /\ ~row.off /\ patch # "disable" => ~A!Patched(row, patch).off
           /\ patch # "password" => A!Patched(row, patch).pw = row.pw
<1> DEFINE admin == (row.admin \/ patch = "promote") /\ patch # "demote"
           off == (row.off \/ patch = "disable") /\ patch # "enable"
           pw == IF patch = "password" THEN stamps + 1 ELSE row.pw
           r == [row EXCEPT !.admin = admin, !.off = off, !.pw = pw]
<1>1. admin \in BOOLEAN /\ off \in BOOLEAN
  OBVIOUS
<1>2. pw \in Nat
  BY DEF Account
<1>3. /\ row.admin /\ patch # "demote" => admin
      /\ admin /\ ~row.admin => patch = "promote"
      /\ ~row.off /\ patch # "disable" => ~off
      /\ patch # "password" => pw = row.pw
  OBVIOUS
<1> HIDE DEF admin, off, pw
<1>4. r \in Account /\ r.state = row.state /\ r.admin = admin /\ r.off = off /\ r.pw = pw
  BY <1>1, <1>2 DEF Account
<1>5. A!Patched(row, patch) = r
  BY DEF A!Patched, admin, off, pw
<1> HIDE DEF r
<1> QED
  BY <1>3, <1>4, <1>5

\* The row is written: the one other field changes, and the sessions are next where it ends them.
LEMMA AccWrite ==
    ASSUME AccInv, NEW w \in A!Workers, A!Write(w)
    PROVE  AccInv'
<1>u. PICK u \in Users : u = A!User(w)
  BY RequestTyped DEF A!Write, A!At
<1> DEFINE row == A!Patched(A!Row(w), inflight[w].patch)
           r == IF A!Revokes(inflight[w].patch) THEN [inflight[w] EXCEPT !.at = "revoke", !.row = row] ELSE A!NoRequest
<1>1. /\ inflight[w].at = "write" /\ A!Goes(w, r)
      /\ accounts' = IF A!Here(u) THEN [accounts EXCEPT ![u] = row] ELSE accounts
      /\ stamps' = IF inflight[w].patch = "password" THEN stamps + 1 ELSE stamps
      /\ UNCHANGED <<issued, minted, setupToken, collided, loose>>
  BY <1>u DEF A!Write, A!At, A!Ends
<1>2. /\ inflight[w] \in AccRequest /\ A!Row(w) \in Account /\ PlaceFits(w)
      /\ inflight[w].patch \in Patches \cup {"none", "password"} /\ stamps \in Nat
      /\ accounts \in [Users -> Account]
  <2>1. inflight[w].patch \in Patches \cup {"none", "password"} /\ stamps \in Nat /\ accounts \in [Users -> Account]
    BY RequestTyped DEF AccInv, AccTypes, AccRequest
  <2> QED
    BY <1>1, <2>1, RequestTyped DEF A!At
<1>3. /\ row \in Account /\ row.state = A!Row(w).state
      /\ A!Row(w).admin /\ inflight[w].patch # "demote" => row.admin
      /\ row.admin /\ ~A!Row(w).admin => inflight[w].patch = "promote"
      /\ ~A!Row(w).off /\ inflight[w].patch # "disable" => ~row.off
      /\ inflight[w].patch # "password" => row.pw = A!Row(w).pw
  BY <1>2, PatchedFacts
<1> HIDE DEF row
<1>4. /\ r \in AccRequest
      /\ A!Revokes(inflight[w].patch) => /\ r.kind = inflight[w].kind /\ r.user = u /\ r.patch = inflight[w].patch
                                         /\ r.at = "revoke" /\ r.row = row
      /\ ~A!Revokes(inflight[w].patch) => r = A!NoRequest
  <2>1. CASE A!Revokes(inflight[w].patch)
    <3>1. "revoke" \in AccPlaces
      BY DEF AccPlaces
    <3> QED
      BY <1>2, <1>3, <1>u, <2>1, <3>1 DEF AccRequest, A!User
  <2>2. CASE ~A!Revokes(inflight[w].patch)
    BY <2>2, AccNoRequest
  <2> QED
    BY <2>1, <2>2
<1> HIDE DEF r
<1>5. /\ inflight' \in [A!Workers -> AccRequest]
      /\ inflight'[w] = r /\ \A v \in A!Workers : v # w => inflight'[v] = inflight[v]
  BY <1>1, <1>4, RequestGoes DEF AccInv, AccTypes
<1>6. /\ A!Writing(w) /\ inflight[w].kind \in {"patch", "change"}
      /\ inflight[w].kind = "change" => inflight[w].patch = "password"
  BY <1>1, <1>2, RequestTyped DEF PlaceFits, A!At, A!Writing, A!Writers
<1>7. /\ accounts' \in [Users -> Account]
      /\ \A v \in Users : v # u => accounts'[v] = accounts[v]
      /\ A!Here(u) => accounts'[u] = row
      /\ ~A!Here(u) => accounts' = accounts
  BY <1>1, <1>2, <1>3
<1>8. AccTypes'
  BY <1>1, <1>2, <1>5, <1>7 DEF AccInv, AccTypes
<1>9. PlaceFits(w)'
  <2>1. CASE A!Revokes(inflight[w].patch)
    BY <1>2, <1>4, <1>5, <1>6, <1>u, <2>1, AccountsFit DEF PlaceFits, A!At, A!User
  <2>2. CASE ~A!Revokes(inflight[w].patch)
    BY <1>4, <1>5, <2>2 DEF PlaceFits, A!At, A!User, A!NoRequest
  <2> QED
    BY <2>1, <2>2
<1>10. \A v \in A!Workers : PlaceFits(v)'
  BY <1>5, <1>9 DEF AccInv, PlaceFits, A!At, A!User
<1>11. A!SetupOnce' /\ (setupToken' => \A v \in A!Workers : ~A!Writing(v)')
  BY <1>1, <1>6 DEF AccInv, A!SetupOnce
<1>12. ASSUME ~collided'
       PROVE  /\ A!AdminStays'
              /\ \A v \in A!Workers : (A!Writing(v)' => WriterFits(v)') /\ (inflight'[v].kind = "login" => LoginFits(v)')
              /\ \A t \in A!Tokens : TokenFits(t)'
  <2>0. ~collided /\ WriterFits(w)
    BY <1>1, <1>6, <1>12 DEF AccInv
  <2>1. A!Here(u) /\ A!Row(w) = accounts[u] /\ \A v \in A!Workers : A!Writing(v) => v = w
    BY <1>u, <1>1, <2>0 DEF WriterFits
  <2>2. accounts'[u] = row /\ A!Here(u)'
    BY <1>3, <1>7, <2>1 DEF A!Here
  <2>3. Usable(u) /\ inflight[w].patch # "disable" => Usable(u)'
    BY <1>3, <2>1, <2>2 DEF Usable
  <2>4. \A v \in Users : v # u => (Administers(v) <=> Administers(v)') /\ (Usable(v) <=> Usable(v)')
    BY <1>7 DEF Administers, Usable, A!Here
  <2>5. A!Losing(w, A!Row(w)) => \E v \in Users : v # u /\ Administers(v)
    BY <1>u, <1>1, <2>0 DEF WriterFits
  <2>6. A!AdminStays'
    <3>1. PICK x \in Users : Administers(x)
      BY <1>2, <2>0, <2>1 DEF AccInv, A!AdminStays, Administers, A!Here, A!Absent
    <3>2. CASE x # u
      BY <2>4, <3>1, <3>2 DEF A!AdminStays, Administers
    <3>3. CASE x = u /\ A!Losing(w, A!Row(w))
      BY <2>4, <2>5, <3>3 DEF A!AdminStays, Administers
    <3>4. CASE x = u /\ ~A!Losing(w, A!Row(w))
      <4>1. inflight[w].patch \notin {"demote", "disable"}
        BY <2>1, <3>1, <3>4 DEF A!Losing, Administers
      <4>2. Administers(u)'
        BY <1>3, <2>1, <2>2, <3>1, <3>4, <4>1 DEF Administers
      <4> QED
        BY <1>2, <4>2 DEF A!AdminStays, Administers
    <3> QED
      BY <3>2, <3>3, <3>4
  <2>7. \A v \in A!Workers : A!Writing(v)' => v = w /\ A!Revokes(inflight[w].patch)
    <3>1. ~A!Revokes(inflight[w].patch) => ~A!Writing(w)'
      BY <1>4, <1>5 DEF A!Writing, A!NoRequest, A!Writers
    <3> QED
      BY <1>5, <2>1, <3>1 DEF A!Writing
  <2>8. ASSUME NEW v \in A!Workers, A!Writing(v)'
        PROVE  WriterFits(v)'
    <3>1. /\ v = w /\ inflight'[w].kind = inflight[w].kind /\ A!User(w)' = u /\ inflight'[w].patch = inflight[w].patch
          /\ inflight'[w].at = "revoke" /\ A!Row(w)' = row
      BY <1>4, <1>5, <2>7, <2>8 DEF A!User, A!Row
    <3>2. A!Here(A!User(w))' /\ A!Row(w)' = accounts'[A!User(w)']
      BY <2>2, <3>1
    <3>3. A!Losing(w, A!Row(w))' => \E x \in Users : x # A!User(w)' /\ Administers(x)'
      <4>1. A!Losing(w, A!Row(w))' => A!Losing(w, A!Row(w))
        BY <1>3, <1>6, <3>1 DEF A!Losing
      <4> QED
        BY <2>4, <2>5, <3>1, <4>1
    <3>4. inflight'[w].kind = "change" => Usable(A!User(w))'
      <4>1. inflight[w].kind = "change" => Usable(u) /\ inflight[w].patch # "disable"
        BY <1>u, <1>6, <2>0 DEF WriterFits
      <4>2. inflight[w].kind = "change" => Usable(u)'
        BY <2>3, <4>1
      <4>3. Usable(u)' => Usable(A!User(w))'
        BY <3>1 DEF Usable, A!Here
      <4> QED
        BY <3>1, <4>2, <4>3
    <3> QED
      BY <2>7, <3>1, <3>2, <3>3, <3>4 DEF WriterFits
  <2>9. ASSUME NEW v \in A!Workers, inflight'[v].kind = "login"
        PROVE  LoginFits(v)'
    <3>1. v # w
      BY <1>4, <1>5, <1>6, <2>9 DEF A!NoRequest
    <3>2. LoginFits(v) /\ inflight'[v] = inflight[v] /\ A!User(v) \in Users
      BY <1>5, <2>0, <2>9, <3>1, RequestTyped DEF AccInv, PlaceFits
    <3>3. A!User(v) = u => u \in loose
      BY <1>u, <1>6, <3>2 DEF LoginFits
    <3>4. \A x \in A!Workers : A!Writing(x)' /\ A!User(x)' = A!User(v) => A!User(v) \in loose
      BY <1>4, <1>5, <2>7, <3>3 DEF A!User
    <3> QED
      BY <1>1, <1>7, <2>4, <3>2, <3>3, <3>4 DEF LoginFits, A!At, A!User, A!Row
  <2>10. ASSUME NEW t \in A!Tokens
         PROVE  TokenFits(t)'
    <3>1. TokenFits(t) /\ issued[t].user \in Users \cup {"nobody"} /\ issued'[t] = issued[t] /\ loose' = loose
      BY <1>1, <2>0 DEF AccInv, AccTypes, AccSession
    <3>2. CASE issued[t].user # u
      BY <1>u, <1>7, <2>1, <2>4, <3>1, <3>2 DEF TokenFits
    <3>3. CASE issued[t].user = u /\ A!Revokes(inflight[w].patch)
      <4>1. A!Writing(w)' /\ A!User(w)' = u /\ inflight'[w].at = "revoke"
        BY <1>4, <1>5, <1>6, <3>3 DEF A!Writing, A!User, A!Writers
      <4> QED
        BY <3>1, <3>3, <4>1 DEF TokenFits
    <3>4. CASE issued[t].user = u /\ ~A!Revokes(inflight[w].patch)
      <4>1. u \notin loose => Usable(u) /\ accounts[u].pw = issued[t].pw
        BY <1>1, <1>u, <2>1, <3>1, <3>4, AccountsFit DEF TokenFits
      <4>2. u \notin loose => Usable(u)' /\ accounts'[u].pw = issued[t].pw
        BY <1>3, <2>1, <2>2, <2>3, <3>4, <4>1 DEF A!Revokes
      <4> QED
        BY <3>1, <3>4, <4>2 DEF TokenFits, Usable, A!Here
    <3> QED
      BY <3>2, <3>3, <3>4
  <2> QED
    BY <2>6, <2>8, <2>9, <2>10
<1> QED
  BY <1>8, <1>10, <1>11, <1>12 DEF AccInv

\* The sessions of the user end, or stay and the user is one whose sessions were left behind.
LEMMA AccRevoke ==
    ASSUME AccInv, NEW w \in A!Workers, A!Revoke(w)
    PROVE  AccInv'
<1>u. PICK u \in Users : u = A!User(w)
  BY RequestTyped DEF A!Revoke, A!At
<1> DEFINE r == IF A!AfterRevoke(w) = "idle" THEN A!NoRequest ELSE [inflight[w] EXCEPT !.at = A!AfterRevoke(w)]
<1>1. /\ inflight[w].at = "revoke" /\ A!Goes(w, r)
      /\ (issued' = A!Revoked(u) /\ loose' = loose) \/ (issued' = issued /\ loose' = loose \cup {u})
      /\ UNCHANGED <<accounts, minted, setupToken, stamps, collided>>
  BY <1>u DEF A!Revoke, A!At, A!To, A!Ends
<1>2. inflight[w] \in AccRequest /\ PlaceFits(w) /\ issued \in [A!Tokens -> AccSession]
  BY RequestTyped DEF AccInv, AccTypes
<1>3. /\ A!Writing(w) /\ A!AfterRevoke(w) \in {"erase", "mint", "idle"}
      /\ inflight[w].kind = "patch" <=> A!AfterRevoke(w) = "idle"
      /\ inflight[w].kind = "delete" <=> A!AfterRevoke(w) = "erase"
      /\ inflight[w].kind = "change" <=> A!AfterRevoke(w) = "mint"
  BY <1>1, <1>2, RequestTyped DEF PlaceFits, A!At, A!Writing, A!Writers, A!AfterRevoke
<1>4. /\ r \in AccRequest
      /\ A!AfterRevoke(w) = "idle" => r = A!NoRequest
      /\ A!AfterRevoke(w) # "idle" => /\ r.kind = inflight[w].kind /\ r.user = u /\ r.patch = inflight[w].patch
                                   /\ r.at = A!AfterRevoke(w) /\ r.row = inflight[w].row
  <2>1. CASE A!AfterRevoke(w) = "idle"
    BY <2>1, AccNoRequest
  <2>2. CASE A!AfterRevoke(w) # "idle"
    <3>1. A!AfterRevoke(w) \in AccPlaces
      BY <1>3 DEF AccPlaces
    <3> QED
      BY <1>2, <1>u, <2>2, <3>1 DEF AccRequest, A!User
  <2> QED
    BY <2>1, <2>2
<1> HIDE DEF r
<1>5. /\ inflight' \in [A!Workers -> AccRequest]
      /\ inflight'[w] = r /\ \A v \in A!Workers : v # w => inflight'[v] = inflight[v]
  BY <1>1, <1>4, RequestGoes DEF AccInv, AccTypes
<1>6. /\ issued' \in [A!Tokens -> AccSession]
      /\ \A t \in A!Tokens : issued'[t] = issued[t] \/ issued'[t].user = "nobody"
      /\ u \in loose' \/ \A t \in A!Tokens : issued'[t].user # u
      /\ loose \subseteq loose'
  <2>1. A!Nobodys \in AccSession /\ A!Nobodys.user = "nobody"
    BY DEF A!Nobodys, AccSession
  <2> QED
    BY <1>1, <1>2, <2>1, AccountsFit DEF A!Revoked
<1>7. AccTypes'
  BY <1>1, <1>5, <1>6 DEF AccInv, AccTypes
<1>8. PlaceFits(w)'
  <2>1. CASE A!AfterRevoke(w) = "idle"
    BY <1>4, <1>5, <2>1 DEF PlaceFits, A!At, A!User, A!NoRequest
  <2>2. CASE A!AfterRevoke(w) # "idle"
    BY <1>2, <1>3, <1>4, <1>5, <1>u, <2>2, AccountsFit DEF PlaceFits, A!At, A!User
  <2> QED
    BY <2>1, <2>2
<1>9. \A v \in A!Workers : PlaceFits(v)'
  BY <1>5, <1>8 DEF AccInv, PlaceFits, A!At, A!User
<1>10. A!SetupOnce' /\ (setupToken' => \A v \in A!Workers : ~A!Writing(v)')
  BY <1>1, <1>3 DEF AccInv, A!SetupOnce
<1>11. ASSUME ~collided'
       PROVE  /\ A!AdminStays'
              /\ \A v \in A!Workers : (A!Writing(v)' => WriterFits(v)') /\ (inflight'[v].kind = "login" => LoginFits(v)')
              /\ \A t \in A!Tokens : TokenFits(t)'
  <2>0. ~collided /\ WriterFits(w)
    BY <1>1, <1>3, <1>11 DEF AccInv
  <2>1. A!AdminStays'
    BY <1>1, <2>0 DEF AccInv, A!AdminStays, A!Here
  <2>2. \A v \in A!Workers : A!Writing(v)' => v = w /\ A!AfterRevoke(w) # "idle"
    <3>1. A!AfterRevoke(w) = "idle" => ~A!Writing(w)'
      BY <1>4, <1>5 DEF A!Writing, A!NoRequest, A!Writers
    <3>2. \A v \in A!Workers : A!Writing(v) => v = w
      BY <2>0 DEF WriterFits
    <3> QED
      BY <1>5, <3>1, <3>2 DEF A!Writing
  <2>3. ASSUME NEW v \in A!Workers, A!Writing(v)'
        PROVE  WriterFits(v)'
    <3>1. /\ v = w /\ inflight'[w].kind = inflight[w].kind /\ A!User(w)' = u /\ inflight'[w].patch = inflight[w].patch
          /\ inflight'[w].at = A!AfterRevoke(w) /\ A!Row(w)' = A!Row(w)
      BY <1>4, <1>5, <2>2, <2>3 DEF A!User, A!Row
    <3>2. A!Here(A!User(w))' /\ A!Row(w)' = accounts'[A!User(w)']
      BY <1>1, <1>u, <2>0, <3>1 DEF WriterFits, A!Here
    <3>3. A!Losing(w, A!Row(w))' => \E x \in Users : x # A!User(w)' /\ Administers(x)'
      BY <1>1, <1>u, <2>0, <3>1 DEF WriterFits, A!Losing, Administers, A!Here
    <3>4. inflight'[w].kind = "change" => Usable(A!User(w))'
      BY <1>1, <1>u, <2>0, <3>1 DEF WriterFits, Usable, A!Here
    <3> QED
      BY <1>6, <2>2, <3>1, <3>2, <3>3, <3>4 DEF WriterFits
  <2>4. ASSUME NEW v \in A!Workers, inflight'[v].kind = "login"
        PROVE  LoginFits(v)'
    <3>1. v # w
      BY <1>3, <1>4, <1>5, <2>4 DEF A!NoRequest, A!Writing, A!Writers
    <3>2. LoginFits(v) /\ inflight'[v] = inflight[v]
      BY <1>5, <2>0, <2>4, <3>1 DEF AccInv
    <3>3. \A x \in A!Workers : A!Writing(x)' /\ A!User(x)' = A!User(v) => A!User(v) \in loose'
      BY <1>3, <1>4, <1>5, <1>6, <1>u, <2>2, <3>2 DEF LoginFits, A!User
    <3> QED
      BY <1>1, <1>6, <3>2, <3>3 DEF LoginFits, A!At, A!User, A!Row, Usable, A!Here
  <2>5. ASSUME NEW t \in A!Tokens
        PROVE  TokenFits(t)'
    <3>1. CASE issued'[t].user = "nobody" \/ issued'[t].user \in loose'
      BY <3>1 DEF TokenFits
    <3>2. CASE issued'[t].user # "nobody" /\ issued'[t].user \notin loose'
      <4>1. TokenFits(t) /\ issued'[t] = issued[t] /\ issued[t].user # u /\ issued[t].user \notin loose
        BY <1>6, <2>0, <3>2 DEF AccInv
      <4>2. \A v \in A!Workers : A!Writing(v) => A!User(v) # issued[t].user
        BY <1>u, <2>0, <4>1 DEF WriterFits
      <4> QED
        BY <1>1, <3>2, <4>1, <4>2 DEF TokenFits, Usable, A!Here
    <3> QED
      BY <3>1, <3>2
  <2> QED
    BY <2>1, <2>3, <2>4, <2>5
<1> QED
  BY <1>7, <1>9, <1>10, <1>11 DEF AccInv

LEMMA AccErase ==
    ASSUME AccInv, NEW w \in A!Workers, A!Erase(w)
    PROVE  AccInv'
<1>u. PICK u \in Users : u = A!User(w)
  BY RequestTyped DEF A!Erase, A!At
<1>1. /\ inflight[w].at = "erase" /\ A!Goes(w, A!NoRequest)
      /\ accounts' = [accounts EXCEPT ![u].state = "gone"]
      /\ UNCHANGED <<issued, minted, setupToken, stamps, collided, loose>>
  BY <1>u DEF A!Erase, A!At, A!Ends
<1>2. A!Writing(w) /\ inflight[w].kind = "delete" /\ accounts \in [Users -> Account]
  BY <1>1, RequestTyped DEF AccInv, AccTypes, PlaceFits, A!At, A!Writing, A!Writers
<1>3. /\ inflight' \in [A!Workers -> AccRequest]
      /\ inflight'[w] = A!NoRequest /\ \A v \in A!Workers : v # w => inflight'[v] = inflight[v]
  BY <1>1, AccNoRequest, RequestGoes DEF AccInv, AccTypes
<1>4. /\ accounts' \in [Users -> Account]
      /\ accounts'[u].state = "gone"
      /\ \A v \in Users : v # u => accounts'[v] = accounts[v]
  BY <1>1, <1>2 DEF Account
<1>5. AccTypes'
  BY <1>1, <1>3, <1>4 DEF AccInv, AccTypes
<1>6. \A v \in A!Workers : PlaceFits(v)'
  BY <1>3 DEF AccInv, PlaceFits, A!At, A!User, A!NoRequest
<1>7. A!SetupOnce' /\ (setupToken' => \A v \in A!Workers : ~A!Writing(v)')
  BY <1>1, <1>2 DEF AccInv, A!SetupOnce
<1>8. ASSUME ~collided'
      PROVE  /\ A!AdminStays'
             /\ \A v \in A!Workers : ~A!Writing(v)' /\ (inflight'[v].kind = "login" => LoginFits(v)')
             /\ \A t \in A!Tokens : TokenFits(t)'
  <2>0. ~collided /\ WriterFits(w)
    BY <1>1, <1>2, <1>8 DEF AccInv
  <2>1. \A v \in Users : v # u => (Usable(v) => Usable(v)') /\ (Administers(v) => Administers(v)')
    BY <1>4 DEF Administers, Usable, A!Here
  <2>2. A!Here(u) /\ A!Row(w) = accounts[u]
    BY <1>1, <1>u, <2>0 DEF WriterFits
  <2>3. A!AdminStays'
    <3>1. PICK x \in Users : Administers(x)
      BY <2>0, <2>2 DEF AccInv, A!AdminStays, Administers, A!Here, A!Absent
    <3>2. CASE x = u
      <4>1. A!Losing(w, A!Row(w))
        BY <1>2, <2>2, <3>1, <3>2 DEF A!Losing, Administers
      <4>2. \E v \in Users : v # u /\ Administers(v)
        BY <1>1, <1>u, <2>0, <4>1 DEF WriterFits
      <4> QED
        BY <2>1, <4>2 DEF A!AdminStays, Administers
    <3>3. CASE x # u
      BY <2>1, <3>1, <3>3 DEF A!AdminStays, Administers
    <3> QED
      BY <3>2, <3>3
  <2>4. \A v \in A!Workers : ~A!Writing(v)'
    <3>1. ~A!Writing(w)'
      BY <1>3 DEF A!Writing, A!NoRequest, A!Writers
    <3>2. \A v \in A!Workers : A!Writing(v) => v = w
      BY <2>0 DEF WriterFits
    <3> QED
      BY <1>3, <3>1, <3>2 DEF A!Writing
  <2>5. ASSUME NEW v \in A!Workers, inflight'[v].kind = "login"
        PROVE  LoginFits(v)'
    <3>1. v # w
      BY <1>3, <2>5 DEF A!NoRequest
    <3>2. LoginFits(v) /\ inflight'[v] = inflight[v] /\ A!User(v) \in Users
      BY <1>3, <2>0, <2>5, <3>1, RequestTyped DEF AccInv, PlaceFits
    <3>3. A!User(v) = u => u \in loose
      BY <1>2, <1>u, <3>2 DEF LoginFits
    <3> QED
      BY <1>1, <1>4, <2>1, <2>4, <3>2, <3>3 DEF LoginFits, A!At, A!User, A!Row
  <2>6. ASSUME NEW t \in A!Tokens
        PROVE  TokenFits(t)'
    <3>1. TokenFits(t) /\ issued[t].user \in Users \cup {"nobody"}
      BY <2>0 DEF AccInv, AccTypes, AccSession
    <3>2. issued[t].user = u => u \in loose
      BY <1>1, <1>u, <2>0 DEF WriterFits
    <3>3. issued[t].user # u => \A v \in A!Workers : A!Writing(v) => A!User(v) # issued[t].user
      BY <1>u, <2>0 DEF WriterFits
    <3> QED
      BY <1>1, <1>4, <2>1, <3>1, <3>2, <3>3 DEF TokenFits
  <2> QED
    BY <2>3, <2>4, <2>5, <2>6
<1> QED
  BY <1>5, <1>6, <1>7, <1>8 DEF AccInv

\* A session begins, for the row the request had read.
LEMMA AccMint ==
    ASSUME AccInv, NEW w \in A!Workers, A!Mint(w)
    PROVE  AccInv'
<1>u. PICK u \in Users : u = A!User(w)
  BY RequestTyped DEF A!Mint, A!At
<1> DEFINE s == [user |-> u, pw |-> A!Row(w).pw]
<1>1. /\ inflight[w].at = "mint" /\ A!Goes(w, A!NoRequest)
      /\ minted' = IF minted < MaxLogins THEN minted + 1 ELSE minted
      /\ issued' = IF minted < MaxLogins THEN [issued EXCEPT ![minted + 1] = s] ELSE issued
      /\ UNCHANGED <<accounts, setupToken, stamps, collided, loose>>
  BY <1>u DEF A!Mint, A!At, A!Ends
<1>2. inflight[w].kind \in {"login", "change"} /\ issued \in [A!Tokens -> AccSession] /\ minted \in Nat /\ A!Row(w) \in Account
  BY <1>1, RequestTyped DEF AccInv, AccTypes, PlaceFits, A!At, A!Writers
<1>3. /\ inflight' \in [A!Workers -> AccRequest]
      /\ inflight'[w] = A!NoRequest /\ \A v \in A!Workers : v # w => inflight'[v] = inflight[v]
  BY <1>1, AccNoRequest, RequestGoes DEF AccInv, AccTypes
<1>4. s \in AccSession /\ s.user = u /\ s.pw = A!Row(w).pw
  BY <1>2 DEF AccSession, Account
<1> HIDE DEF s
<1>5. /\ issued' \in [A!Tokens -> AccSession] /\ minted' \in Nat
      /\ \A t \in A!Tokens : issued'[t] = issued[t] \/ issued'[t] = s
  BY <1>1, <1>2, <1>4, AccountsFit DEF A!Tokens
<1>6. AccTypes'
  BY <1>1, <1>3, <1>5 DEF AccInv, AccTypes
<1>7. \A v \in A!Workers : PlaceFits(v)'
  BY <1>3 DEF AccInv, PlaceFits, A!At, A!User, A!NoRequest
<1>8. \A v \in A!Workers : A!Writing(v)' => A!Writing(v) /\ v # w /\ inflight'[v] = inflight[v]
  BY <1>3 DEF A!Writing, A!NoRequest, A!Writers
<1>9. A!SetupOnce' /\ (setupToken' => \A v \in A!Workers : ~A!Writing(v)')
  BY <1>1, <1>8 DEF AccInv, A!SetupOnce, A!Here
<1>10. ASSUME ~collided'
       PROVE  /\ A!AdminStays'
              /\ \A v \in A!Workers : (A!Writing(v)' => WriterFits(v)') /\ (inflight'[v].kind = "login" => LoginFits(v)')
              /\ \A t \in A!Tokens : TokenFits(t)'
  <2>0. ~collided
    BY <1>1, <1>10
  <2>1. A!AdminStays'
    BY <1>1, <2>0 DEF AccInv, A!AdminStays, A!Here
  \* Who else writes, writes another user or one a login overlapped.
  <2>2. \A v \in A!Workers : A!Writing(v) /\ v # w /\ A!User(v) = u => u \in loose
    <3>1. CASE inflight[w].kind = "login"
      BY <1>u, <2>0, <3>1 DEF AccInv, LoginFits
    <3>2. CASE inflight[w].kind = "change"
      BY <2>0, <3>2 DEF AccInv, WriterFits, A!Writing, A!Writers
    <3> QED
      BY <1>2, <3>1, <3>2
  <2>3. u \notin loose => Usable(u) /\ accounts[u].pw = s.pw
    <3>1. CASE inflight[w].kind = "login"
      BY <1>1, <1>4, <1>u, <2>0, <3>1 DEF AccInv, LoginFits, A!At
    <3>2. CASE inflight[w].kind = "change"
      BY <1>1, <1>4, <1>u, <2>0, <3>2 DEF AccInv, WriterFits, A!Writing, A!Writers
    <3> QED
      BY <1>2, <3>1, <3>2
  <2>4. ASSUME NEW v \in A!Workers, A!Writing(v)'
        PROVE  WriterFits(v)'
    <3>1. WriterFits(v) /\ v # w /\ inflight'[v] = inflight[v] /\ A!Writing(v)
      BY <1>8, <2>0, <2>4 DEF AccInv
    <3>2. A!User(v) \notin loose => A!User(v) # u
      BY <2>2, <3>1
    <3>3. inflight[v].at \in {"erase", "mint"} /\ A!User(v) \notin loose => \A t \in A!Tokens : issued'[t].user # A!User(v)
      BY <1>4, <1>5, <3>1, <3>2 DEF WriterFits
    <3> QED
      BY <1>1, <1>8, <3>1, <3>3 DEF WriterFits, A!User, A!Row, A!Here, A!Losing, Usable, Administers
  <2>5. ASSUME NEW v \in A!Workers, inflight'[v].kind = "login"
        PROVE  LoginFits(v)'
    <3>1. v # w
      BY <1>3, <2>5 DEF A!NoRequest
    <3>2. LoginFits(v) /\ inflight'[v] = inflight[v]
      BY <1>3, <2>0, <2>5, <3>1 DEF AccInv
    <3> QED
      BY <1>1, <1>8, <3>2 DEF LoginFits, A!At, A!User, A!Row, Usable, A!Here
  <2>6. ASSUME NEW t \in A!Tokens
        PROVE  TokenFits(t)'
    <3>1. CASE issued'[t] = s
      BY <1>1, <1>4, <2>3, <3>1 DEF TokenFits, Usable, A!Here
    <3>2. CASE issued'[t] = issued[t] /\ issued[t].user # u
      <4>1. TokenFits(t)
        BY <2>0 DEF AccInv
      <4>2. ASSUME \A v \in A!Workers : A!Writing(v)' /\ A!User(v)' = issued[t].user => inflight'[v].at \in {"check", "get", "count", "write"},
                   NEW v \in A!Workers, A!Writing(v), A!User(v) = issued[t].user
            PROVE  inflight[v].at \in {"check", "get", "count", "write"}
        <5>1. v # w
          BY <1>u, <3>2, <4>2
        <5> QED
          BY <1>3, <4>2, <5>1 DEF A!Writing, A!User
      <4> QED
        BY <1>1, <3>2, <4>1, <4>2 DEF TokenFits, Usable, A!Here
    <3>3. CASE issued'[t] = issued[t] /\ issued[t].user = u
      <4>1. CASE inflight[w].kind = "change"
        <5>1. WriterFits(w)
          BY <2>0, <4>1 DEF AccInv, A!Writing, A!Writers
        <5> QED
          BY <1>1, <1>u, <3>3, <5>1 DEF WriterFits, TokenFits
      <4>2. CASE inflight[w].kind = "login"
        <5>1. u \notin loose => \A v \in A!Workers : A!Writing(v) => A!User(v) # u
          BY <2>2, <4>2 DEF A!Writing, A!Writers
        <5>2. TokenFits(t)
          BY <2>0 DEF AccInv
        <5> QED
          BY <1>1, <3>3, <5>1, <5>2 DEF TokenFits, Usable, A!Here
      <4> QED
        BY <1>2, <4>1, <4>2
    <3> QED
      BY <1>5, <3>1, <3>2, <3>3
  <2> QED
    BY <2>1, <2>4, <2>5, <2>6
<1> QED
  BY <1>6, <1>7, <1>9, <1>10 DEF AccInv

LEMMA AccLeave ==
    ASSUME AccInv, NEW t \in A!Tokens, A!Leave(t)
    PROVE  AccInv'
<1>1. /\ issued' = [issued EXCEPT ![t] = A!Nobodys]
      /\ UNCHANGED <<accounts, minted, setupToken, inflight, stamps, collided, loose>>
  BY DEF A!Leave
<1>2. /\ issued' \in [A!Tokens -> AccSession]
      /\ \A x \in A!Tokens : issued'[x] = issued[x] \/ issued'[x].user = "nobody"
  <2>1. A!Nobodys \in AccSession /\ A!Nobodys.user = "nobody"
    BY DEF A!Nobodys, AccSession
  <2> QED
    BY <1>1, <2>1 DEF AccInv, AccTypes
<1>3. AccTypes'
  BY <1>1, <1>2 DEF AccInv, AccTypes
<1>4. /\ \A w \in A!Workers : PlaceFits(w)' /\ A!Writing(w)' = A!Writing(w) /\ A!User(w)' = A!User(w) /\ A!Row(w)' = A!Row(w)
      /\ A!SetupOnce'
  BY <1>1 DEF AccInv, PlaceFits, A!At, A!User, A!Row, A!Writing, A!SetupOnce, A!Here
<1>5. ASSUME ~collided'
      PROVE  /\ A!AdminStays'
             /\ \A w \in A!Workers : (A!Writing(w)' => WriterFits(w)') /\ (inflight'[w].kind = "login" => LoginFits(w)')
             /\ \A x \in A!Tokens : TokenFits(x)'
  <2>0. ~collided
    BY <1>1, <1>5
  <2>1. A!AdminStays'
    BY <1>1, <2>0 DEF AccInv, A!AdminStays, A!Here
  <2>2. ASSUME NEW w \in A!Workers, A!Writing(w)'
        PROVE  WriterFits(w)'
    <3>1. WriterFits(w) /\ A!User(w) \in Users
      BY <1>4, <2>0, <2>2, RequestTyped DEF AccInv, PlaceFits, A!Writing, A!Writers
    <3>2. inflight[w].at \in {"erase", "mint"} /\ A!User(w) \notin loose => \A x \in A!Tokens : issued'[x].user # A!User(w)
      BY <1>2, <3>1, AccountsFit DEF WriterFits
    <3> QED
      BY <1>1, <1>4, <3>1, <3>2 DEF WriterFits, A!Here, A!Losing, Usable, Administers
  <2>3. ASSUME NEW w \in A!Workers, inflight'[w].kind = "login"
        PROVE  LoginFits(w)'
    <3>1. LoginFits(w)
      BY <1>1, <2>0, <2>3 DEF AccInv
    <3> QED
      BY <1>1, <1>4, <3>1 DEF LoginFits, A!At, Usable, A!Here
  <2>4. ASSUME NEW x \in A!Tokens
        PROVE  TokenFits(x)'
    <3>1. TokenFits(x)
      BY <2>0 DEF AccInv
    <3> QED
      BY <1>1, <1>2, <1>4, <3>1 DEF TokenFits, Usable, A!Here
  <2> QED
    BY <2>1, <2>2, <2>3, <2>4
<1> QED
  BY <1>1, <1>3, <1>4, <1>5 DEF AccInv

LEMMA AccRestart ==
    ASSUME AccInv, A!Restart
    PROVE  AccInv'
<1>1. /\ inflight' = [w \in A!Workers |-> A!NoRequest]
      /\ setupToken' = ~\E u \in Users : A!Here(u)
      /\ loose \subseteq loose' /\ \A w \in A!Workers : A!At(w, "revoke") => A!User(w) \in loose'
      /\ UNCHANGED <<accounts, issued, minted, stamps, collided>>
  BY DEF A!Restart
<1>2. AccTypes'
  <2>1. inflight' \in [A!Workers -> AccRequest] /\ setupToken' \in BOOLEAN
    BY <1>1, AccNoRequest
  <2> QED
    BY <1>1, <2>1 DEF AccInv, AccTypes
<1>3. \A w \in A!Workers : PlaceFits(w)' /\ ~A!Writing(w)' /\ inflight'[w].kind # "login"
  BY <1>1 DEF PlaceFits, A!At, A!User, A!Writing, A!Writers, A!NoRequest
<1>4. A!SetupOnce'
  BY <1>1 DEF A!SetupOnce, A!Here
<1>5. ASSUME ~collided'
      PROVE  A!AdminStays' /\ \A t \in A!Tokens : TokenFits(t)'
  <2>1. A!AdminStays'
    BY <1>1, <1>5 DEF AccInv, A!AdminStays, A!Here
  <2>2. ASSUME NEW t \in A!Tokens, issued[t].user # "nobody", issued[t].user \notin loose'
        PROVE  Usable(issued[t].user)' /\ accounts'[issued[t].user].pw = issued[t].pw
    <3>1. TokenFits(t)
      BY <1>1, <1>5 DEF AccInv
    <3>2. ASSUME NEW w \in A!Workers, A!Writing(w), A!User(w) = issued[t].user
          PROVE  inflight[w].at \in {"check", "get", "count", "write"}
      <4>1. WriterFits(w) /\ inflight[w].kind # "login" /\ inflight[w].kind # "none"
        BY <1>1, <1>5, <3>2 DEF AccInv, A!Writing, A!Writers
      <4>2. inflight[w].at \notin {"revoke", "erase", "mint"}
        BY <1>1, <2>2, <3>2, <4>1 DEF WriterFits, A!At
      <4> QED
        BY <4>1, <4>2, RequestTyped DEF PlaceFits, A!At, AccPlaces
    <3> QED
      BY <1>1, <2>2, <3>1, <3>2 DEF TokenFits, Usable, A!Here
  <2>3. \A t \in A!Tokens : TokenFits(t)'
    BY <1>1, <2>2 DEF TokenFits, Usable, A!Here
  <2> QED
    BY <2>1, <2>3
<1> QED
  BY <1>2, <1>3, <1>4, <1>5 DEF AccInv

-----------------------------------------------------------------------------
LEMMA AccStarts ==
    ASSUME A!AccInit
    PROVE  AccInv
<1>1. /\ issued = [t \in A!Tokens |-> A!Nobodys] /\ minted = 0 /\ inflight = [w \in A!Workers |-> A!NoRequest] /\ stamps = 0
      /\ setupToken = (accounts = [u \in Users |-> A!Absent]) /\ collided = FALSE
      /\ accounts = [u \in Users |-> A!Absent] \/ accounts = [u \in Users |-> A!Admin(0)]
  BY DEF A!AccInit
<1>2. /\ A!Absent \in Account /\ A!Admin(0) \in Account /\ A!Absent.state = "never"
      /\ A!Admin(0).state = "here" /\ A!Admin(0).admin /\ ~A!Admin(0).off
      /\ A!Nobodys \in AccSession /\ A!Nobodys.user = "nobody"
  BY DEF A!Absent, A!Admin, Account, A!Nobodys, AccSession
<1>3. AccTypes
  <2>1. setupToken \in BOOLEAN /\ collided \in BOOLEAN
    BY <1>1
  <2>2. accounts \in [Users -> Account] /\ issued \in [A!Tokens -> AccSession] /\ inflight \in [A!Workers -> AccRequest]
    BY <1>1, <1>2, AccNoRequest
  <2> QED
    BY <1>1, <2>1, <2>2 DEF AccTypes
<1>4. \A w \in A!Workers : PlaceFits(w) /\ ~A!Writing(w) /\ inflight[w].kind # "login"
  BY <1>1 DEF PlaceFits, A!At, A!User, A!Writing, A!Writers, A!NoRequest
<1>5. A!SetupOnce
  BY <1>1, <1>2 DEF A!SetupOnce, A!Here
<1>6. A!AdminStays
  BY <1>1, <1>2 DEF A!AdminStays, A!Here
<1>7. \A t \in A!Tokens : TokenFits(t)
  BY <1>1, <1>2 DEF TokenFits
<1> QED
  BY <1>3, <1>4, <1>5, <1>6, <1>7 DEF AccInv

LEMMA AccMoves ==
    ASSUME AccInv, A!AccNext
    PROVE  AccInv'
<1>1. ASSUME NEW w \in A!Workers,
             A!Check(w) \/ A!WrongPassword(w) \/ A!Get(w) \/ A!Count(w) \/ A!Write(w) \/ A!Revoke(w) \/ A!Erase(w) \/ A!Mint(w)
      PROVE  AccInv'
  BY <1>1, AccCheck, AccWrongPassword, AccGet, AccCount, AccWrite, AccRevoke, AccErase, AccMint
<1>2. ASSUME NEW w \in A!Workers, NEW u \in Users,
             A!BeginDelete(w, u) \/ A!BeginChange(w, u) \/ A!BeginLogin(w, u) \/ A!Bootstrap(w, u)
             \/ \E p \in Patches : A!BeginPatch(w, u, p)
      PROVE  AccInv'
  BY <1>2, AccBeginDelete, AccBeginChange, AccBeginLogin, AccBootstrap, AccBeginPatch
<1>3. ASSUME NEW u \in Users, A!CreateUser(u, TRUE) \/ A!CreateUser(u, FALSE)
      PROVE  AccInv'
  BY <1>3, AccCreateUser
<1> QED
  BY <1>1, <1>2, <1>3, AccLeave, AccRestart DEF A!AccNext

LEMMA AccKeeps ==
    ASSUME AccInv, [A!AccNext]_accountVars
    PROVE  AccInv'
<1>1. CASE UNCHANGED accountVars
  BY <1>1 DEF accountVars, AccInv, AccTypes, PlaceFits, A!SetupOnce, A!AdminStays, WriterFits, LoginFits, TokenFits, Usable, Administers,
         A!Here, A!At, A!User, A!Row, A!Writing, A!Losing
<1> QED
  BY <1>1, AccMoves

\* A session outside the exceptions fits, whichever of them holds elsewhere.
LEMMA AccInvIsSound ==
    ASSUME AccInv
    PROVE  A!AccountsSound
<1>1. A!SetupOnce /\ (~collided => A!AdminStays)
  BY DEF AccInv
<1>2. A!SessionsFit
  <2> SUFFICES ASSUME NEW t \in A!Tokens, issued[t].user # "nobody", ~collided, issued[t].user \notin loose,
                      ~\E w \in A!Workers : A!User(w) = issued[t].user /\ A!Writing(w)
               PROVE  Usable(issued[t].user) /\ accounts[issued[t].user].pw = issued[t].pw
    BY DEF A!SessionsFit, Usable
  <2> QED
    BY DEF AccInv, TokenFits
<1> QED
  BY <1>1, <1>2 DEF A!AccountsSound

-----------------------------------------------------------------------------
\* The throttle: what the last failure must still cost is left of the block.
ThrInv ==
    /\ A!ThrottleTyped /\ ~early
    /\ owed \in 0..A!Cap
    /\ since < owed => block + since >= owed

\* The bounds, as the steps below use them.
LEMMA Seconds == A!Cap \in Nat /\ A!Cap >= 1 /\ A!Day \in Nat /\ A!Never \in Int /\ A!Never = -A!Day /\ A!Hour \in Nat /\ A!Cap < A!Hour /\ A!Hour < A!Day
  BY DEF A!Cap, A!Day, A!Never, A!Hour

\* The powers of two below the cap.
LEMMA Doublings ==
    ASSUME NEW n \in Nat, n < 10
    PROVE  2^n \in Int /\ 1 <= 2^n /\ 2^n <= A!Cap
<1>1. n = 0 \/ n = 1 \/ n = 2 \/ n = 3 \/ n = 4 \/ n = 5 \/ n = 6 \/ n = 7 \/ n = 8 \/ n = 9
  OBVIOUS
<1>2. /\ 2^0 = 1 /\ 2^1 = 2 /\ 2^2 = 4 /\ 2^3 = 8 /\ 2^4 = 16
      /\ 2^5 = 32 /\ 2^6 = 64 /\ 2^7 = 128 /\ 2^8 = 256 /\ 2^9 = 512
  OBVIOUS
<1>3. 2^n = 1 \/ 2^n = 2 \/ 2^n = 4 \/ 2^n = 8 \/ 2^n = 16 \/ 2^n = 32 \/ 2^n = 64 \/ 2^n = 128 \/ 2^n = 256 \/ 2^n = 512
  <2>1. n = 0 => 2^n = 1
    BY <1>2
  <2>2. n = 1 => 2^n = 2
    BY <1>2
  <2>3. n = 2 => 2^n = 4
    BY <1>2
  <2>4. n = 3 => 2^n = 8
    BY <1>2
  <2>5. n = 4 => 2^n = 16
    BY <1>2
  <2>6. n = 5 => 2^n = 32
    BY <1>2
  <2>7. n = 6 => 2^n = 64
    BY <1>2
  <2>8. n = 7 => 2^n = 128
    BY <1>2
  <2>9. n = 8 => 2^n = 256
    BY <1>2
  <2>10. n = 9 => 2^n = 512
    BY <1>2
  <2> QED
    BY <1>1, <2>1, <2>2, <2>3, <2>4, <2>5, <2>6, <2>7, <2>8, <2>9, <2>10
<1>4. PICK p : p = 2^n
  OBVIOUS
<1>5. p \in Int /\ 1 <= p /\ p <= A!Cap
  BY <1>3, <1>4 DEF A!Cap
<1> QED
  BY <1>4, <1>5

\* A failure blocks the key for what it must cost, and never for longer than the cap.
LEMMA BlockCosts ==
    ASSUME NEW f \in Nat, f >= 3
    PROVE  A!Block(f) \in Int /\ 1 <= A!Block(f) /\ A!Block(f) <= A!Cap /\ A!Due(f) \in Nat /\ A!Due(f) <= A!Block(f)
<1>1. PICK n \in Nat : n = f - 3
  OBVIOUS
<1>2. CASE n < 10
  <2> DEFINE p == 2^n
  <2>1. p \in Int /\ 1 <= p /\ p <= A!Cap
    BY <1>2, Doublings
  <2>2. A!Due(f) = p
    <3>1. ~(f < 3) /\ ~(f - 3 >= 10)
      BY <1>1, <1>2
    <3>2. A!Due(f) = 2^(f - 3)
      BY <3>1, Zenon DEF A!Due
    <3> QED
      BY <1>1, <3>2
  <2>3. A!Backoff(f - 3) = p
    BY <1>1, <1>2 DEF A!Backoff
  <2> HIDE DEF p
  <2> QED
    BY <2>1, <2>2, <2>3, Seconds DEF A!Block
<1>3. CASE n >= 10
  <2>1. A!Due(f) = A!Cap
    BY <1>1, <1>3 DEF A!Due
  <2>2. A!Backoff(f - 3) = -1 \/ A!Backoff(f - 3) = 0 \/ A!Backoff(f - 3) = A!Cap + 1
    BY <1>1, <1>3 DEF A!Backoff
  <2>3. A!Block(f) = A!Cap
    BY <2>2, Seconds DEF A!Block
  <2> QED
    BY <2>1, <2>3, Seconds
<1> QED
  BY <1>2, <1>3

LEMMA ThrStarts ==
    ASSUME A!ThrInit
    PROVE  ThrInv
  BY ThrottleFits, Seconds DEF A!ThrInit, ThrInv, A!ThrottleTyped

LEMMA ThrMoves ==
    ASSUME ThrInv, A!ThrNext
    PROVE  ThrInv'
<1> USE ThrottleFits, Seconds
<1>1. CASE A!Attempt
  <2>1. ~(since < owed)
    BY <1>1 DEF A!Attempt, A!Allowed, ThrInv, A!ThrottleTyped
  <2>2. ~early'
    BY <1>1, <2>1, Zenon DEF A!Attempt, ThrInv
  <2> QED
    BY <1>1, <2>2 DEF A!Attempt, ThrInv, A!ThrottleTyped
<1>2. CASE A!Fail
  <2>1. fails \in Nat /\ fails + 1 \in Nat
    BY DEF ThrInv, A!ThrottleTyped
  <2>2. CASE fails + 1 < 3
    <3>1. A!Due(fails + 1) = 0
      BY <2>1, <2>2 DEF A!Due
    <3> QED
      BY <1>2, <2>1, <2>2, <3>1 DEF A!Fail, ThrInv, A!ThrottleTyped
  <2>3. CASE fails + 1 >= 3
    <3>1. /\ A!Block(fails + 1) \in Int /\ 1 <= A!Block(fails + 1) /\ A!Block(fails + 1) <= A!Cap
          /\ A!Due(fails + 1) \in Nat /\ A!Due(fails + 1) <= A!Block(fails + 1)
      BY <2>1, <2>3, BlockCosts
    <3> QED
      BY <1>2, <2>1, <2>3, <3>1 DEF A!Fail, ThrInv, A!ThrottleTyped
  <2> QED
    BY <2>1, <2>2, <2>3
<1>3. CASE A!Ok
  BY <1>3 DEF A!Ok, ThrInv, A!ThrottleTyped
\* The block ended more than an hour ago, and no failure costs an hour.
<1>4. CASE A!Sweep
  BY <1>4 DEF A!Sweep, A!Cold, ThrInv, A!ThrottleTyped
<1>5. ASSUME NEW d \in {block - 1, block, A!Hour + 1}, A!Pass(d)
      PROVE  ThrInv'
  BY <1>5 DEF A!Pass, ThrInv, A!ThrottleTyped
<1> QED
  BY <1>1, <1>2, <1>3, <1>4, <1>5 DEF A!ThrNext

LEMMA ThrKeeps ==
    ASSUME ThrInv, [A!ThrNext]_throttleVars
    PROVE  ThrInv'
<1>1. CASE UNCHANGED throttleVars
  BY <1>1 DEF throttleVars, ThrInv, A!ThrottleTyped
<1> QED
  BY <1>1, ThrMoves

-----------------------------------------------------------------------------
(* The monitors: the invariant.                                            *)

LEMMA MonitorsFit == IsFiniteSet(Monitors) /\ Thresholds \subseteq Nat /\ Thresholds # {}
  BY ServicesAssumption
\* The module of the monitors counts as this one does.
LEMMA MonitorsCount == \A S : M!Cardinality(S) = Cardinality(S)
  BY DEF M!Cardinality, Cardinality

Statuses == {"unknown", "up", "down", "paused"}
MonRow == [here : BOOLEAN, enabled : BOOLEAN, status : Statuses, threshold : Nat, muted : Nat]
MonSeen == [row : MonRow, ok : BOOLEAN, t : Nat, status : Statuses, suppressed : BOOLEAN]
MonPlaces == {"seed", "wait", "get", "stop", "probe", "record", "transition", "open", "close", "notify", "end"}
MonJob == [mon : Monitors, kind : {"loop", "check"}, at : MonPlaces, dead : BOOLEAN, first : BOOLEAN, fails : Nat, downSince : Nat,
           alerted : BOOLEAN, last : Nat, seen : MonSeen]
MonCall == [do : {"put", "pause", "resume", "delete", "reload", "stop", "start"}, mon : Monitors, row : MonRow, enabled : BOOLEAN, threshold : Nat]
Incident == [mon : Monitors, started : Nat, open : BOOLEAN, suppressed : BOOLEAN]
MonNotice == [mon : Monitors, event : {"down", "recovered"}, by : Nat]
MonTypes ==
    /\ rows \in [Monitors -> MonRow] /\ samples \in [Monitors -> Seq(BOOLEAN)]
    /\ incidents \subseteq Incident
    /\ jobs \in Seq(MonJob) /\ loops \in [Monitors -> Nat]
    /\ calls \subseteq MonCall /\ IsFiniteSet(calls)
    /\ notices \in Seq(MonNotice)
    /\ now \in Nat /\ ops \in Nat /\ overlapped \in BOOLEAN /\ paused \subseteq Monitors
\* Engine.loops names loops; a manual check has no timer and no history to start from.
LoopsNamed ==
    /\ \A m \in Monitors : loops[m] # 0 => loops[m] \in DOMAIN jobs /\ jobs[loops[m]].mon = m /\ jobs[loops[m]].kind = "loop"
    /\ \A j \in DOMAIN jobs : jobs[j].kind = "check" => jobs[j].at \notin {"seed", "wait"}
    /\ \A j \in DOMAIN jobs : jobs[j].at = "end" => jobs[j].dead
\* What a loop remembers of its alerts is what it sent.
By(j) == {i \in DOMAIN notices : notices[i].by = j}
Remembers(j) ==
    /\ \A i \in By(j) : notices[i].mon = jobs[j].mon
    /\ jobs[j].at = "seed" \/ (jobs[j].kind = "check" /\ jobs[j].at # "end") => By(j) = {}
    /\ By(j) # {} => \E i \in By(j) : /\ \A o \in By(j) : o <= i
                                      /\ jobs[j].at # "end" /\ jobs[j].alerted => notices[i].event = "down"
                                      /\ ops = 0 /\ jobs[j].at # "end" /\ notices[i].event = "down" => jobs[j].alerted
    /\ ops = 0 /\ By(j) = {} /\ jobs[j].at \notin {"seed", "end"} => ~jobs[j].alerted
Sent == (\A i \in DOMAIN notices : notices[i].by \in DOMAIN jobs) /\ \A j \in DOMAIN jobs : Remembers(j)
\* An alert that is not the first of its loop has one before it.
EachHasLast == \A k \in DOMAIN notices :
    LET before == {i \in 1..(k - 1) : notices[i].by = notices[k].by /\ notices[i].mon = notices[k].mon}
    IN  before # {} => \E i \in before : \A o \in before : o <= i
\* Before the first request there is one loop per monitor, or the call that will start it.
OnlyBooted ==
    /\ \A c \in calls : c.do \in {"reload", "start"} /\ \A j \in DOMAIN jobs : jobs[j].mon # c.mon
    /\ \A c, d \in calls : c.mon = d.mon => c = d
    /\ \A j, k \in DOMAIN jobs : jobs[j].mon = jobs[k].mon => j = k
    /\ \A j \in DOMAIN jobs : jobs[j].kind = "loop" /\ jobs[j].seen.row.muted = 0
                            /\ (jobs[j].at = "seed" => rows[jobs[j].mon].status = "unknown")
    /\ \A m \in Monitors : rows[m].muted = 0 /\ ((\A j \in DOMAIN jobs : jobs[j].mon # m) => rows[m].status = "unknown")
\* One actor per monitor.
Ticking(j) == jobs[j].at \notin {"wait", "end"}
MonAlone(m) ==
    /\ \A c, d \in calls : c.mon = m /\ d.mon = m => c = d
    /\ \A j, k \in DOMAIN jobs : jobs[j].mon = m /\ jobs[k].mon = m /\ Ticking(j) /\ Ticking(k) => j = k
    /\ \A c \in calls, j \in DOMAIN jobs : ~(c.mon = m /\ jobs[j].mon = m /\ Ticking(j))
\* The loop of a monitor nobody is reloading.
Steady(m) == IF M!Gone(m) THEN M!Alive(m) = {} /\ loops[m] = 0 ELSE M!Alive(m) = {loops[m]}
CallFits(c) ==
    /\ c.do \notin {"stop"} => rows[c.mon].here
    /\ c.do = "reload" => c.enabled = rows[c.mon].enabled
    /\ c.do = "start" => ~M!Gone(c.mon) /\ M!Alive(c.mon) = {} /\ loops[c.mon] = 0
    /\ c.do = "stop" => M!Gone(c.mon)
LoopFits(m) ==
    /\ M!Alive(m) \subseteq {loops[m]}
    /\ (\A c \in calls : c.mon = m => c.do \notin {"reload", "stop", "start"}) /\ (jobs # <<>> \/ calls # {}) => Steady(m)
TickFits(j) ==
    LET job == jobs[j] m == job.mon IN
    /\ rows[m].here
    /\ job.kind = "loop" => ~job.dead /\ ~M!Gone(m) /\ job.at # "stop"
    /\ job.at = "stop" => M!Gone(m)
    /\ job.at \in {"probe", "record"} => job.seen.row.status = rows[m].status
    /\ job.at \in {"record", "transition", "open", "close", "notify"} =>
         job.seen.status \in {"up", "down", job.seen.row.status} /\ (job.seen.status = "up" => job.seen.row.status = "up" \/ job.seen.ok)
    /\ job.at \in {"transition", "open", "close", "notify"} => job.seen.status = rows[m].status
Fits(m, status) == /\ status = "down" => M!Open(m) # {}
                   /\ status # "down" /\ m \notin paused => M!Open(m) = {}
Within(m) == {j \in DOMAIN jobs : jobs[j].mon = m /\ jobs[j].at \in {"transition", "open", "close"}}
LogFits(m) ==
    /\ \A i, k \in M!Open(m) : i = k
    /\ Within(m) = {} => Fits(m, rows[m].status)
    /\ \A j \in Within(m) :
         /\ jobs[j].at = "transition" => Fits(m, jobs[j].seen.row.status)
         /\ jobs[j].at = "open" => M!Open(m) = {} /\ jobs[j].seen.status = "down"
         /\ jobs[j].at = "close" => jobs[j].seen.status = "up"
\* The failures a loop counted are the last samples.
Streak(j) ==
    LET job == jobs[j] m == job.mon IN
    /\ job.at \in {"wait", "get", "probe", "transition", "open", "close", "notify"} => M!Trailing(m, job.fails)
    /\ job.at = "record" => IF job.seen.ok THEN job.fails = 0 ELSE job.fails > 0 /\ M!Trailing(m, job.fails - 1)
    /\ job.at \in {"record", "transition"} /\ M!Changed(job.seen) /\ job.seen.status = "down" => job.fails >= job.seen.row.threshold
MonAlways ==
    /\ MonTypes /\ LoopsNamed /\ Sent /\ M!NoticesPaired /\ EachHasLast /\ (ops = 0 => OnlyBooted)
    /\ jobs = <<>> => (\A m \in Monitors : loops[m] = 0) /\ notices = <<>>
Unchecked == \A k \in DOMAIN jobs : jobs[k].kind # "check"
MonCalm ==
    /\ \A m \in Monitors : MonAlone(m) /\ LoopFits(m) /\ (rows[m].here => LogFits(m))
    /\ \A c \in calls : CallFits(c)
    /\ \A j \in DOMAIN jobs : Ticking(j) => TickFits(j)
    /\ Unchecked => \A j \in DOMAIN jobs : ~jobs[j].dead /\ rows[jobs[j].mon].here => Streak(j)
MonInv == MonAlways /\ (~overlapped => MonCalm)

-----------------------------------------------------------------------------
\* Two sets with at most one element between them.
LEMMA OneActor ==
    ASSUME NEW C, NEW J, IsFiniteSet(C), IsFiniteSet(J), ~(Cardinality(C) + Cardinality(J) > 1)
    PROVE  /\ \A c, d \in C : c = d
           /\ \A j, k \in J : j = k
           /\ \A c \in C, j \in J : FALSE
<1>1. Cardinality(C) \in Nat /\ Cardinality(J) \in Nat
  BY FS_CardinalityType
<1>2. ASSUME NEW S, IsFiniteSet(S), NEW a \in S
      PROVE  Cardinality(S) >= 1
  BY <1>2, FS_EmptySet, FS_CardinalityType
<1>3. ASSUME NEW S, IsFiniteSet(S), NEW a \in S, NEW b \in S, a # b
      PROVE  Cardinality(S) > 1
  <2>1. IsFiniteSet(S \ {a}) /\ Cardinality(S \ {a}) = Cardinality(S) - 1
    BY <1>3, FS_RemoveElement
  <2>2. Cardinality(S \ {a}) >= 1
    BY <1>2, <1>3, <2>1
  <2> QED
    BY <1>3, <2>1, <2>2, FS_CardinalityType
<1> QED
  BY <1>1, <1>2, <1>3

\* Nobody is at work where the count is zero.
LEMMA NoActor ==
    ASSUME NEW C, NEW J, IsFiniteSet(C), IsFiniteSet(J), Cardinality(C) + Cardinality(J) = 0
    PROVE  C = {} /\ J = {}
<1>1. Cardinality(C) \in Nat /\ Cardinality(J) \in Nat
  BY FS_CardinalityType
<1> QED
  BY <1>1, FS_EmptySet

\* A step that is noted as calm leaves one actor per monitor.
LEMMA CalmStep ==
    ASSUME MonTypes', M!Noted, ~overlapped'
    PROVE  ~overlapped /\ \A m \in Monitors : MonAlone(m)'
<1>1. ~overlapped /\ \A m \in Monitors : ~(M!Actors(m)' > 1)
  BY DEF M!Noted, M!Overlap
<1>2. ASSUME NEW m \in Monitors
      PROVE  MonAlone(m)'
  <2> DEFINE C == {c \in calls' : c.mon = m}
             J == {j \in DOMAIN jobs' : jobs'[j].mon = m /\ jobs'[j].at \notin {"wait", "end"}}
  <2>1. IsFiniteSet(C)
    BY FS_Subset DEF MonTypes
  <2>2. IsFiniteSet(J)
    <3>1. IsFiniteSet(1..Len(jobs'))
      BY FS_Interval DEF MonTypes
    <3>2. J \subseteq 1..Len(jobs')
      BY DEF MonTypes
    <3> QED
      BY <3>1, <3>2, FS_Subset
  <2>3. ~(Cardinality(C) + Cardinality(J) > 1)
    BY <1>1, MonitorsCount DEF M!Actors
  <2>4. /\ \A c, d \in C : c = d
        /\ \A j, k \in J : j = k
        /\ \A c \in C, j \in J : FALSE
    <3> HIDE DEF C, J
    <3> QED
      BY <2>1, <2>2, <2>3, OneActor
  <2> QED
    BY <2>4 DEF MonAlone, Ticking
<1> QED
  BY <1>1, <1>2

\* A monitor that is idle has no call and no job in the middle of a tick.
LEMMA IdleIsFree ==
    ASSUME MonTypes, NEW m \in Monitors, M!Idle(m)
    PROVE  /\ \A c \in calls : c.mon # m
           /\ \A j \in DOMAIN jobs : jobs[j].mon = m => ~Ticking(j)
<1> DEFINE C == {c \in calls : c.mon = m}
           J == {j \in DOMAIN jobs : jobs[j].mon = m /\ jobs[j].at \notin {"wait", "end"}}
<1>1. IsFiniteSet(C)
  BY FS_Subset DEF MonTypes
<1>2. IsFiniteSet(J)
  <2>1. IsFiniteSet(1..Len(jobs))
    BY FS_Interval DEF MonTypes
  <2>2. J \subseteq 1..Len(jobs)
    BY DEF MonTypes
  <2> QED
    BY <2>1, <2>2, FS_Subset
<1>3. Cardinality(C) + Cardinality(J) = 0
  BY MonitorsCount DEF M!Idle, M!Actors
<1>4. C = {} /\ J = {}
  <2> HIDE DEF C, J
  <2> QED
    BY <1>1, <1>2, <1>3, NoActor
<1> QED
  BY <1>4 DEF Ticking

-----------------------------------------------------------------------------
\* Jobs and rows keep their types.
LEMMA MonNothing == M!NoRow \in MonRow /\ M!NothingRead \in MonSeen
  BY DEF M!NoRow, MonRow, M!NothingRead, MonSeen, Statuses

\* A job begins with nothing read.
LEMMA JobStarts ==
    ASSUME NEW m \in Monitors, NEW kind \in {"loop", "check"}
    PROVE  /\ M!Started(m, kind) \in MonJob /\ M!Started(m, kind).mon = m /\ M!Started(m, kind).kind = kind /\ ~M!Started(m, kind).dead
           /\ M!Started(m, kind).at = (IF kind = "loop" THEN "seed" ELSE "get") /\ ~M!Started(m, kind).alerted
           /\ M!Started(m, kind).seen = M!NothingRead
           /\ M!Started(m, kind).fails = 0
<1> DEFINE at == IF kind = "loop" THEN "seed" ELSE "get"
           s == [M!Ended(m) EXCEPT !.kind = kind, !.at = at, !.dead = FALSE, !.first = TRUE]
<1>1. at \in MonPlaces
  BY DEF MonPlaces
<1> HIDE DEF at
<1>2. M!Ended(m) \in MonJob /\ ~M!Ended(m).alerted /\ M!Ended(m).seen = M!NothingRead /\ M!Ended(m).mon = m /\ M!Ended(m).fails = 0
  BY MonNothing DEF M!Ended, MonJob, MonPlaces
<1>3. /\ s \in MonJob /\ s.mon = m /\ s.kind = kind /\ ~s.dead /\ s.at = at /\ ~s.alerted /\ s.seen = M!NothingRead
      /\ s.fails = 0
  BY <1>1, <1>2 DEF MonJob
<1>4. M!Started(m, kind) = s
  BY DEF M!Started, at
<1> HIDE DEF s
<1> QED
  BY <1>3, <1>4 DEF at

\* A job that is over has forgotten everything but its monitor and its kind.
LEMMA JobEnds ==
    ASSUME NEW job \in MonJob
    PROVE  M!Over(job) \in MonJob /\ M!Over(job).mon = job.mon /\ M!Over(job).kind = job.kind /\ M!Over(job).dead /\ M!Over(job).at = "end"
           /\ M!Over(job).seen = M!NothingRead
<1>1. M!Ended(job.mon) \in MonJob /\ M!Ended(job.mon).mon = job.mon /\ M!Ended(job.mon).dead /\ M!Ended(job.mon).at = "end"
      /\ M!Ended(job.mon).seen = M!NothingRead
  BY MonNothing DEF M!Ended, MonJob, MonPlaces
<1> QED
  BY <1>1 DEF M!Over, MonJob

\* Put changes one job.
LEMMA JobPut ==
    ASSUME MonTypes, NEW j \in DOMAIN jobs, NEW x \in MonJob, M!Put(j, x)
    PROVE  /\ jobs' \in Seq(MonJob) /\ DOMAIN jobs' = DOMAIN jobs /\ Len(jobs') = Len(jobs)
           /\ jobs'[j] = x /\ \A k \in DOMAIN jobs : k # j => jobs'[k] = jobs[k]
  BY DEF MonTypes, M!Put

\* The parts of a job have their types.
LEMMA JobTyped ==
    ASSUME MonTypes, NEW j \in DOMAIN jobs
    PROVE  /\ jobs[j] \in MonJob /\ jobs[j].mon \in Monitors /\ rows[jobs[j].mon] \in MonRow /\ jobs[j].seen \in MonSeen
           /\ jobs[j].seen.row \in MonRow /\ jobs[j].at \in MonPlaces /\ jobs[j].kind \in {"loop", "check"} /\ jobs[j].fails \in Nat
           /\ jobs # <<>>
<1>1. jobs \in Seq(MonJob) /\ jobs[j] \in MonJob /\ rows \in [Monitors -> MonRow]
  BY DEF MonTypes
<1>2. jobs # <<>>
  BY <1>1
<1> QED
  BY <1>1, <1>2 DEF MonJob, MonSeen

-----------------------------------------------------------------------------
\* A step of one job.
LEMMA StillRemembers ==
    ASSUME MonAlways, NEW j \in DOMAIN jobs, NEW x \in MonJob, M!Put(j, x), notices' = notices, ops' = ops,
           x.mon = jobs[j].mon, x.kind = jobs[j].kind,
           x.at = "end" \/ (x.alerted = jobs[j].alerted /\ x.at # "seed" /\ jobs[j].at \notin {"seed", "end"})
    PROVE  Remembers(j)'
<1>1. Remembers(j)
  BY DEF MonAlways, Sent
<1>2. jobs'[j] = x
  BY JobPut DEF MonAlways
<1>3. By(j)' = By(j)
  BY DEF By
<1> QED
  BY <1>1, <1>2, <1>3 DEF Remembers

\* A step of one job keeps what always holds, when the job still remembers its alerts.
LEMMA JobAlways ==
    ASSUME MonAlways, NEW j \in DOMAIN jobs, NEW n \in Monitors, n = jobs[j].mon, NEW x \in MonJob, M!Put(j, x), UNCHANGED <<loops, calls, ops>>,
           rows' \in [Monitors -> MonRow], samples' \in [Monitors -> Seq(BOOLEAN)], incidents' \subseteq Incident,
           notices' \in Seq(MonNotice), now' \in Nat, overlapped' \in BOOLEAN, paused' \subseteq Monitors,
           x.mon = n, x.kind = jobs[j].kind, x.kind = "check" => x.at # "wait", x.at = "end" => x.dead, x.at # "seed",
           \A m \in Monitors : rows'[m].muted = rows[m].muted /\ (m # n => rows'[m] = rows[m]),
           ops = 0 => x.seen.row.muted = 0,
           notices' = notices \/ \E e \in MonNotice : e.by = j /\ notices' = Append(notices, e),
           Remembers(j)', M!NoticesPaired', EachHasLast'
    PROVE  MonAlways'
<1>u. loops' = loops /\ calls' = calls /\ ops' = ops
  OBVIOUS
<1>v. MonTypes /\ LoopsNamed /\ Sent
  BY DEF MonAlways
<1>w. DOMAIN jobs \subseteq Nat /\ jobs \in Seq(MonJob)
  BY <1>v DEF MonTypes
<1>0. /\ jobs' \in Seq(MonJob) /\ DOMAIN jobs' = DOMAIN jobs /\ Len(jobs') = Len(jobs)
      /\ jobs'[j] = x /\ \A k \in DOMAIN jobs : k # j => jobs'[k] = jobs[k]
  BY <1>v, JobPut
<1>1. MonTypes'
  BY <1>0, <1>u, <1>v DEF MonTypes
<1>2. LoopsNamed'
  <2>1. ASSUME NEW m \in Monitors, loops[m] # 0
        PROVE  loops[m] \in DOMAIN jobs' /\ jobs'[loops[m]].mon = m /\ jobs'[loops[m]].kind = "loop"
    <3>1. loops[m] \in DOMAIN jobs /\ jobs[loops[m]].mon = m /\ jobs[loops[m]].kind = "loop"
      BY <1>v, <2>1 DEF LoopsNamed
    <3> QED
      BY <1>0, <3>1
  <2>2. ASSUME NEW k \in DOMAIN jobs
        PROVE  /\ jobs'[k].kind = "check" => jobs'[k].at \notin {"seed", "wait"}
               /\ jobs'[k].at = "end" => jobs'[k].dead
    <3>1. /\ jobs[k].kind = "check" => jobs[k].at \notin {"seed", "wait"}
          /\ jobs[k].at = "end" => jobs[k].dead
      BY <1>v DEF LoopsNamed
    <3>2. jobs'[k] = jobs[k] \/ jobs'[k] = x
      BY <1>0
    <3> QED
      BY <3>1, <3>2
  <2> QED
    BY <1>0, <1>u, <2>1, <2>2 DEF LoopsNamed
<1>3. Sent'
  <2>0. notices \in Seq(MonNotice)
    BY <1>v DEF MonTypes
  <2>1. ASSUME NEW i \in DOMAIN notices'
        PROVE  \/ i \in DOMAIN notices /\ notices'[i] = notices[i]
               \/ notices'[i].by = j
    <3>1. CASE notices' = notices
      BY <2>1, <3>1
    <3>2. CASE \E e \in MonNotice : e.by = j /\ notices' = Append(notices, e)
      BY <2>0, <2>1, <3>2
    <3> QED
      BY <3>1, <3>2
  <2>2. \A i \in DOMAIN notices : i \in DOMAIN notices' /\ notices'[i] = notices[i]
    <3>1. CASE notices' = notices
      BY <3>1
    <3>2. CASE \E e \in MonNotice : e.by = j /\ notices' = Append(notices, e)
      BY <2>0, <3>2
    <3> QED
      BY <3>1, <3>2
  <2>3. ASSUME NEW k \in DOMAIN jobs, k # j
        PROVE  Remembers(k)'
    <3>1. By(k)' = By(k)
      BY <2>1, <2>2, <2>3 DEF By
    <3>2. Remembers(k) /\ jobs'[k] = jobs[k]
      BY <1>0, <1>v, <2>3 DEF Sent
    <3>3. \A i \in By(k) : notices'[i] = notices[i]
      BY <2>2 DEF By
    <3> QED
      BY <3>1, <3>2, <3>3, <1>u DEF Remembers
  <2>4. \A i \in DOMAIN notices' : notices'[i].by \in DOMAIN jobs'
    BY <1>0, <1>v, <2>1 DEF Sent
  <2> QED
    BY <1>0, <2>3, <2>4 DEF Sent
<1>4. ASSUME ops' = 0
      PROVE  OnlyBooted'
  <2>1. OnlyBooted
    BY <1>4, <1>u DEF MonAlways
  <2>a. \A k \in DOMAIN jobs : jobs'[k].mon = jobs[k].mon
    BY <1>0
  <2>2. /\ \A c \in calls' : c.do \in {"reload", "start"} /\ \A k \in DOMAIN jobs' : jobs'[k].mon # c.mon
        /\ \A c, d \in calls' : c.mon = d.mon => c = d
        /\ \A k, l \in DOMAIN jobs' : jobs'[k].mon = jobs'[l].mon => k = l
    BY <1>0, <2>1, <2>a, <1>u DEF OnlyBooted
  <2>3. ASSUME NEW k \in DOMAIN jobs
        PROVE  /\ jobs'[k].kind = "loop" /\ jobs'[k].seen.row.muted = 0
               /\ jobs'[k].at = "seed" => rows'[jobs'[k].mon].status = "unknown"
    <3>0. /\ jobs[k].kind = "loop" /\ jobs[k].seen.row.muted = 0 /\ jobs[k].mon \in Monitors
          /\ jobs[k].at = "seed" => rows[jobs[k].mon].status = "unknown"
      BY <2>1, <1>v, JobTyped DEF OnlyBooted
    <3>1. CASE k = j
      BY <1>0, <1>4, <1>u, <3>0, <3>1
    <3>2. CASE k # j
      <4>1. jobs'[k] = jobs[k] /\ jobs[k].mon # n
        BY <1>0, <2>1, <3>2 DEF OnlyBooted
      <4>2. rows'[jobs[k].mon] = rows[jobs[k].mon]
        BY <3>0, <4>1
      <4> QED
        BY <3>0, <4>1, <4>2
    <3> QED
      BY <3>1, <3>2
  <2>4. ASSUME NEW m \in Monitors
        PROVE  rows'[m].muted = 0 /\ ((\A k \in DOMAIN jobs : jobs'[k].mon # m) => rows'[m].status = "unknown")
    <3>1. rows[m].muted = 0 /\ ((\A k \in DOMAIN jobs : jobs[k].mon # m) => rows[m].status = "unknown")
      BY <2>1 DEF OnlyBooted
    <3>2. (\A k \in DOMAIN jobs : jobs'[k].mon # m) => (\A k \in DOMAIN jobs : jobs[k].mon # m) /\ m # n
      BY <2>a
    <3>3. rows'[m].muted = rows[m].muted /\ (m # n => rows'[m] = rows[m])
      OBVIOUS
    <3> QED
      BY <3>1, <3>2, <3>3
  <2> QED
    BY <1>0, <2>2, <2>3, <2>4 DEF OnlyBooted
<1>5. jobs' # <<>>
  BY <1>0, <1>w
<1> QED
  BY <1>1, <1>2, <1>3, <1>4, <1>5 DEF MonAlways

\* A step of one job keeps what holds without overlaps, when the log, the tick and the streak of its monitor still fit.
LEMMA JobCalm ==
    ASSUME MonInv, MonAlways', M!Noted, ~overlapped', NEW j \in DOMAIN jobs, NEW n \in Monitors, n = jobs[j].mon, NEW x \in MonJob, M!Put(j, x),
           UNCHANGED <<loops, calls>>,
           x.mon = n, x.kind = jobs[j].kind, MonCalm /\ x.kind = "loop" => (x.dead <=> jobs[j].dead),
           \A m \in Monitors : /\ rows'[m].here = rows[m].here /\ rows'[m].enabled = rows[m].enabled
                               /\ m # n => /\ rows'[m] = rows[m] /\ M!Open(m)' = M!Open(m) /\ samples'[m] = samples[m]
                                           /\ m \in paused' <=> m \in paused,
           (samples' = samples /\ rows' = rows) \/ Ticking(j),
           MonCalm /\ ~overlapped' => (Ticking(j)' => TickFits(j)'),
           MonCalm => (rows[n].here => LogFits(n)'),
           MonCalm /\ Unchecked /\ ~x.dead /\ rows[n].here => Streak(j)'
    PROVE  MonCalm'
<1>0. /\ jobs' \in Seq(MonJob) /\ DOMAIN jobs' = DOMAIN jobs /\ Len(jobs') = Len(jobs)
      /\ jobs'[j] = x /\ \A k \in DOMAIN jobs : k # j => jobs'[k] = jobs[k]
  BY JobPut DEF MonAlways, MonInv
<1>1. MonCalm /\ MonTypes /\ \A m \in Monitors : MonAlone(m)'
  BY CalmStep DEF MonInv, MonAlways
<1>u. loops' = loops /\ calls' = calls
  OBVIOUS
<1>a. \A k \in DOMAIN jobs : jobs[k] \in MonJob /\ jobs[k].mon \in Monitors
  BY <1>1, JobTyped
<1>2. \A m \in Monitors : (M!Gone(m)' <=> M!Gone(m))
  BY DEF M!Gone
<1>b. \A k \in DOMAIN jobs : /\ jobs'[k].mon = jobs[k].mon /\ jobs'[k].kind = jobs[k].kind
                             /\ jobs[k].kind = "loop" => (jobs'[k].dead <=> jobs[k].dead)
  BY <1>0, <1>1
<1>c. \A m \in Monitors : M!Alive(m)' = M!Alive(m)
  BY <1>0, <1>b DEF M!Alive
<1>3. \A m \in Monitors : Steady(m)' <=> Steady(m)
  BY <1>2, <1>c, <1>u DEF Steady
<1>4. ASSUME NEW m \in Monitors
      PROVE  LoopFits(m)'
  <2>1. jobs # <<>>
    BY <1>1, JobTyped
  <2>2. LoopFits(m)
    BY <1>1 DEF MonCalm
  <2> QED
    BY <1>c, <1>3, <1>u, <2>1, <2>2 DEF LoopFits
<1>5. ASSUME NEW m \in Monitors, rows'[m].here
      PROVE  LogFits(m)'
  <2>1. CASE m = n
    BY <1>1, <1>5, <2>1
  <2>2. CASE m # n
    <3>1. LogFits(m) /\ M!Open(m)' = M!Open(m) /\ (m \in paused' <=> m \in paused) /\ rows'[m] = rows[m]
      BY <1>1, <1>5, <2>2 DEF MonCalm
    <3>2. Within(m)' = Within(m) /\ \A k \in Within(m) : jobs'[k] = jobs[k]
      BY <1>0, <1>b, <2>2 DEF Within
    <3>3. \A status \in STRING : Fits(m, status)' <=> Fits(m, status)
      BY <3>1 DEF Fits
    <3>4. Fits(m, rows[m].status) => Fits(m, rows[m].status)'
      BY <3>1 DEF Fits
    <3>5. \A k \in Within(m) : Fits(m, jobs[k].seen.row.status) => Fits(m, jobs[k].seen.row.status)'
      BY <3>1, <3>2 DEF Fits
    <3> QED
      BY <3>1, <3>2, <3>4, <3>5 DEF LogFits
  <2> QED
    BY <2>1, <2>2
<1>6. ASSUME NEW c \in calls'
      PROVE  CallFits(c)'
  <2>1. CallFits(c) /\ c.mon \in Monitors
    BY <1>1, <1>6, <1>u DEF MonCalm, MonTypes, MonCall
  <2>2. rows'[c.mon].here = rows[c.mon].here /\ rows'[c.mon].enabled = rows[c.mon].enabled
    BY <2>1
  <2> QED
    BY <1>2, <1>c, <1>u, <2>1, <2>2 DEF CallFits
<1>7. ASSUME NEW k \in DOMAIN jobs', Ticking(k)'
      PROVE  TickFits(k)'
  <2>1. CASE k = j
    BY <1>1, <1>7, <2>1
  <2>2. CASE k # j
    <3>1. jobs'[k] = jobs[k] /\ jobs[k].mon \in Monitors
      BY <1>0, <1>7, <1>a, <2>2
    <3>4. TickFits(k) /\ Ticking(k)
      BY <1>0, <1>1, <1>7, <2>2, <3>1 DEF MonCalm, Ticking
    <3>2. CASE jobs[k].mon # n
      <4>1. rows'[jobs[k].mon] = rows[jobs[k].mon]
        BY <3>1, <3>2
      <4> QED
        BY <1>2, <3>1, <3>4, <4>1 DEF TickFits
    <3>3. CASE jobs[k].mon = n
      <4>1. ~Ticking(j)
        BY <1>1, <3>4, <2>2, <3>3, <1>7, <1>0 DEF MonCalm, MonAlone
      <4>2. rows' = rows
        BY <4>1
      <4> QED
        BY <1>2, <3>1, <3>4, <4>2 DEF TickFits
    <3> QED
      BY <3>2, <3>3
  <2> QED
    BY <2>1, <2>2
<1>8. ASSUME Unchecked', NEW k \in DOMAIN jobs', ~jobs'[k].dead, rows'[jobs'[k].mon].here
      PROVE  Streak(k)'
  <2>0. Unchecked
    BY <1>0, <1>8, <1>b DEF Unchecked
  <2>d. jobs[k].mon \in Monitors /\ jobs'[k].mon = jobs[k].mon /\ rows[jobs[k].mon].here
    BY <1>0, <1>8, <1>a, <1>b
  <2>1. CASE k = j
    BY <1>0, <1>1, <1>8, <2>0, <2>1, <2>d
  <2>2. CASE k # j
    <3>1. jobs'[k] = jobs[k] /\ jobs[k].mon \in Monitors /\ ~jobs[k].dead
      BY <1>0, <1>8, <2>2, <2>d
    <3>2. Streak(k)
      BY <1>0, <1>1, <1>8, <2>0, <3>1, <2>d DEF MonCalm
    <3>3. samples'[jobs[k].mon] = samples[jobs[k].mon]
      <4>1. CASE jobs[k].mon # n
        BY <2>d, <4>1
      <4>2. CASE jobs[k].mon = n /\ Ticking(j)
        <5>0. TickFits(j)
          BY <1>1, <4>2 DEF MonCalm
        <5>3. jobs[j].kind = "loop" /\ jobs[k].kind = "loop"
          BY <1>0, <1>1, <1>8, <2>0, JobTyped DEF Unchecked
        <5>1. ~jobs[j].dead
          BY <5>0, <5>3 DEF TickFits
        <5>2. j \in M!Alive(n) /\ k \in M!Alive(n)
          BY <1>0, <1>8, <3>1, <4>2, <5>1, <5>3 DEF M!Alive
        <5>4. LoopFits(n)
          BY <1>1 DEF MonCalm
        <5> QED
          BY <2>2, <5>2, <5>4 DEF LoopFits
      <4>3. CASE jobs[k].mon = n /\ ~Ticking(j)
        BY <4>3
      <4> QED
        BY <4>1, <4>2, <4>3
    <3> QED
      BY <3>1, <3>2, <3>3 DEF Streak, M!Trailing, M!Changed
  <2> QED
    BY <2>1, <2>2
<1> QED
  BY <1>1, <1>4, <1>5, <1>6, <1>7, <1>8 DEF MonCalm

\* The alerts sent do not change with the job.
LEMMA PairedStays ==
    ASSUME M!NoticesPaired, EachHasLast, notices' = notices, ops' = 0 => ops = 0
    PROVE  M!NoticesPaired' /\ EachHasLast'
  BY DEF M!NoticesPaired, EachHasLast

\* The history of overlaps is a Boolean.
LEMMA NotedTyped ==
    ASSUME M!Noted
    PROVE  overlapped' \in BOOLEAN
  BY DEF M!Noted

\* A step of one job that sends nothing.
LEMMA PlainStep ==
    ASSUME MonInv, M!Noted, NEW j \in DOMAIN jobs, NEW n \in Monitors, n = jobs[j].mon, NEW x \in MonJob, M!Put(j, x),
           UNCHANGED <<loops, calls, ops, notices>>,
           rows' \in [Monitors -> MonRow], samples' \in [Monitors -> Seq(BOOLEAN)], incidents' \subseteq Incident,
           now' \in Nat, paused' \subseteq Monitors,
           x.mon = n, x.kind = jobs[j].kind, x.kind = "check" => x.at # "wait", x.at = "end" => x.dead, x.at # "seed",
           MonCalm /\ x.kind = "loop" => (x.dead <=> jobs[j].dead),
           \A m \in Monitors : /\ rows'[m].here = rows[m].here /\ rows'[m].enabled = rows[m].enabled /\ rows'[m].muted = rows[m].muted
                               /\ m # n => /\ rows'[m] = rows[m] /\ M!Open(m)' = M!Open(m) /\ samples'[m] = samples[m]
                                           /\ m \in paused' <=> m \in paused,
           ops = 0 => x.seen.row.muted = 0,
           Remembers(j)',
           (samples' = samples /\ rows' = rows) \/ Ticking(j),
           MonCalm /\ ~overlapped' => (Ticking(j)' => TickFits(j)'),
           MonCalm => (rows[n].here => LogFits(n)'),
           MonCalm /\ Unchecked /\ ~x.dead /\ rows[n].here => Streak(j)'
    PROVE  MonInv'
<1>1. loops' = loops /\ calls' = calls /\ ops' = ops /\ notices' = notices
  OBVIOUS
<1>2. M!NoticesPaired' /\ EachHasLast'
  BY <1>1, PairedStays DEF MonInv, MonAlways
<1>3. overlapped' \in BOOLEAN /\ notices' \in Seq(MonNotice)
  BY <1>1, NotedTyped DEF MonInv, MonAlways, MonTypes
<1>4. MonAlways'
  BY <1>1, <1>2, <1>3, JobAlways DEF MonInv
<1>5. ASSUME ~overlapped'
      PROVE  MonCalm'
  BY <1>1, <1>4, <1>5, JobCalm
<1> QED
  BY <1>4, <1>5 DEF MonInv

\* A job between its transition and its incident is the only one at work on its monitor.
LEMMA LogQuiet ==
    ASSUME MonCalm, MonTypes, NEW j \in DOMAIN jobs, NEW n \in Monitors, n = jobs[j].mon, NEW x \in MonJob, M!Put(j, x), x.mon = n,
           rows[n].here,
           jobs[j].at \notin {"transition", "open", "close"}, x.at \notin {"transition", "open", "close"},
           UNCHANGED <<rows, incidents, paused>>
    PROVE  LogFits(n)'
<1>0. /\ DOMAIN jobs' = DOMAIN jobs /\ jobs'[j] = x /\ \A k \in DOMAIN jobs : k # j => jobs'[k] = jobs[k]
  BY JobPut
<1>1. LogFits(n)
  BY DEF MonCalm
<1>2. Within(n)' = Within(n) /\ \A k \in Within(n) : jobs'[k] = jobs[k]
  BY <1>0 DEF Within
<1>3. M!Open(n)' = M!Open(n) /\ rows' = rows /\ paused' = paused
  BY DEF M!Open
<1>4. Fits(n, rows[n].status) => Fits(n, rows[n].status)'
  BY <1>3 DEF Fits
<1>5. \A k \in Within(n) : Fits(n, jobs[k].seen.row.status) => Fits(n, jobs[k].seen.row.status)'
  BY <1>2, <1>3 DEF Fits
<1> QED
  BY <1>1, <1>2, <1>3, <1>4, <1>5 DEF LogFits

\* A step that changes nothing but the job, outside of its transition.
LEMMA MonQuietStep ==
    ASSUME MonInv, M!Noted, NEW j \in DOMAIN jobs, NEW n \in Monitors, n = jobs[j].mon, NEW x \in MonJob, M!Put(j, x),
           UNCHANGED <<rows, samples, incidents, loops, calls, notices, ops, paused>>, now' \in Nat,
           x.mon = n, x.kind = jobs[j].kind, x.kind = "check" => x.at # "wait", x.at = "end" => x.dead, x.at # "seed",
           jobs[j].at \notin {"transition", "open", "close"}, x.at \notin {"transition", "open", "close"},
           MonCalm /\ x.kind = "loop" => (x.dead <=> jobs[j].dead),
           ops = 0 => x.seen.row.muted = 0,
           Remembers(j)',
           MonCalm /\ ~overlapped' => (Ticking(j)' => TickFits(j)'),
           MonCalm /\ Unchecked /\ ~x.dead /\ rows[n].here => Streak(j)'
    PROVE  MonInv'
<1>1. /\ loops' = loops /\ calls' = calls /\ ops' = ops /\ notices' = notices
      /\ rows' = rows /\ samples' = samples /\ incidents' = incidents /\ paused' = paused
  OBVIOUS
<1>2. MonTypes
  BY DEF MonInv, MonAlways
<1>3. /\ rows' \in [Monitors -> MonRow] /\ samples' \in [Monitors -> Seq(BOOLEAN)] /\ incidents' \subseteq Incident
      /\ paused' \subseteq Monitors
  BY <1>1, <1>2 DEF MonTypes
<1>4. MonCalm => (rows[n].here => LogFits(n)')
  BY <1>1, <1>2, LogQuiet
<1>5. \A m \in Monitors : M!Open(m)' = M!Open(m)
  BY <1>1 DEF M!Open
<1>6. \A m \in Monitors : /\ rows'[m].here = rows[m].here /\ rows'[m].enabled = rows[m].enabled /\ rows'[m].muted = rows[m].muted
                          /\ m # n => /\ rows'[m] = rows[m] /\ M!Open(m)' = M!Open(m) /\ samples'[m] = samples[m]
                                      /\ m \in paused' <=> m \in paused
  BY <1>1, <1>5
<1> QED
  BY <1>1, <1>3, <1>4, <1>6, PlainStep

\* Before the first request nothing is muted and every job is a loop.
LEMMA MutedAtFirst ==
    ASSUME MonInv, ops = 0
    PROVE  /\ \A j \in DOMAIN jobs : jobs[j].kind = "loop" /\ jobs[j].seen.row.muted = 0 /\ rows[jobs[j].mon].muted = 0
           /\ \A j \in DOMAIN jobs : jobs[j].at = "seed" => rows[jobs[j].mon].status = "unknown"
<1>1. OnlyBooted /\ MonTypes
  BY DEF MonInv, MonAlways
<1>2. \A j \in DOMAIN jobs : jobs[j].mon \in Monitors
  BY <1>1, JobTyped
<1> QED
  BY <1>1, <1>2 DEF OnlyBooted

\* Seed: the streak counted is a trailing one, and a loop that finds its monitor down has alerted already.
LEMMA StepSeed ==
    ASSUME MonInv, M!Noted, NEW j \in DOMAIN jobs, M!Seed(j)
    PROVE  MonInv'
<1>1. MonTypes /\ LoopsNamed
  BY DEF MonInv, MonAlways
<1>2. PICK n \in Monitors : n = jobs[j].mon
  BY <1>1, JobTyped
<1>3. /\ jobs[j] \in MonJob /\ rows[n] \in MonRow /\ jobs[j].seen \in MonSeen /\ jobs[j].at = "seed" /\ jobs[j].kind = "loop"
  BY <1>1, <1>2, JobTyped DEF M!Seed, LoopsNamed
<1>4. UNCHANGED <<rows, samples, incidents, loops, calls, notices, now, ops, paused>>
  BY DEF M!Seed
<1>5. rows' = rows /\ samples' = samples /\ notices' = notices /\ ops' = ops /\ now' \in Nat /\ Ticking(j)
  BY <1>1, <1>3, <1>4 DEF MonTypes, Ticking
<1>6. By(j)' = {} /\ By(j) = {}
  <2>1. Remembers(j)
    BY DEF MonInv, MonAlways, Sent
  <2> QED
    BY <1>3, <1>5, <2>1 DEF Remembers, By
<1>7. CASE rows[n].here /\ rows[n].enabled
  <2>1. PICK many \in M!TrailingFails(n, rows[n].threshold) :
              M!Put(j, [jobs[j] EXCEPT !.at = "get", !.fails = many, !.alerted = rows[n].status = "down", !.last = IF rows[n].status = "down" THEN now ELSE 0])
    BY <1>2, <1>7 DEF M!Seed
  <2>2. many \in Nat /\ M!Trailing(n, many)
    BY <1>3, <2>1 DEF M!TrailingFails, MonRow
  <2> DEFINE alerted == rows[n].status = "down"
             last == IF rows[n].status = "down" THEN now ELSE 0
             x == [jobs[j] EXCEPT !.at = "get", !.fails = many, !.alerted = alerted, !.last = last]
  <2>3. M!Put(j, x)
    BY <2>1
  <2>4. alerted \in BOOLEAN /\ last \in Nat /\ (alerted => rows[n].status = "down")
    BY <1>1 DEF MonTypes
  <2> HIDE DEF alerted, last
  <2>5. /\ x \in MonJob /\ x.mon = n /\ x.kind = "loop" /\ x.at = "get" /\ x.dead = jobs[j].dead /\ x.alerted = alerted
        /\ x.fails = many /\ x.seen = jobs[j].seen
    BY <1>2, <1>3, <2>2, <2>4 DEF MonJob, MonPlaces
  <2> HIDE DEF x
  <2>6. jobs'[j] = x
    BY <1>1, <2>3, <2>5, JobPut
  <2>7. Remembers(j)'
    <3>1. ops' = 0 => ~x.alerted
      BY <1>2, <1>3, <1>5, <2>4, <2>5, MutedAtFirst
    <3> QED
      BY <1>6, <2>5, <2>6, <3>1 DEF Remembers
  <2>8. MonCalm => TickFits(j)'
    <3>1. MonCalm => TickFits(j)
      BY <1>5 DEF MonCalm
    <3> QED
      BY <1>2, <1>3, <1>5, <1>7, <2>5, <2>6, <3>1 DEF TickFits, M!Gone
  <2>9. Streak(j)'
    BY <1>5, <2>2, <2>5, <2>6 DEF Streak, M!Trailing
  <2>10. ops = 0 => x.seen.row.muted = 0
    BY <2>5, MutedAtFirst
  <2> QED
    BY <1>2, <1>3, <1>4, <1>5, <2>3, <2>5, <2>7, <2>8, <2>9, <2>10, MonQuietStep
<1>8. CASE ~(rows[n].here /\ rows[n].enabled)
  <2> DEFINE x == M!Over(jobs[j])
  <2>1. M!Put(j, x)
    BY <1>2, <1>8 DEF M!Seed, M!Finish
  <2>2. /\ x \in MonJob /\ x.mon = n /\ x.kind = "loop" /\ x.at = "end" /\ x.dead /\ x.seen = M!NothingRead
    BY <1>2, <1>3, JobEnds
  <2> HIDE DEF x
  <2>3. jobs'[j] = x
    BY <1>1, <2>1, <2>2, JobPut
  <2>4. Remembers(j)'
    BY <1>6, <2>2, <2>3 DEF Remembers
  <2>5. ~MonCalm
    <3>1. MonCalm => TickFits(j)
      BY <1>5 DEF MonCalm
    <3> QED
      BY <1>2, <1>3, <1>8, <3>1 DEF TickFits, M!Gone
  <2>6. x.seen.row.muted = 0
    BY <2>2 DEF M!NothingRead, M!NoRow
  <2> QED
    BY <1>2, <1>3, <1>4, <1>5, <2>1, <2>2, <2>4, <2>5, <2>6, MonQuietStep
<1> QED
  BY <1>7, <1>8

\* A job ends, and is forgotten.
LEMMA StepDone ==
    ASSUME MonInv, M!Noted, NEW j \in DOMAIN jobs, M!Done(j)
    PROVE  MonInv'
<1>1. MonTypes
  BY DEF MonInv, MonAlways
<1>2. PICK n \in Monitors : n = jobs[j].mon
  BY <1>1, JobTyped
<1>3. jobs[j] \in MonJob /\ jobs[j].at = "wait" /\ jobs[j].dead
  BY <1>1, JobTyped DEF M!Done
<1>4. UNCHANGED <<rows, samples, incidents, loops, calls, notices, now, ops, paused>>
  BY DEF M!Done
<1>5. notices' = notices /\ ops' = ops /\ now' \in Nat
  BY <1>1, <1>4 DEF MonTypes
<1> DEFINE x == M!Over(jobs[j])
<1>6. M!Put(j, x)
  BY DEF M!Done, M!Finish
<1>7. /\ x \in MonJob /\ x.mon = n /\ x.kind = jobs[j].kind /\ x.at = "end" /\ x.dead /\ x.seen = M!NothingRead
  BY <1>2, <1>3, JobEnds
<1> HIDE DEF x
<1>8. jobs'[j] = x
  BY <1>1, <1>6, <1>7, JobPut
<1>9. Remembers(j)'
  BY <1>2, <1>5, <1>6, <1>7, StillRemembers DEF MonInv
<1>10. ~Ticking(j)' /\ x.seen.row.muted = 0 /\ (x.dead <=> jobs[j].dead)
  BY <1>3, <1>7, <1>8 DEF M!NothingRead, M!NoRow, Ticking
<1> QED
  BY <1>2, <1>3, <1>4, <1>5, <1>6, <1>7, <1>9, <1>10, MonQuietStep

\* A loop that goes on has nobody else at work on its monitor.
LEMMA StepTick ==
    ASSUME MonInv, M!Noted, NEW j \in DOMAIN jobs, M!Tick(j)
    PROVE  MonInv'
<1>1. MonTypes /\ LoopsNamed
  BY DEF MonInv, MonAlways
<1>2. PICK n \in Monitors : n = jobs[j].mon
  BY <1>1, JobTyped
<1>3. jobs[j] \in MonJob /\ jobs[j].at = "wait" /\ ~jobs[j].dead /\ jobs[j].kind = "loop"
  BY <1>1, JobTyped DEF M!Tick, LoopsNamed
<1>4. UNCHANGED <<rows, samples, incidents, loops, calls, notices, now, ops, paused>>
  BY DEF M!Tick
<1>5. rows' = rows /\ samples' = samples /\ notices' = notices /\ ops' = ops /\ calls' = calls /\ now' \in Nat
  BY <1>1, <1>4 DEF MonTypes
<1> DEFINE x == [jobs[j] EXCEPT !.at = "get"]
<1>6. M!Put(j, x)
  BY DEF M!Tick
<1>7. /\ x \in MonJob /\ x.mon = n /\ x.kind = "loop" /\ x.at = "get" /\ x.dead = jobs[j].dead /\ x.alerted = jobs[j].alerted
      /\ x.fails = jobs[j].fails /\ x.seen = jobs[j].seen
  BY <1>2, <1>3 DEF MonJob, MonPlaces
<1> HIDE DEF x
<1>8. /\ jobs'[j] = x /\ DOMAIN jobs' = DOMAIN jobs
  BY <1>1, <1>6, <1>7, JobPut
<1>9. Remembers(j)'
  BY <1>2, <1>3, <1>5, <1>6, <1>7, StillRemembers DEF MonInv
<1>10. ASSUME MonCalm, ~overlapped'
       PROVE  TickFits(j)'
  <2>1. MonAlone(n)'
    <3>1. MonTypes'
      <4>1. jobs' \in Seq(MonJob) /\ overlapped' \in BOOLEAN
        BY <1>1, <1>6, <1>7, JobPut, NotedTyped
      <4> QED
        BY <1>1, <1>4, <4>1 DEF MonTypes
    <3> QED
      BY <1>10, <3>1, CalmStep
  <2>2. \A c \in calls : c.mon # n
    BY <1>2, <1>5, <1>7, <1>8, <2>1 DEF MonAlone, Ticking
  <2>3. Steady(n)
    BY <1>1, <1>10, <2>2, JobTyped DEF MonCalm, LoopFits
  <2>4. j \in M!Alive(n)
    BY <1>2, <1>3 DEF M!Alive
  <2>5. ~M!Gone(n)
    BY <2>3, <2>4 DEF Steady
  <2> QED
    BY <1>3, <1>5, <1>7, <1>8, <2>5 DEF TickFits, M!Gone
<1>11. MonCalm /\ Unchecked /\ ~x.dead /\ rows[n].here => Streak(j)'
  <2>1. MonCalm /\ Unchecked /\ ~x.dead /\ rows[n].here => Streak(j)
    BY <1>2, <1>3 DEF MonCalm
  <2> QED
    BY <1>2, <1>3, <1>5, <1>7, <1>8, <2>1 DEF Streak, M!Trailing
<1>12. ops = 0 => x.seen.row.muted = 0
  BY <1>7, MutedAtFirst
<1> QED
  BY <1>2, <1>3, <1>4, <1>5, <1>6, <1>7, <1>9, <1>10, <1>11, <1>12, MonQuietStep

\* GetRow: a tick goes on with the row of now, or stops.
LEMMA StepGetRow ==
    ASSUME MonInv, M!Noted, NEW j \in DOMAIN jobs, M!GetRow(j)
    PROVE  MonInv'
<1>1. MonTypes
  BY DEF MonInv, MonAlways
<1>2. PICK n \in Monitors : n = jobs[j].mon
  BY <1>1, JobTyped
<1>3. jobs[j] \in MonJob /\ jobs[j].at = "get" /\ jobs[j].seen \in MonSeen /\ rows[n] \in MonRow
  BY <1>1, <1>2, JobTyped DEF M!GetRow
<1>4. UNCHANGED <<rows, samples, incidents, loops, calls, notices, now, ops, paused>>
  BY DEF M!GetRow
<1>5. rows' = rows /\ samples' = samples /\ notices' = notices /\ ops' = ops /\ now' \in Nat
  BY <1>1, <1>4 DEF MonTypes
<1>6. MonCalm => TickFits(j)
  BY <1>3 DEF MonCalm, Ticking
<1>7. MonCalm /\ Unchecked /\ ~jobs[j].dead /\ rows[n].here => Streak(j)
  BY <1>2, <1>3 DEF MonCalm
<1>8. CASE rows[n].here /\ rows[n].enabled
  <2> DEFINE seen == [jobs[j].seen EXCEPT !.row = rows[n]]
             x == [jobs[j] EXCEPT !.at = "probe", !.seen = seen]
  <2>1. M!Put(j, x)
    <3>1. M!Put(j, [jobs[j] EXCEPT !.at = "probe", !.seen.row = rows[n]])
      BY <1>2, <1>8 DEF M!GetRow
    <3>2. [jobs[j] EXCEPT !.at = "probe", !.seen.row = rows[n]] = x
      BY <1>3 DEF MonJob, MonSeen
    <3> QED
      BY <3>1, <3>2
  <2>2. seen \in MonSeen /\ seen.row = rows[n]
    BY <1>3 DEF MonSeen
  <2> HIDE DEF seen
  <2>3. /\ x \in MonJob /\ x.mon = n /\ x.kind = jobs[j].kind /\ x.at = "probe" /\ x.dead = jobs[j].dead /\ x.alerted = jobs[j].alerted
        /\ x.fails = jobs[j].fails /\ x.seen = seen
    BY <1>2, <1>3, <2>2 DEF MonJob, MonPlaces
  <2> HIDE DEF x
  <2>4. jobs'[j] = x
    BY <1>1, <2>1, <2>3, JobPut
  <2>5. Remembers(j)'
    BY <1>2, <1>3, <1>5, <2>1, <2>3, StillRemembers DEF MonInv
  <2>6. MonCalm => TickFits(j)'
    BY <1>2, <1>3, <1>5, <1>6, <1>8, <2>2, <2>3, <2>4 DEF TickFits, M!Gone
  <2>7. MonCalm /\ Unchecked /\ ~x.dead /\ rows[n].here => Streak(j)'
    BY <1>2, <1>3, <1>5, <1>7, <2>3, <2>4 DEF Streak, M!Trailing
  <2>8. ops = 0 => x.seen.row.muted = 0
    BY <1>2, <2>2, <2>3, MutedAtFirst
  <2> QED
    BY <1>2, <1>3, <1>4, <1>5, <2>1, <2>3, <2>5, <2>6, <2>7, <2>8, MonQuietStep
<1>9. CASE ~(rows[n].here /\ rows[n].enabled)
  <2> DEFINE x == [jobs[j] EXCEPT !.at = "stop"]
  <2>1. M!Put(j, x)
    BY <1>2, <1>9 DEF M!GetRow
  <2>3. /\ x \in MonJob /\ x.mon = n /\ x.kind = jobs[j].kind /\ x.at = "stop" /\ x.dead = jobs[j].dead /\ x.alerted = jobs[j].alerted
        /\ x.fails = jobs[j].fails /\ x.seen = jobs[j].seen
    BY <1>2, <1>3 DEF MonJob, MonPlaces
  <2> HIDE DEF x
  <2>4. jobs'[j] = x
    BY <1>1, <2>1, <2>3, JobPut
  <2>5. Remembers(j)'
    BY <1>2, <1>3, <1>5, <2>1, <2>3, StillRemembers DEF MonInv
  <2>6. MonCalm => TickFits(j)'
    BY <1>2, <1>3, <1>5, <1>6, <1>9, <2>3, <2>4 DEF TickFits, M!Gone
  <2>7. Streak(j)'
    BY <2>3, <2>4 DEF Streak
  <2>8. ops = 0 => x.seen.row.muted = 0
    BY <2>3, MutedAtFirst
  <2> QED
    BY <1>2, <1>3, <1>4, <1>5, <2>1, <2>3, <2>5, <2>6, <2>7, <2>8, MonQuietStep
<1> QED
  BY <1>8, <1>9

\* Probe: an answer lengthens the streak by one or ends it.
LEMMA StepProbe ==
    ASSUME MonInv, M!Noted, NEW j \in DOMAIN jobs, NEW ok \in BOOLEAN, M!Probe(j, ok)
    PROVE  MonInv'
<1>1. MonTypes
  BY DEF MonInv, MonAlways
<1>2. PICK n \in Monitors : n = jobs[j].mon
  BY <1>1, JobTyped
<1>3. jobs[j] \in MonJob /\ jobs[j].at = "probe" /\ jobs[j].seen \in MonSeen /\ jobs[j].seen.row \in MonRow /\ jobs[j].fails \in Nat
  BY <1>1, <1>2, JobTyped DEF M!Probe
<1>4. UNCHANGED <<rows, samples, incidents, loops, calls, notices, ops, paused>>
  BY DEF M!Probe
<1>5. rows' = rows /\ samples' = samples /\ notices' = notices /\ ops' = ops /\ now' \in Nat /\ now + 1 \in Nat
  BY <1>1, <1>4 DEF MonTypes, M!Probe
<1>6. MonCalm => TickFits(j)
  BY <1>3 DEF MonCalm, Ticking
<1>7. MonCalm /\ Unchecked /\ ~jobs[j].dead /\ rows[n].here => Streak(j)
  BY <1>2, <1>3 DEF MonCalm
<1> DEFINE row == jobs[j].seen.row
           many == IF ok THEN 0 ELSE jobs[j].fails + 1
           status == M!NewStatus(row, ok, many)
           seen == [jobs[j].seen EXCEPT !.ok = ok, !.t = now + 1, !.status = status]
           x == [jobs[j] EXCEPT !.at = "record", !.fails = many, !.seen = seen]
<1>8. M!Put(j, x)
  <2>1. M!Put(j, [jobs[j] EXCEPT !.at = "record", !.fails = many, !.seen.ok = ok, !.seen.t = now + 1, !.seen.status = status])
    BY DEF M!Probe
  <2> HIDE DEF status, many
  <2>2. [jobs[j] EXCEPT !.at = "record", !.fails = many, !.seen.ok = ok, !.seen.t = now + 1, !.seen.status = status] = x
    BY <1>3 DEF MonJob, MonSeen
  <2> QED
    BY <2>1, <2>2
<1>9. /\ many \in Nat /\ (ok => many = 0) /\ (~ok => many = jobs[j].fails + 1)
      /\ status \in Statuses /\ status \in {"up", "down", row.status} /\ (status = "up" => row.status = "up" \/ ok)
      /\ status # row.status /\ status = "down" => many >= row.threshold
  <2>0. row.status \in Statuses
    BY <1>3 DEF MonRow
  <2>1. many \in Nat /\ (ok => many = 0) /\ (~ok => many = jobs[j].fails + 1)
    BY <1>3
  <2> HIDE DEF row, many
  <2> QED
    BY <2>0, <2>1 DEF M!NewStatus, Statuses
<1>10. \/ many > 0 /\ many - 1 = jobs[j].fails
       \/ ok
  BY <1>3, <1>9
<1> HIDE DEF status, many
<1>11. seen \in MonSeen /\ seen.row = row /\ seen.ok = ok /\ seen.status = status
  BY <1>3, <1>5, <1>9 DEF MonSeen
<1> HIDE DEF seen
<1>12. /\ x \in MonJob /\ x.mon = n /\ x.kind = jobs[j].kind /\ x.at = "record" /\ x.dead = jobs[j].dead /\ x.alerted = jobs[j].alerted
       /\ x.fails = many /\ x.seen = seen
  BY <1>2, <1>3, <1>9, <1>11 DEF MonJob, MonPlaces
<1> HIDE DEF x
<1>13. jobs'[j] = x
  BY <1>1, <1>8, <1>12, JobPut
<1>14. Remembers(j)'
  BY <1>2, <1>3, <1>5, <1>8, <1>12, StillRemembers DEF MonInv
<1>15. MonCalm => TickFits(j)'
  BY <1>2, <1>3, <1>5, <1>6, <1>9, <1>11, <1>12, <1>13 DEF TickFits, M!Gone
<1>16. MonCalm /\ Unchecked /\ ~x.dead /\ rows[n].here => Streak(j)'
  <2>1. PICK f \in Nat : f = jobs[j].fails
    BY <1>3
  <2>2. MonCalm /\ Unchecked /\ ~x.dead /\ rows[n].here => M!Trailing(n, f)
    BY <1>2, <1>3, <1>7, <1>12, <2>1 DEF Streak
  <2>3. M!Trailing(n, f) => M!Trailing(n, f)'
    BY <1>5 DEF M!Trailing
  <2> QED
    BY <1>5, <1>9, <1>10, <1>11, <1>12, <1>13, <2>1, <2>2, <2>3 DEF Streak, M!Trailing, M!Changed
<1>17. ops = 0 => x.seen.row.muted = 0
  BY <1>11, <1>12, MutedAtFirst
<1> QED
  BY <1>2, <1>3, <1>4, <1>5, <1>8, <1>12, <1>14, <1>15, <1>16, <1>17, MonQuietStep

\* While a job works on a monitor no other one does.
LEMMA OnlyWithin ==
    ASSUME MonCalm, MonTypes, NEW j \in DOMAIN jobs, NEW n \in Monitors, n = jobs[j].mon, Ticking(j)
    PROVE  TickFits(j) /\ LogFits(n) /\ Within(n) \subseteq {j}
<1>1. TickFits(j)
  BY DEF MonCalm
<1>2. LogFits(n)
  BY <1>1 DEF MonCalm, TickFits
<1>3. MonAlone(n)
  BY DEF MonCalm
<1> QED
  BY <1>1, <1>2, <1>3 DEF MonAlone, Within, Ticking

\* The sample the tick recorded is the last one.
LEMMA TrailingAppend ==
    ASSUME NEW m \in Monitors, samples[m] \in Seq(BOOLEAN), NEW ok \in BOOLEAN, samples'[m] = Append(samples[m], ok), NEW n \in Nat
    PROVE  M!Trailing(m, 0)' /\ (~ok /\ M!Trailing(m, n) => M!Trailing(m, n + 1)')
<1>1. /\ Len(samples'[m]) = Len(samples[m]) + 1 /\ samples'[m][Len(samples[m]) + 1] = ok /\ Len(samples[m]) \in Nat
      /\ \A k \in 1..Len(samples[m]) : samples'[m][k] = samples[m][k]
  OBVIOUS
<1>2. M!Trailing(m, 0)'
  BY <1>1 DEF M!Trailing
<1>3. ASSUME ~ok, M!Trailing(m, n)
      PROVE  M!Trailing(m, n + 1)'
  <2>1. n + 1 <= Len(samples'[m])
    BY <1>1, <1>3 DEF M!Trailing
  <2>2. ASSUME NEW k \in (Len(samples[m]) - n + 1)..(Len(samples[m]) + 1)
        PROVE  ~samples'[m][k]
    <3>1. CASE k = Len(samples[m]) + 1
      BY <1>1, <1>3, <3>1
    <3>2. CASE k # Len(samples[m]) + 1
      <4>1. k \in (Len(samples[m]) - n + 1)..Len(samples[m]) /\ n <= Len(samples[m])
        BY <1>1, <1>3, <2>2, <3>2 DEF M!Trailing
      <4>2. k \in 1..Len(samples[m])
        BY <1>1, <4>1
      <4> QED
        BY <1>1, <1>3, <4>1, <4>2 DEF M!Trailing
    <3> QED
      BY <3>1, <3>2
  <2>3. (Len(samples'[m]) - (n + 1) + 1)..Len(samples'[m]) \subseteq (Len(samples[m]) - n + 1)..(Len(samples[m]) + 1)
    BY <1>1
  <2> QED
    BY <2>1, <2>2, <2>3 DEF M!Trailing
<1> QED
  BY <1>2, <1>3

\* Record: the row and the samples catch up with the probe.
LEMMA StepRecord ==
    ASSUME MonInv, M!Noted, NEW j \in DOMAIN jobs, M!Record(j)
    PROVE  MonInv'
<1>1. MonTypes
  BY DEF MonInv, MonAlways
<1>2. PICK n \in Monitors : n = jobs[j].mon
  BY <1>1, JobTyped
<1>3. /\ jobs[j] \in MonJob /\ jobs[j].at = "record" /\ jobs[j].seen \in MonSeen /\ jobs[j].seen.row \in MonRow /\ jobs[j].fails \in Nat
      /\ jobs[j].seen.ok \in BOOLEAN /\ jobs[j].seen.status \in Statuses /\ rows[n] \in MonRow
  BY <1>1, <1>2, JobTyped DEF M!Record, MonSeen
<1>4. UNCHANGED <<incidents, loops, calls, notices, now, ops, paused>>
  BY DEF M!Record
<1>5. incidents' = incidents /\ notices' = notices /\ ops' = ops /\ now' \in Nat /\ paused' = paused /\ incidents' \subseteq Incident /\ paused' \subseteq Monitors
  BY <1>1, <1>4 DEF MonTypes
<1>s. PICK status \in Statuses : status = jobs[j].seen.status
  BY <1>3
<1>6. /\ rows' \in [Monitors -> MonRow] /\ \A m \in Monitors : m # n => rows'[m] = rows[m]
      /\ rows'[n].here = rows[n].here /\ rows'[n].enabled = rows[n].enabled /\ rows'[n].muted = rows[n].muted
      /\ rows[n].here => rows'[n].status = status
  <2>0. rows \in [Monitors -> MonRow]
    BY <1>1 DEF MonTypes
  <2>1. CASE rows[n].here
    <3>1. rows' = [rows EXCEPT ![n].status = status]
      BY <1>2, <1>s, <2>1 DEF M!Record
    <3>2. rows' = [rows EXCEPT ![n] = [rows[n] EXCEPT !.status = status]] /\ [rows[n] EXCEPT !.status = status] \in MonRow
      BY <2>0, <3>1, <1>3 DEF MonRow
    <3> QED
      BY <2>0, <3>2, <1>3 DEF MonRow
  <2>2. CASE ~rows[n].here
    BY <1>2, <2>0, <2>2 DEF M!Record
  <2> QED
    BY <2>1, <2>2
<1>7. /\ samples' \in [Monitors -> Seq(BOOLEAN)] /\ \A m \in Monitors : m # n => samples'[m] = samples[m]
      /\ samples'[n] = Append(samples[n], jobs[j].seen.ok) /\ samples[n] \in Seq(BOOLEAN)
  <2>1. samples' = [samples EXCEPT ![n] = Append(@, jobs[j].seen.ok)] /\ samples \in [Monitors -> Seq(BOOLEAN)]
    BY <1>1, <1>2 DEF M!Record, MonTypes
  <2>2. Append(samples[n], jobs[j].seen.ok) \in Seq(BOOLEAN)
    BY <1>3, <2>1
  <2> QED
    BY <2>1, <2>2
<1> DEFINE x == [jobs[j] EXCEPT !.at = "transition"]
<1>8. M!Put(j, x)
  BY DEF M!Record
<1>9. /\ x \in MonJob /\ x.mon = n /\ x.kind = jobs[j].kind /\ x.at = "transition" /\ x.dead = jobs[j].dead /\ x.alerted = jobs[j].alerted
      /\ x.fails = jobs[j].fails /\ x.seen = jobs[j].seen
  BY <1>2, <1>3 DEF MonJob, MonPlaces
<1> HIDE DEF x
<1>10. jobs'[j] = x /\ DOMAIN jobs' = DOMAIN jobs /\ \A k \in DOMAIN jobs : k # j => jobs'[k] = jobs[k]
  BY <1>1, <1>8, <1>9, JobPut
<1>11. Remembers(j)'
  BY <1>2, <1>3, <1>5, <1>8, <1>9, StillRemembers DEF MonInv
<1>12. Ticking(j)
  BY <1>3 DEF Ticking
<1>13. MonCalm => TickFits(j) /\ LogFits(n) /\ Within(n) = {}
  BY <1>1, <1>2, <1>3, <1>12, OnlyWithin DEF Within
<1>14. MonCalm => TickFits(j)'
  BY <1>2, <1>3, <1>6, <1>s, <1>9, <1>10, <1>13 DEF TickFits, M!Gone
<1>15. ASSUME MonCalm, rows[n].here
       PROVE  LogFits(n)'
  <2>1. Within(n)' = {j}
    <3>1. ASSUME NEW k \in DOMAIN jobs, k # j
          PROVE  k \notin Within(n)'
      BY <1>10, <1>13, <1>15, <3>1 DEF Within
    <3> QED
      BY <1>9, <1>10, <3>1 DEF Within
  <2>2. M!Open(n)' = M!Open(n)
    BY <1>5 DEF M!Open
  <2>3. Fits(n, rows[n].status) /\ jobs[j].seen.row.status = rows[n].status /\ \A i, k \in M!Open(n) : i = k
    BY <1>2, <1>3, <1>13, <1>15 DEF LogFits, TickFits
  <2>4. Fits(n, jobs[j].seen.row.status)'
    <3>1. jobs'[j].seen.row.status = rows[n].status
      BY <1>9, <1>10, <2>3
    <3> QED
      BY <1>5, <2>2, <2>3, <3>1 DEF Fits
  <2> QED
    BY <1>9, <1>10, <2>1, <2>2, <2>3, <2>4 DEF LogFits
<1>16. MonCalm /\ Unchecked /\ ~x.dead /\ rows[n].here => Streak(j)'
  <2> SUFFICES ASSUME MonCalm, Unchecked, ~x.dead, rows[n].here
               PROVE  Streak(j)'
    OBVIOUS
  <2>1. Streak(j)
    BY <1>2, <1>9 DEF MonCalm
  <2>2. /\ IF jobs[j].seen.ok THEN jobs[j].fails = 0 ELSE jobs[j].fails > 0 /\ M!Trailing(n, jobs[j].fails - 1)
        /\ M!Changed(jobs[j].seen) /\ jobs[j].seen.status = "down" => jobs[j].fails >= jobs[j].seen.row.threshold
    BY <1>2, <1>3, <2>1 DEF Streak
  <2>f. PICK f \in Nat : f = jobs[j].fails
    BY <1>3
  <2>3. M!Trailing(n, f)'
    <3>1. CASE jobs[j].seen.ok
      BY <1>3, <1>7, <2>2, <2>f, <3>1, TrailingAppend
    <3>2. CASE ~jobs[j].seen.ok
      <4>1. f - 1 \in Nat /\ M!Trailing(n, f - 1) /\ (f - 1) + 1 = f
        BY <2>2, <2>f, <3>2
      <4>2. PICK g \in Nat : g = f - 1
        BY <4>1
      <4>3. M!Trailing(n, g + 1)'
        BY <1>3, <1>7, <3>2, <4>1, <4>2, TrailingAppend
      <4> QED
        BY <4>1, <4>2, <4>3
    <3> QED
      BY <3>1, <3>2
  <2> QED
    BY <1>9, <1>10, <2>2, <2>f, <2>3 DEF Streak, M!Changed, M!Trailing
<1>17. ops = 0 => x.seen.row.muted = 0
  BY <1>9, MutedAtFirst
<1>18. \A m \in Monitors : /\ rows'[m].here = rows[m].here /\ rows'[m].enabled = rows[m].enabled /\ rows'[m].muted = rows[m].muted
                           /\ m # n => /\ rows'[m] = rows[m] /\ M!Open(m)' = M!Open(m) /\ samples'[m] = samples[m]
                                       /\ m \in paused' <=> m \in paused
  <2>1. \A m \in Monitors : M!Open(m)' = M!Open(m)
    BY <1>5 DEF M!Open
  <2> QED
    BY <1>5, <1>6, <1>7, <2>1
<1> QED
  BY <1>2, <1>4, <1>5, <1>6, <1>7, <1>8, <1>9, <1>11, <1>12, <1>14, <1>15, <1>16, <1>17, <1>18, PlainStep

\* Transition: an outage is opened where none is open.
LEMMA StepTransition ==
    ASSUME MonInv, M!Noted, NEW j \in DOMAIN jobs, M!Transition(j)
    PROVE  MonInv'
<1>1. MonTypes
  BY DEF MonInv, MonAlways
<1>2. PICK n \in Monitors : n = jobs[j].mon
  BY <1>1, JobTyped
<1>3. /\ jobs[j] \in MonJob /\ jobs[j].at = "transition" /\ jobs[j].seen \in MonSeen /\ jobs[j].seen.row \in MonRow /\ jobs[j].fails \in Nat
      /\ rows[n] \in MonRow /\ jobs[j].seen.status \in Statuses /\ jobs[j].seen.row.status \in Statuses
  BY <1>1, <1>2, JobTyped DEF M!Transition, MonSeen, MonRow
<1>4. UNCHANGED <<rows, samples, incidents, loops, calls, notices, now, ops, paused>>
  BY DEF M!Transition
<1>5. /\ rows' = rows /\ samples' = samples /\ notices' = notices /\ ops' = ops /\ now' \in Nat /\ incidents' = incidents /\ paused' = paused
      /\ rows' \in [Monitors -> MonRow] /\ samples' \in [Monitors -> Seq(BOOLEAN)] /\ incidents' \subseteq Incident
      /\ paused' \subseteq Monitors
  BY <1>1, <1>4 DEF MonTypes
<1> DEFINE suppressed == jobs[j].seen.status = "down" /\ M!ParentDown(n)
           at == IF M!Changed(jobs[j].seen) /\ jobs[j].seen.status = "down" /\ M!Open(n) = {} THEN "open"
                 ELSE IF M!Changed(jobs[j].seen) /\ jobs[j].seen.status = "up" /\ jobs[j].seen.row.status = "down" THEN "close" ELSE "notify"
           seen == [jobs[j].seen EXCEPT !.suppressed = suppressed]
           x == [jobs[j] EXCEPT !.seen = seen, !.at = at]
<1>6. suppressed \in BOOLEAN
  OBVIOUS
<1>7. /\ at \in {"open", "close", "notify"}
      /\ at = "open" => M!Open(n) = {} /\ jobs[j].seen.status = "down"
      /\ at = "close" => jobs[j].seen.status = "up"
      /\ at = "notify" /\ jobs[j].seen.status = "down" /\ M!Changed(jobs[j].seen) => M!Open(n) # {}
      /\ at = "notify" /\ jobs[j].seen.status = "up" /\ M!Changed(jobs[j].seen) => jobs[j].seen.row.status # "down"
  OBVIOUS
<1>8. M!Put(j, x)
  <2>1. M!Put(j, [jobs[j] EXCEPT !.seen.suppressed = suppressed, !.at = at])
    BY <1>2 DEF M!Transition
  <2> HIDE DEF suppressed, at
  <2>2. [jobs[j] EXCEPT !.seen.suppressed = suppressed, !.at = at] = x
    BY <1>3 DEF MonJob, MonSeen
  <2> QED
    BY <2>1, <2>2
<1> HIDE DEF suppressed, at
<1>9. seen \in MonSeen /\ seen.row = jobs[j].seen.row /\ seen.ok = jobs[j].seen.ok /\ seen.status = jobs[j].seen.status
  BY <1>3, <1>6 DEF MonSeen
<1> HIDE DEF seen
<1>10. /\ x \in MonJob /\ x.mon = n /\ x.kind = jobs[j].kind /\ x.at = at /\ x.dead = jobs[j].dead /\ x.alerted = jobs[j].alerted
       /\ x.fails = jobs[j].fails /\ x.seen = seen
  BY <1>2, <1>3, <1>7, <1>9 DEF MonJob, MonPlaces
<1> HIDE DEF x
<1>11. jobs'[j] = x /\ DOMAIN jobs' = DOMAIN jobs /\ \A k \in DOMAIN jobs : k # j => jobs'[k] = jobs[k]
  BY <1>1, <1>8, <1>10, JobPut
<1>12. Remembers(j)'
  BY <1>2, <1>3, <1>5, <1>7, <1>8, <1>10, StillRemembers DEF MonInv
<1>13. Ticking(j)
  BY <1>3 DEF Ticking
<1>14. MonCalm => TickFits(j) /\ LogFits(n) /\ Within(n) \subseteq {j}
  BY <1>1, <1>2, <1>13, OnlyWithin
<1>15. MonCalm => TickFits(j)'
  BY <1>2, <1>3, <1>5, <1>7, <1>9, <1>10, <1>11, <1>14 DEF TickFits, M!Gone
<1>16. ASSUME MonCalm
       PROVE  LogFits(n)'
  <2>1. M!Open(n)' = M!Open(n)
    BY <1>5 DEF M!Open
  <2>2. /\ Fits(n, jobs[j].seen.row.status) /\ \A i, k \in M!Open(n) : i = k
        /\ jobs[j].seen.status = rows[n].status /\ jobs[j].seen.status \in {"up", "down", jobs[j].seen.row.status}
    BY <1>2, <1>3, <1>14, <1>16 DEF LogFits, Within, TickFits
  <2>3. Within(n)' = IF at = "notify" THEN {} ELSE {j}
    <3>1. ASSUME NEW k \in DOMAIN jobs, k # j
          PROVE  k \notin Within(n)'
      BY <1>11, <1>14, <1>16, <3>1 DEF Within
    <3>2. j \in Within(n)' <=> at # "notify"
      BY <1>7, <1>10, <1>11 DEF Within
    <3>3. Within(n)' \subseteq DOMAIN jobs
      BY <1>11 DEF Within
    <3> QED
      BY <3>1, <3>2, <3>3
  <2>4. at = "notify" => Fits(n, rows[n].status)
    BY <1>7, <2>2 DEF Fits, M!Changed
  <2>5. at = "notify" => Fits(n, rows[n].status)'
    BY <1>5, <2>1, <2>4 DEF Fits
  <2>6. \A k \in Within(n)' :
         /\ jobs'[k].at # "transition"
         /\ jobs'[k].at = "open" => M!Open(n)' = {} /\ jobs'[k].seen.status = "down"
         /\ jobs'[k].at = "close" => jobs'[k].seen.status = "up"
    BY <1>7, <1>9, <1>10, <1>11, <2>1, <2>3
  <2>7. Within(n)' = {} => Fits(n, rows[n].status)'
    BY <2>3, <2>5
  <2> QED
    BY <2>1, <2>2, <2>6, <2>7 DEF LogFits
<1>17. MonCalm /\ Unchecked /\ ~x.dead /\ rows[n].here => Streak(j)'
  <2>1. PICK f \in Nat : f = jobs[j].fails
    BY <1>3
  <2>2. MonCalm /\ Unchecked /\ ~jobs[j].dead /\ rows[n].here => Streak(j)
    BY <1>2 DEF MonCalm
  <2>3. MonCalm /\ Unchecked /\ ~x.dead /\ rows[n].here => M!Trailing(n, f)
    BY <1>2, <1>3, <1>10, <2>1, <2>2 DEF Streak
  <2>4. M!Trailing(n, f) => M!Trailing(n, f)'
    BY <1>5 DEF M!Trailing
  <2> QED
    BY <1>5, <1>7, <1>10, <1>11, <2>1, <2>3, <2>4 DEF Streak, M!Trailing
<1>18. ops = 0 => x.seen.row.muted = 0
  BY <1>9, <1>10, MutedAtFirst
<1>19. \A m \in Monitors : /\ rows'[m].here = rows[m].here /\ rows'[m].enabled = rows[m].enabled /\ rows'[m].muted = rows[m].muted
                           /\ m # n => /\ rows'[m] = rows[m] /\ M!Open(m)' = M!Open(m) /\ samples'[m] = samples[m]
                                       /\ m \in paused' <=> m \in paused
  <2>1. \A m \in Monitors : M!Open(m)' = M!Open(m)
    BY <1>5 DEF M!Open
  <2> QED
    BY <1>5, <2>1
<1> QED
  BY <1>2, <1>4, <1>5, <1>7, <1>8, <1>10, <1>12, <1>15, <1>16, <1>17, <1>18, <1>19, PlainStep

\* What the two steps on the incidents share.
LEMMA IncidentStep ==
    ASSUME MonInv, M!Noted, NEW j \in DOMAIN jobs, NEW n \in Monitors, n = jobs[j].mon, jobs[j].at \in {"open", "close"},
           M!Put(j, [jobs[j] EXCEPT !.at = "notify"]),
           UNCHANGED <<rows, samples, loops, calls, notices, now, ops>>, incidents' \subseteq Incident, paused' \subseteq Monitors,
           \A m \in Monitors : m # n => M!Open(m)' = M!Open(m) /\ (m \in paused' <=> m \in paused),
           MonCalm => (\A i, k \in M!Open(n)' : i = k) /\ Fits(n, rows[n].status)'
    PROVE  MonInv'
<1>1. MonTypes
  BY DEF MonInv, MonAlways
<1>3. /\ jobs[j] \in MonJob /\ jobs[j].fails \in Nat
  BY <1>1, JobTyped
<1>5. /\ rows' = rows /\ samples' = samples /\ notices' = notices /\ ops' = ops /\ now' \in Nat
      /\ rows' \in [Monitors -> MonRow] /\ samples' \in [Monitors -> Seq(BOOLEAN)]
  BY <1>1 DEF MonTypes
<1> DEFINE x == [jobs[j] EXCEPT !.at = "notify"]
<1>8. M!Put(j, x)
  OBVIOUS
<1>10. /\ x \in MonJob /\ x.mon = n /\ x.kind = jobs[j].kind /\ x.at = "notify" /\ x.dead = jobs[j].dead /\ x.alerted = jobs[j].alerted
       /\ x.fails = jobs[j].fails /\ x.seen = jobs[j].seen
  BY <1>3 DEF MonJob, MonPlaces
<1> HIDE DEF x
<1>11. jobs'[j] = x /\ DOMAIN jobs' = DOMAIN jobs /\ \A k \in DOMAIN jobs : k # j => jobs'[k] = jobs[k]
  BY <1>1, <1>8, <1>10, JobPut
<1>12. Remembers(j)'
  BY <1>5, <1>8, <1>10, StillRemembers DEF MonInv
<1>13. Ticking(j)
  BY DEF Ticking
<1>14. MonCalm => TickFits(j) /\ LogFits(n) /\ Within(n) \subseteq {j}
  BY <1>1, <1>13, OnlyWithin
<1>15. MonCalm => TickFits(j)'
  BY <1>5, <1>10, <1>11, <1>14 DEF TickFits, M!Gone
<1>16. ASSUME MonCalm
       PROVE  LogFits(n)'
  <2>1. Within(n)' = {}
    <3>1. ASSUME NEW k \in DOMAIN jobs, k # j
          PROVE  k \notin Within(n)'
      BY <1>11, <1>14, <1>16, <3>1 DEF Within
    <3> QED
      BY <1>10, <1>11, <3>1 DEF Within
  <2> QED
    BY <1>16, <2>1 DEF LogFits
<1>17. MonCalm /\ Unchecked /\ ~x.dead /\ rows[n].here => Streak(j)'
  <2>1. PICK f \in Nat : f = jobs[j].fails
    BY <1>3
  <2>2. MonCalm /\ Unchecked /\ ~jobs[j].dead /\ rows[n].here => Streak(j)
    BY DEF MonCalm
  <2>3. MonCalm /\ Unchecked /\ ~x.dead /\ rows[n].here => M!Trailing(n, f)
    BY <1>3, <1>10, <2>1, <2>2 DEF Streak
  <2>4. M!Trailing(n, f) => M!Trailing(n, f)'
    BY <1>5 DEF M!Trailing
  <2> QED
    BY <1>5, <1>10, <1>11, <2>1, <2>3, <2>4 DEF Streak, M!Trailing
<1>18. ops = 0 => x.seen.row.muted = 0
  BY <1>10, MutedAtFirst
<1>19. \A m \in Monitors : /\ rows'[m].here = rows[m].here /\ rows'[m].enabled = rows[m].enabled /\ rows'[m].muted = rows[m].muted
                           /\ m # n => /\ rows'[m] = rows[m] /\ M!Open(m)' = M!Open(m) /\ samples'[m] = samples[m]
                                       /\ m \in paused' <=> m \in paused
  BY <1>5
<1> QED
  BY <1>5, <1>8, <1>10, <1>12, <1>13, <1>15, <1>16, <1>17, <1>18, <1>19, PlainStep

\* OpenIncident adds the only open incident.
LEMMA StepOpenIncident ==
    ASSUME MonInv, M!Noted, NEW j \in DOMAIN jobs, M!OpenIncident(j)
    PROVE  MonInv'
<1>1. MonTypes
  BY DEF MonInv, MonAlways
<1>2. PICK n \in Monitors : n = jobs[j].mon
  BY <1>1, JobTyped
<1>3. jobs[j].at = "open" /\ jobs[j].seen \in MonSeen /\ incidents \subseteq Incident /\ paused \subseteq Monitors
  BY <1>1, JobTyped DEF M!OpenIncident, MonTypes
<1>4. UNCHANGED <<rows, samples, loops, calls, notices, now, ops, paused>> /\ M!Put(j, [jobs[j] EXCEPT !.at = "notify"])
  BY DEF M!OpenIncident
<1>5. rows' = rows /\ paused' = paused
  BY <1>4
<1> DEFINE i == [mon |-> n, started |-> jobs[j].seen.t, open |-> TRUE, suppressed |-> jobs[j].seen.suppressed]
<1>6. incidents' = incidents \cup {i} /\ i \in Incident /\ i.mon = n /\ i.open
  BY <1>2, <1>3 DEF M!OpenIncident, Incident, MonSeen
<1> HIDE DEF i
<1>7. incidents' \subseteq Incident
  BY <1>3, <1>6
<1>8. \A m \in Monitors : m # n => M!Open(m)' = M!Open(m)
  BY <1>6 DEF M!Open
<1>9. M!Open(n)' = M!Open(n) \cup {i}
  BY <1>6 DEF M!Open
<1>10. ASSUME MonCalm
       PROVE  (\A e, k \in M!Open(n)' : e = k) /\ Fits(n, rows[n].status)'
  <2>1. TickFits(j) /\ LogFits(n)
    BY <1>1, <1>2, <1>3, <1>10, OnlyWithin DEF Ticking
  <2>2. M!Open(n) = {} /\ rows[n].status = "down"
    BY <1>2, <1>3, <2>1 DEF LogFits, TickFits, Within
  <2> QED
    BY <1>5, <1>9, <2>2 DEF Fits
<1>11. paused' \subseteq Monitors /\ \A m \in Monitors : m \in paused' <=> m \in paused
  BY <1>3, <1>5
<1> QED
  BY <1>2, <1>3, <1>4, <1>7, <1>8, <1>10, <1>11, IncidentStep

\* CloseIncident leaves none open.
LEMMA StepCloseIncident ==
    ASSUME MonInv, M!Noted, NEW j \in DOMAIN jobs, M!CloseIncident(j)
    PROVE  MonInv'
<1>1. MonTypes
  BY DEF MonInv, MonAlways
<1>2. PICK n \in Monitors : n = jobs[j].mon
  BY <1>1, JobTyped
<1>3. jobs[j].at = "close" /\ incidents \subseteq Incident /\ paused \subseteq Monitors
  BY <1>1 DEF M!CloseIncident, MonTypes
<1>4. UNCHANGED <<rows, samples, loops, calls, notices, now, ops>> /\ M!Put(j, [jobs[j] EXCEPT !.at = "notify"])
  BY DEF M!CloseIncident
<1>5. rows' = rows /\ paused' = paused \ {n}
  BY <1>2, <1>4 DEF M!CloseIncident
<1>6. incidents' = (incidents \ M!Open(n)) \cup {[i EXCEPT !.open = FALSE] : i \in M!Open(n)}
  BY <1>2 DEF M!CloseIncident
<1>7. \A i \in M!Open(n) : [i EXCEPT !.open = FALSE] \in Incident /\ [i EXCEPT !.open = FALSE].mon = n /\ ~[i EXCEPT !.open = FALSE].open
  BY <1>3 DEF M!Open, Incident
<1>8. incidents' \subseteq Incident
  BY <1>3, <1>6, <1>7
<1>9. \A m \in Monitors : m # n => M!Open(m)' = M!Open(m)
  BY <1>6, <1>7 DEF M!Open
<1>10. M!Open(n)' = {}
  <2>1. ASSUME NEW i \in incidents'
        PROVE  ~(i.mon = n /\ i.open)
    BY <1>6, <1>7, <2>1 DEF M!Open
  <2> QED
    BY <2>1 DEF M!Open
<1>11. ASSUME MonCalm
       PROVE  (\A e, k \in M!Open(n)' : e = k) /\ Fits(n, rows[n].status)'
  <2>1. TickFits(j) /\ LogFits(n)
    BY <1>1, <1>2, <1>3, <1>11, OnlyWithin DEF Ticking
  <2>2. rows[n].status = "up"
    BY <1>2, <1>3, <2>1 DEF LogFits, TickFits, Within
  <2> QED
    BY <1>5, <1>10, <2>2 DEF Fits
<1>12. paused' \subseteq Monitors /\ \A m \in Monitors : m # n => (m \in paused' <=> m \in paused)
  BY <1>3, <1>5
<1> QED
  BY <1>2, <1>3, <1>4, <1>8, <1>9, <1>11, <1>12, IncidentStep

\* What the notify policy decides of a job: an alert is followed by a recovery, and nothing but a mute forgets one.
LEMMA FiredFits ==
    ASSUME NEW job \in MonJob
    PROVE  /\ M!Fired(job).send \in {"none", "down", "recovered"} /\ M!Fired(job).job \in MonJob
           /\ M!Fired(job).job.mon = job.mon /\ M!Fired(job).job.kind = job.kind /\ M!Fired(job).job.fails = job.fails
           /\ M!Fired(job).job.dead = job.dead
           /\ M!Fired(job).send = "down" => M!Fired(job).job.alerted /\ (RenotifyEvery = 0 => ~job.alerted)
           /\ M!Fired(job).send = "recovered" => job.alerted /\ ~M!Fired(job).job.alerted
           /\ M!Fired(job).send = "none" => /\ M!Fired(job).job.alerted => job.alerted
                                            /\ job.seen.row.muted = 0 /\ job.alerted => M!Fired(job).job.alerted
<1> DEFINE seen == job.seen
           muted == seen.row.muted > seen.t
           onset == IF job.downSince = 0 THEN seen.t ELSE job.downSince
           downJob == [job EXCEPT !.downSince = onset]
           toldJob == [downJob EXCEPT !.alerted = TRUE, !.last = seen.t]
           upJob == [job EXCEPT !.downSince = 0, !.alerted = FALSE, !.last = 0]
           due == IF job.alerted THEN RenotifyEvery > 0 /\ seen.t - job.last >= RenotifyEvery ELSE seen.t - onset >= AlertAfter
           fresh == IF job.alerted /\ ~muted THEN "recovered" ELSE "none"
<1>1. seen \in MonSeen /\ seen.row \in MonRow /\ seen.t \in Nat /\ seen.row.muted \in Nat
  BY DEF MonJob, MonSeen, MonRow
<1>2. onset \in Nat
  BY <1>1 DEF MonJob
<1>3. seen.row.muted = 0 => ~muted
  BY <1>1
<1>4. due => ~job.alerted \/ RenotifyEvery > 0
  OBVIOUS
<1>5. /\ fresh \in {"none", "recovered"} /\ (fresh = "recovered" <=> job.alerted /\ ~muted)
  OBVIOUS
<1>6. M!Fired(job) = IF seen.suppressed THEN [send |-> "none", job |-> job]
                   ELSE IF seen.status = "down" THEN IF ~muted /\ due THEN [send |-> "down", job |-> toldJob] ELSE [send |-> "none", job |-> downJob]
                   ELSE IF seen.status = "up" THEN [send |-> fresh, job |-> upJob]
                   ELSE [send |-> "none", job |-> job]
  BY DEF M!Fired
<1> HIDE DEF onset, due, fresh, muted, seen
<1>7. /\ downJob \in MonJob /\ downJob.mon = job.mon /\ downJob.kind = job.kind /\ downJob.fails = job.fails
      /\ downJob.dead = job.dead /\ downJob.alerted = job.alerted
  BY <1>2 DEF MonJob
<1>8. /\ toldJob \in MonJob /\ toldJob.mon = job.mon /\ toldJob.kind = job.kind /\ toldJob.fails = job.fails
      /\ toldJob.dead = job.dead /\ toldJob.alerted
  <2> HIDE DEF downJob
  <2> QED
    BY <1>1, <1>7 DEF MonJob
<1>9. /\ upJob \in MonJob /\ upJob.mon = job.mon /\ upJob.kind = job.kind /\ upJob.fails = job.fails
      /\ upJob.dead = job.dead /\ ~upJob.alerted
  BY DEF MonJob
<1> HIDE DEF downJob, toldJob, upJob
<1>10. CASE seen.suppressed
  BY <1>6, <1>10
<1>11. CASE ~seen.suppressed /\ seen.status = "down" /\ ~muted /\ due
  <2>1. M!Fired(job) = [send |-> "down", job |-> toldJob]
    BY <1>6, <1>11
  <2>2. RenotifyEvery = 0 => ~job.alerted
    BY <1>4, <1>11
  <2> QED
    BY <1>8, <2>1, <2>2
<1>12. CASE ~seen.suppressed /\ seen.status = "down" /\ ~(~muted /\ due)
  <2>1. M!Fired(job) = [send |-> "none", job |-> downJob]
    BY <1>6, <1>12
  <2> QED
    BY <1>7, <2>1
<1>13. CASE ~seen.suppressed /\ seen.status # "down" /\ seen.status = "up"
  <2>1. M!Fired(job) = [send |-> fresh, job |-> upJob]
    BY <1>6, <1>13
  <2>2. fresh = "none" /\ job.seen.row.muted = 0 => ~job.alerted
    BY <1>3, <1>5 DEF seen
  <2> QED
    BY <1>5, <1>9, <2>1, <2>2
<1>14. CASE ~seen.suppressed /\ seen.status # "down" /\ seen.status # "up"
  BY <1>6, <1>14
<1> QED
  BY <1>10, <1>11, <1>12, <1>13, <1>14

\* One alert more, that fits the last one of its loop.
LEMMA PairedAppend ==
    ASSUME notices \in Seq(MonNotice), M!NoticesPaired, EachHasLast, NEW e \in MonNotice, notices' = Append(notices, e), ops' = ops,
           NEW B, B = {i \in DOMAIN notices : notices[i].by = e.by /\ notices[i].mon = e.mon},
           B # {} => \E i \in B : /\ \A o \in B : o <= i
                                  /\ e.event = "recovered" => notices[i].event = "down"
                                  /\ ops = 0 /\ RenotifyEvery = 0 /\ notices[i].event = "down" => e.event = "recovered",
           B = {} /\ ops = 0 /\ RenotifyEvery = 0 => e.event = "down"
    PROVE  M!NoticesPaired' /\ EachHasLast'
<1>1. /\ Len(notices) \in Nat /\ DOMAIN notices = 1..Len(notices) /\ DOMAIN notices' = 1..(Len(notices) + 1)
      /\ \A k \in 1..Len(notices) : notices'[k] = notices[k]
      /\ notices'[Len(notices) + 1] = e
  OBVIOUS
<1> DEFINE before(s, k) == {i \in 1..(k - 1) : s[i].by = s[k].by /\ s[i].mon = s[k].mon}
           last(s, k) == s[CHOOSE i \in before(s, k) : \A o \in before(s, k) : o <= i].event
           HasLast(s, k) == before(s, k) # {} => \E i \in before(s, k) : \A o \in before(s, k) : o <= i
           Fine(s, k, n) == /\ before(s, k) # {} => s[k].event = "down" \/ last(s, k) = "down"
                            /\ (n = 0 /\ RenotifyEvery = 0) => s[k].event = IF before(s, k) # {} /\ last(s, k) = "down" THEN "recovered" ELSE "down"
<1>2. \A k \in DOMAIN notices : Fine(notices, k, ops) /\ HasLast(notices, k)
  BY DEF M!NoticesPaired, EachHasLast
<1>3. ASSUME NEW k \in 1..Len(notices)
      PROVE  Fine(notices', k, ops) /\ HasLast(notices', k)
  <2>1. Fine(notices, k, ops) /\ HasLast(notices, k)
    BY <1>1, <1>2
  <2>2. notices'[k] = notices[k] /\ \A i \in 1..(k - 1) : notices'[i] = notices[i]
    BY <1>1
  <2>3. before(notices', k) = before(notices, k)
    BY <2>2
  <2>4. before(notices, k) # {} => last(notices', k) = last(notices, k)
    <3> SUFFICES ASSUME before(notices, k) # {}
                 PROVE  last(notices', k) = last(notices, k)
      OBVIOUS
    <3>c. PICK c : c = CHOOSE i \in before(notices, k) : \A o \in before(notices, k) : o <= i
      OBVIOUS
    <3>1. c \in before(notices, k)
      <4>2. \E i \in before(notices, k) : \A o \in before(notices, k) : o <= i
        BY <2>1
      <4> HIDE DEF before
      <4> QED
        BY <3>c, <4>2
    <3>2. notices'[c] = notices[c]
      BY <2>2, <3>1
    <3> QED
      BY <2>3, <3>c, <3>2
  <2> HIDE DEF before, last
  <2> QED
    BY <2>1, <2>2, <2>3, <2>4
<1>4. Fine(notices', Len(notices) + 1, ops) /\ HasLast(notices', Len(notices) + 1)
  <2> DEFINE L == Len(notices) + 1
  <2>1. before(notices', L) = B
    BY <1>1
  <2>2. CASE B = {}
    <3> HIDE DEF before, last
    <3> QED
      BY <1>1, <2>1, <2>2
  <2>3. CASE B # {}
    <3>1. PICK i \in B : /\ \A o \in B : o <= i
                         /\ e.event = "recovered" => notices[i].event = "down"
                         /\ ops = 0 /\ RenotifyEvery = 0 /\ notices[i].event = "down" => e.event = "recovered"
      BY <2>3
    <3>2. B \subseteq 1..Len(notices)
      BY <1>1
    <3>3. ASSUME NEW c \in B, \A o \in B : o <= c
          PROVE  c = i
      BY <3>1, <3>2, <3>3
    <3>4. (CHOOSE c \in before(notices', L) : \A o \in before(notices', L) : o <= c) = i
      <4> HIDE DEF before
      <4>1. i \in before(notices', L) /\ \A o \in before(notices', L) : o <= i
        BY <2>1, <3>1
      <4>2. \A c \in before(notices', L) : (\A o \in before(notices', L) : o <= c) => c = i
        BY <2>1, <3>3
      <4> QED
        BY <4>1, <4>2
    <3>5. last(notices', L) = notices[i].event
      <4>1. notices'[i] = notices[i]
        BY <1>1, <3>2
      <4> HIDE DEF before
      <4> QED
        BY <3>4, <4>1
    <3>6. e.event \in {"down", "recovered"} /\ notices[i].event \in {"down", "recovered"}
      <4>1. i \in DOMAIN notices
        BY <1>1, <3>2
      <4>2. notices[i] \in MonNotice
        BY <4>1
      <4> QED
        BY <4>2 DEF MonNotice
    <3> HIDE DEF before, last
    <3> QED
      BY <1>1, <2>1, <2>3, <3>1, <3>5, <3>6
  <2> QED
    BY <2>2, <2>3
<1>5. \A k \in DOMAIN notices' : Fine(notices', k, ops') /\ HasLast(notices', k)
  <2>1. \A k \in DOMAIN notices' : k \in 1..Len(notices) \/ k = Len(notices) + 1
    BY <1>1
  <2> HIDE DEF Fine, HasLast
  <2> QED
    BY <1>3, <1>4, <2>1
<1> QED
  BY <1>5 DEF M!NoticesPaired, EachHasLast

\* The alert a loop sends fits those it sent.
LEMMA AlertFits ==
    ASSUME MonInv, NEW j \in DOMAIN jobs, NEW e \in MonNotice, e.by = j, e.mon = jobs[j].mon, jobs[j].at = "notify",
           notices' = Append(notices, e), ops' = ops,
           e.event = "down" => (RenotifyEvery = 0 => ~jobs[j].alerted),
           e.event = "recovered" => jobs[j].alerted
    PROVE  M!NoticesPaired' /\ EachHasLast'
<1>1. M!NoticesPaired /\ EachHasLast /\ Remembers(j) /\ notices \in Seq(MonNotice)
  BY DEF MonInv, MonAlways, Sent, MonTypes
<1> DEFINE B == {i \in DOMAIN notices : notices[i].by = e.by /\ notices[i].mon = e.mon}
<1>2. B = By(j) /\ jobs[j].at \notin {"seed", "end"}
  BY <1>1 DEF By, Remembers
<1>3. e.event \in {"down", "recovered"} /\ \A i \in B : notices[i].event \in {"down", "recovered"}
  <2>1. \A i \in B : notices[i] \in MonNotice
    BY <1>1
  <2> QED
    BY <2>1 DEF MonNotice
<1>k. ops = 0 => jobs[j].kind = "loop"
  BY MutedAtFirst
<1> HIDE DEF B
<1>4. ASSUME B # {}
      PROVE  \E i \in B : /\ \A o \in B : o <= i
                          /\ e.event = "recovered" => notices[i].event = "down"
                          /\ ops = 0 /\ RenotifyEvery = 0 /\ notices[i].event = "down" => e.event = "recovered"
  <2>1. PICK i \in B : /\ \A o \in B : o <= i
                       /\ jobs[j].alerted => notices[i].event = "down"
                       /\ ops = 0 /\ notices[i].event = "down" => jobs[j].alerted
    BY <1>1, <1>2, <1>4 DEF Remembers
  <2> QED
    BY <1>3, <2>1
<1>5. B = {} /\ ops = 0 /\ RenotifyEvery = 0 => e.event = "down"
  <2>1. B = {} /\ ops = 0 => ~jobs[j].alerted
    BY <1>1, <1>2 DEF Remembers
  <2> QED
    BY <1>3, <2>1
<1>6. B = {i \in DOMAIN notices : notices[i].by = e.by /\ notices[i].mon = e.mon}
  BY DEF B
<1> QED
  BY <1>1, <1>4, <1>5, <1>6, PairedAppend

\* Notify: the loop remembers the alert it sends.
LEMMA StepNotify ==
    ASSUME MonInv, M!Noted, NEW j \in DOMAIN jobs, M!Notify(j)
    PROVE  MonInv'
<1>1. MonTypes /\ Remembers(j) /\ MonAlways /\ Sent
  BY DEF MonInv, MonAlways, Sent
<1>2. PICK n \in Monitors : n = jobs[j].mon
  BY <1>1, JobTyped
<1>3. /\ jobs[j] \in MonJob /\ jobs[j].at = "notify" /\ jobs[j].kind \in {"loop", "check"} /\ jobs[j].fails \in Nat
  BY <1>1, JobTyped DEF M!Notify
<1>4. UNCHANGED <<rows, samples, incidents, loops, calls, now, ops, paused>>
  BY DEF M!Notify
<1>5. /\ rows' = rows /\ samples' = samples /\ ops' = ops /\ now' \in Nat /\ incidents' = incidents /\ paused' = paused /\ loops' = loops /\ calls' = calls
      /\ rows' \in [Monitors -> MonRow] /\ samples' \in [Monitors -> Seq(BOOLEAN)] /\ incidents' \subseteq Incident
      /\ paused' \subseteq Monitors
  BY <1>1, <1>4 DEF MonTypes
<1> DEFINE send == M!Fired(jobs[j]).send
           fired == M!Fired(jobs[j]).job
           e == [mon |-> n, event |-> send, by |-> j]
<1>6. /\ send \in {"none", "down", "recovered"} /\ fired \in MonJob
      /\ fired.mon = n /\ fired.kind = jobs[j].kind /\ fired.fails = jobs[j].fails /\ fired.dead = jobs[j].dead
      /\ send = "down" => fired.alerted /\ (RenotifyEvery = 0 => ~jobs[j].alerted)
      /\ send = "recovered" => jobs[j].alerted /\ ~fired.alerted
      /\ send = "none" => /\ fired.alerted => jobs[j].alerted
                          /\ jobs[j].seen.row.muted = 0 /\ jobs[j].alerted => fired.alerted
  BY <1>2, <1>3, FiredFits
<1>7. notices' = IF send = "none" THEN notices ELSE Append(notices, e)
  BY <1>2 DEF M!Notify
<1>8. \E x \in MonJob : /\ M!Put(j, x) /\ x.mon = n /\ x.kind = jobs[j].kind /\ x.at \in {"wait", "get", "end"} /\ (x.kind = "check" => x.at = "end")
                        /\ x.at = "end" => x.dead
                        /\ x.seen = M!NothingRead
                        /\ x.kind = "loop" => /\ x.at # "end" /\ (x.dead <=> jobs[j].dead) /\ (x.alerted <=> fired.alerted) /\ x.fails = jobs[j].fails
                                              /\ ~jobs[j].dead => x.at = "wait"
  <2>1. CASE jobs[j].kind = "check"
    <3>1. M!Put(j, M!Over(jobs[j]))
      BY <2>1 DEF M!Notify, M!Finish
    <3> QED
      BY <1>2, <1>3, <2>1, <3>1, JobEnds
  <2>2. CASE jobs[j].kind = "loop"
    <3>1. PICK at \in M!Resumes(jobs[j]) : M!Put(j, [fired EXCEPT !.at = at, !.first = FALSE, !.seen = M!NothingRead])
      BY <2>2 DEF M!Notify
    <3>2. at \in {"wait", "get"} /\ (~jobs[j].dead => at = "wait")
      BY <3>1 DEF M!Resumes
    <3> DEFINE x == [fired EXCEPT !.at = at, !.first = FALSE, !.seen = M!NothingRead]
    <3> HIDE DEF fired
    <3>3. /\ x \in MonJob /\ x.mon = n /\ x.kind = jobs[j].kind /\ x.at = at /\ x.seen = M!NothingRead /\ x.dead = fired.dead
          /\ x.alerted = fired.alerted /\ x.fails = fired.fails
      BY <1>6, <3>2, MonNothing DEF MonJob, MonPlaces
    <3> HIDE DEF x
    <3>4. M!Put(j, x)
      BY <3>1 DEF x
    <3> QED
      BY <1>6, <2>2, <3>2, <3>3, <3>4
  <2> QED
    BY <1>3, <2>1, <2>2
<1> HIDE DEF send, fired
<1>9. PICK x \in MonJob : /\ M!Put(j, x) /\ x.mon = n /\ x.kind = jobs[j].kind /\ x.at \in {"wait", "get", "end"} /\ (x.kind = "check" => x.at = "end")
                          /\ x.at = "end" => x.dead
                          /\ x.seen = M!NothingRead
                          /\ x.kind = "loop" => /\ x.at # "end" /\ (x.dead <=> jobs[j].dead) /\ (x.alerted <=> fired.alerted) /\ x.fails = jobs[j].fails
                                                /\ ~jobs[j].dead => x.at = "wait"
  BY <1>8
<1>10. jobs'[j] = x /\ DOMAIN jobs' = DOMAIN jobs
  BY <1>1, <1>9, JobPut
<1>11. j \in Nat /\ notices \in Seq(MonNotice)
  BY <1>1 DEF MonTypes
<1>12. ASSUME send # "none"
       PROVE  /\ e \in MonNotice /\ e.by = j /\ e.mon = n /\ e.event = send /\ notices' = Append(notices, e)
              /\ notices' \in Seq(MonNotice)
  BY <1>6, <1>7, <1>11, <1>12 DEF MonNotice
<1> HIDE DEF e
<1>13. M!NoticesPaired' /\ EachHasLast' /\ notices' \in Seq(MonNotice)
  <2>1. CASE send = "none"
    BY <1>1, <1>5, <1>7, <1>11, <2>1, PairedStays DEF MonAlways
  <2>2. CASE send # "none"
    BY <1>2, <1>3, <1>5, <1>6, <1>12, <2>2, AlertFits
  <2> QED
    BY <2>1, <2>2
<1>14. Remembers(j)'
  <2>1. CASE send = "none"
    <3>1. By(j)' = By(j) /\ notices' = notices
      BY <1>7, <2>1 DEF By
    <3>2. ops = 0 => jobs[j].kind = "loop" /\ jobs[j].seen.row.muted = 0
      BY MutedAtFirst
    <3>3. /\ \A i \in By(j) : notices[i].mon = n
          /\ jobs[j].kind = "check" => By(j) = {}
          /\ By(j) # {} => \E i \in By(j) : /\ \A o \in By(j) : o <= i
                                            /\ jobs[j].alerted => notices[i].event = "down"
                                            /\ ops = 0 /\ notices[i].event = "down" => jobs[j].alerted
          /\ ops = 0 /\ By(j) = {} => ~jobs[j].alerted
      BY <1>1, <1>2, <1>3 DEF Remembers
    <3>4. /\ \A i \in By(j)' : notices'[i].mon = jobs'[j].mon
          /\ jobs'[j].at # "seed" /\ (jobs'[j].kind = "check" => jobs'[j].at = "end")
      BY <1>9, <1>10, <3>1, <3>3
    <3>5. jobs[j].kind = "loop" => /\ x.alerted => jobs[j].alerted
                                   /\ ops = 0 /\ jobs[j].alerted => x.alerted
      BY <1>6, <1>9, <2>1, <3>2
    <3>6. ASSUME By(j)' # {}
          PROVE  \E i \in By(j)' : /\ \A o \in By(j)' : o <= i
                                   /\ jobs'[j].at # "end" /\ jobs'[j].alerted => notices'[i].event = "down"
                                   /\ ops' = 0 /\ jobs'[j].at # "end" /\ notices'[i].event = "down" => jobs'[j].alerted
      <4>1. PICK i \in By(j) : /\ \A o \in By(j) : o <= i
                               /\ jobs[j].alerted => notices[i].event = "down"
                               /\ ops = 0 /\ notices[i].event = "down" => jobs[j].alerted
        BY <3>1, <3>3, <3>6
      <4>2. jobs[j].kind = "loop"
        BY <1>3, <3>1, <3>3, <3>6
      <4> QED
        BY <1>5, <1>10, <3>1, <3>5, <4>1, <4>2
    <3>7. ops' = 0 /\ By(j)' = {} /\ jobs'[j].at \notin {"seed", "end"} => ~jobs'[j].alerted
      BY <1>5, <1>10, <3>1, <3>2, <3>3, <3>5
    <3> QED
      BY <3>4, <3>6, <3>7 DEF Remembers
  <2>2. CASE send # "none"
    <3> DEFINE L == Len(notices) + 1
    <3>1. /\ Len(notices) \in Nat /\ L \in DOMAIN notices' /\ notices'[L] = e
          /\ DOMAIN notices' = 1..L /\ \A i \in DOMAIN notices : notices'[i] = notices[i]
          /\ \A i \in DOMAIN notices' : i \in DOMAIN notices \/ i = L
      BY <1>11, <1>12, <2>2
    <3>2. By(j)' = By(j) \cup {L}
      BY <1>12, <2>2, <3>1 DEF By
    <3> HIDE DEF L
    <3>3. \A i \in By(j)' : notices'[i].mon = jobs'[j].mon
      <4>1. \A i \in By(j) : i \in DOMAIN notices /\ notices[i].mon = n
        BY <1>1, <1>2 DEF Remembers, By
      <4> QED
        BY <1>9, <1>10, <1>12, <2>2, <3>1, <3>2, <4>1
    <3>4. \A o \in By(j)' : o <= L
      BY <3>1 DEF By
    <3>5. /\ jobs'[j].at # "end" /\ jobs'[j].alerted => notices'[L].event = "down"
          /\ notices'[L].event = "down" /\ jobs'[j].at # "end" => jobs'[j].alerted
      BY <1>3, <1>6, <1>9, <1>10, <1>12, <2>2, <3>1
    <3>6. jobs'[j].at # "seed" /\ (jobs'[j].kind = "check" => jobs'[j].at = "end")
      BY <1>9, <1>10
    <3> QED
      BY <3>2, <3>3, <3>4, <3>5, <3>6 DEF Remembers
  <2> QED
    BY <2>1, <2>2
<1>15. notices' = notices \/ \E y \in MonNotice : y.by = j /\ notices' = Append(notices, y)
  BY <1>7, <1>12
<1>16. x.seen.row.muted = 0 /\ x.at # "seed" /\ (x.kind = "check" => x.at # "wait")
  BY <1>9 DEF M!NothingRead, M!NoRow
<1>17. overlapped' \in BOOLEAN
  BY NotedTyped
<1>18. \A m \in Monitors : /\ rows'[m].here = rows[m].here /\ rows'[m].enabled = rows[m].enabled /\ rows'[m].muted = rows[m].muted
                           /\ m # n => /\ rows'[m] = rows[m] /\ M!Open(m)' = M!Open(m) /\ samples'[m] = samples[m]
                                       /\ m \in paused' <=> m \in paused
  <2>1. \A m \in Monitors : M!Open(m)' = M!Open(m)
    BY <1>5 DEF M!Open
  <2> QED
    BY <1>5, <2>1
<1>19. MonAlways'
  BY <1>1, <1>2, <1>4, <1>5, <1>9, <1>13, <1>14, <1>15, <1>16, <1>17, <1>18, JobAlways
<1>20. MonCalm => TickFits(j)
  BY <1>3 DEF MonCalm, Ticking
<1>21. MonCalm => ~Ticking(j)'
  BY <1>3, <1>9, <1>10, <1>20 DEF TickFits, Ticking
<1>22. MonCalm => (rows[n].here => LogFits(n)')
  BY <1>1, <1>2, <1>3, <1>4, <1>9, LogQuiet
<1>23. MonCalm /\ Unchecked /\ ~x.dead /\ rows[n].here => Streak(j)'
  <2> SUFFICES ASSUME MonCalm, Unchecked, ~x.dead, rows[n].here
               PROVE  Streak(j)'
    OBVIOUS
  <2>0. jobs[j].kind = "loop" /\ ~jobs[j].dead
    BY <1>3, <1>9 DEF Unchecked
  <2>1. PICK f \in Nat : f = jobs[j].fails
    BY <1>3
  <2>2. Streak(j)
    BY <1>2, <2>0 DEF MonCalm
  <2>3. M!Trailing(n, f)
    BY <1>2, <1>3, <2>1, <2>2 DEF Streak
  <2>4. M!Trailing(n, f)'
    BY <1>5, <2>3 DEF M!Trailing
  <2> QED
    BY <1>5, <1>9, <1>10, <2>0, <2>1, <2>4 DEF Streak, M!Trailing
<1>24. ASSUME ~overlapped'
       PROVE  MonCalm'
  BY <1>2, <1>5, <1>9, <1>18, <1>19, <1>21, <1>22, <1>23, <1>24, JobCalm
<1> QED
  BY <1>19, <1>24 DEF MonInv

\* A step that starts no job and sends nothing.
LEMMA MoveAlways ==
    ASSUME MonAlways,
           rows' \in [Monitors -> MonRow], samples' \in [Monitors -> Seq(BOOLEAN)], incidents' \subseteq Incident,
           jobs' \in Seq(MonJob), loops' \in [Monitors -> Nat], calls' \subseteq MonCall, IsFiniteSet(calls'), notices' = notices,
           now' \in Nat, ops' \in Nat, overlapped' \in BOOLEAN, paused' \subseteq Monitors,
           DOMAIN jobs' = DOMAIN jobs,
           \A k \in DOMAIN jobs :
              /\ jobs'[k].mon = jobs[k].mon /\ jobs'[k].kind = jobs[k].kind
              /\ jobs'[k].seen.row.muted = jobs[k].seen.row.muted \/ jobs'[k].seen = M!NothingRead
              /\ jobs'[k].at = "end" => jobs'[k].dead
              /\ jobs'[k].kind = "check" => jobs'[k].at \notin {"seed", "wait"}
              /\ \/ jobs'[k].at = "end"
                 \/ jobs'[k].at = jobs[k].at /\ (jobs'[k].alerted <=> jobs[k].alerted)
                 \/ jobs[k].at = "stop" /\ jobs'[k].at \in {"wait", "get"} /\ (jobs'[k].alerted <=> jobs[k].alerted),
           \A m \in Monitors : loops'[m] \in {0, loops[m]},
           ops' = 0 => /\ ops = 0 /\ rows' = rows
                       /\ \A c \in calls' : c.do \in {"reload", "start"} /\ (DOMAIN jobs = {} \/ \E d \in calls : d.mon = c.mon)
                       /\ \A c, d \in calls' : c.mon = d.mon => c = d
    PROVE  MonAlways'
<1>1. MonTypes /\ LoopsNamed /\ Sent /\ M!NoticesPaired /\ EachHasLast
  BY DEF MonAlways
<1>2. MonTypes'
  BY <1>1 DEF MonTypes
<1>3. LoopsNamed'
  <2>1. ASSUME NEW m \in Monitors, loops'[m] # 0
        PROVE  loops'[m] \in DOMAIN jobs' /\ jobs'[loops'[m]].mon = m /\ jobs'[loops'[m]].kind = "loop"
    <3>1. loops'[m] = loops[m]
      BY <2>1
    <3>2. loops[m] \in DOMAIN jobs /\ jobs[loops[m]].mon = m /\ jobs[loops[m]].kind = "loop"
      BY <1>1, <2>1, <3>1 DEF LoopsNamed
    <3> QED
      BY <3>1, <3>2
  <2> QED
    BY <2>1 DEF LoopsNamed
<1>4. Sent'
  <2>1. ASSUME NEW k \in DOMAIN jobs
        PROVE  Remembers(k)'
    <3>1. By(k)' = By(k) /\ notices' = notices /\ (ops' = 0 => ops = 0)
      BY DEF By
    <3>2. Remembers(k)
      BY <1>1 DEF Sent
    <3>3. \A i \in By(k)' : notices'[i].mon = jobs'[k].mon
      BY <3>1, <3>2 DEF Remembers
    <3>4. jobs'[k].at = "seed" \/ (jobs'[k].kind = "check" /\ jobs'[k].at # "end") => By(k)' = {}
      BY <3>1, <3>2 DEF Remembers
    <3>5. By(k)' # {} => \E i \in By(k)' : /\ \A o \in By(k)' : o <= i
                                           /\ jobs'[k].at # "end" /\ jobs'[k].alerted => notices'[i].event = "down"
                                           /\ ops' = 0 /\ jobs'[k].at # "end" /\ notices'[i].event = "down" => jobs'[k].alerted
      <4> SUFFICES ASSUME By(k) # {}
                   PROVE  \E i \in By(k) : /\ \A o \in By(k) : o <= i
                                           /\ jobs'[k].at # "end" /\ jobs'[k].alerted => notices[i].event = "down"
                                           /\ ops' = 0 /\ jobs'[k].at # "end" /\ notices[i].event = "down" => jobs'[k].alerted
        BY <3>1
      <4>0. jobs'[k].at # "end" => jobs[k].at # "end" /\ (jobs'[k].alerted <=> jobs[k].alerted)
        OBVIOUS
      <4>1. PICK i \in By(k) : /\ \A o \in By(k) : o <= i
                               /\ jobs[k].at # "end" /\ jobs[k].alerted => notices[i].event = "down"
                               /\ ops = 0 /\ jobs[k].at # "end" /\ notices[i].event = "down" => jobs[k].alerted
        BY <3>2 DEF Remembers
      <4> QED
        BY <3>1, <4>0, <4>1
    <3>6. ops' = 0 /\ By(k)' = {} /\ jobs'[k].at \notin {"seed", "end"} => ~jobs'[k].alerted
      BY <3>1, <3>2 DEF Remembers
    <3> QED
      BY <3>3, <3>4, <3>5, <3>6 DEF Remembers
  <2>2. \A i \in DOMAIN notices' : notices'[i].by \in DOMAIN jobs'
    BY <1>1 DEF Sent
  <2> QED
    BY <2>1, <2>2 DEF Sent
<1>5. M!NoticesPaired' /\ EachHasLast'
  BY <1>1, PairedStays
<1>6. ASSUME ops' = 0
      PROVE  OnlyBooted'
  <2>1. OnlyBooted /\ rows' = rows
    BY <1>6 DEF MonAlways
  <2>2. /\ \A c \in calls' : c.do \in {"reload", "start"} /\ \A k \in DOMAIN jobs' : jobs'[k].mon # c.mon
        /\ \A c, d \in calls' : c.mon = d.mon => c = d
        /\ \A k, l \in DOMAIN jobs' : jobs'[k].mon = jobs'[l].mon => k = l
    BY <1>6, <2>1 DEF OnlyBooted
  <2>3. ASSUME NEW k \in DOMAIN jobs
        PROVE  /\ jobs'[k].kind = "loop" /\ jobs'[k].seen.row.muted = 0
               /\ jobs'[k].at = "seed" => rows'[jobs'[k].mon].status = "unknown"
    <3>1. jobs[k].kind = "loop" /\ jobs[k].seen.row.muted = 0 /\ (jobs[k].at = "seed" => rows[jobs[k].mon].status = "unknown")
      BY <2>1 DEF OnlyBooted
    <3>2. /\ jobs'[k].mon = jobs[k].mon /\ jobs'[k].kind = jobs[k].kind
          /\ jobs'[k].seen.row.muted = jobs[k].seen.row.muted \/ jobs'[k].seen = M!NothingRead
          /\ jobs'[k].at = "seed" => jobs[k].at = "seed"
      OBVIOUS
    <3>3. M!NothingRead.row.muted = 0
      BY DEF M!NothingRead, M!NoRow
    <3> QED
      BY <2>1, <3>1, <3>2, <3>3
  <2>4. \A m \in Monitors : rows'[m].muted = 0 /\ ((\A k \in DOMAIN jobs' : jobs'[k].mon # m) => rows'[m].status = "unknown")
    <3>1. \A m \in Monitors : rows[m].muted = 0 /\ ((\A k \in DOMAIN jobs : jobs[k].mon # m) => rows[m].status = "unknown")
      BY <2>1 DEF OnlyBooted
    <3>2. \A k \in DOMAIN jobs : jobs'[k].mon = jobs[k].mon
      OBVIOUS
    <3>3. ASSUME NEW m \in Monitors
          PROVE  rows'[m].muted = 0 /\ ((\A k \in DOMAIN jobs' : jobs'[k].mon # m) => rows'[m].status = "unknown")
      <4>1. ASSUME \A k \in DOMAIN jobs' : jobs'[k].mon # m, NEW k \in DOMAIN jobs
            PROVE  jobs[k].mon # m
        <5>1. jobs'[k].mon # m
          BY <4>1
        <5> QED
          BY <3>2, <5>1
      <4>2. rows[m].muted = 0 /\ ((\A k \in DOMAIN jobs : jobs[k].mon # m) => rows[m].status = "unknown")
        BY <3>1
      <4> QED
        BY <2>1, <4>1, <4>2
    <3> QED
      BY <3>3
  <2> QED
    BY <2>2, <2>3, <2>4 DEF OnlyBooted
<1>7. jobs' = <<>> => (\A m \in Monitors : loops'[m] = 0) /\ notices' = <<>>
  <2>1. jobs' = <<>> => jobs = <<>>
    BY <1>1 DEF MonTypes
  <2> QED
    BY <2>1 DEF MonAlways
<1> QED
  BY <1>2, <1>3, <1>4, <1>5, <1>6, <1>7 DEF MonAlways

\* The same, while the only one at work on its monitor is the handler.
LEMMA MoveCalm ==
    ASSUME MonInv, MonAlways', M!Noted, ~overlapped', NEW n \in Monitors, DOMAIN jobs' = DOMAIN jobs, calls # {} \/ jobs # <<>>,
           \A k \in DOMAIN jobs :
              \/ jobs'[k] = jobs[k]
              \/ /\ jobs[k].mon = n /\ jobs'[k].mon = n /\ jobs'[k].kind = jobs[k].kind /\ jobs'[k].at = jobs[k].at
                 /\ jobs'[k].dead,
           \A m \in Monitors : m # n => /\ loops'[m] = loops[m] /\ rows'[m] = rows[m] /\ M!Open(m)' = M!Open(m) /\ samples'[m] = samples[m]
                                        /\ m \in paused' <=> m \in paused,
           \A c \in MonCall : c.mon # n => (c \in calls' <=> c \in calls),
           MonCalm => \/ \A k \in DOMAIN jobs : jobs[k].mon = n => ~Ticking(k)
                      \/ /\ rows'[n].here = rows[n].here /\ rows'[n].enabled = rows[n].enabled /\ rows'[n].status = rows[n].status
                         /\ jobs' = jobs,
           MonCalm /\ rows'[n].here => rows[n].here /\ samples'[n] = samples[n],
           MonCalm => LoopFits(n)',
           MonCalm /\ rows'[n].here => LogFits(n)',
           MonCalm => \A c \in calls' : c.mon = n => CallFits(c)'
    PROVE  MonCalm'
<1>1. MonCalm /\ MonTypes /\ MonTypes' /\ (\A m \in Monitors : MonAlone(m)') /\ ~overlapped
  BY CalmStep DEF MonInv, MonAlways
<1>2. calls \subseteq MonCall /\ calls' \subseteq MonCall /\ \A c \in MonCall : c.mon \in Monitors
  BY <1>1 DEF MonTypes, MonCall
<1>a. \A k \in DOMAIN jobs : jobs[k].mon \in Monitors /\ jobs'[k].mon = jobs[k].mon /\ jobs'[k].kind = jobs[k].kind /\ jobs'[k].at = jobs[k].at
  BY <1>1, JobTyped
<1>3. ASSUME NEW m \in Monitors, m # n
      PROVE  /\ M!Alive(m)' = M!Alive(m) /\ (M!Gone(m)' <=> M!Gone(m)) /\ (Steady(m) => Steady(m)')
             /\ Within(m)' = Within(m) /\ \A k \in Within(m) : jobs'[k] = jobs[k]
  <2>1. \A k \in DOMAIN jobs : jobs[k].mon = m => jobs'[k] = jobs[k]
    BY <1>3
  <2>2. M!Alive(m)' = M!Alive(m)
    BY <1>a, <2>1 DEF M!Alive
  <2>3. Within(m)' = Within(m) /\ \A k \in Within(m) : jobs'[k] = jobs[k]
    BY <1>a, <2>1 DEF Within
  <2>4. M!Gone(m)' <=> M!Gone(m)
    BY <1>3 DEF M!Gone
  <2> QED
    BY <1>3, <2>2, <2>3, <2>4 DEF Steady
<1>4. ASSUME NEW m \in Monitors
      PROVE  LoopFits(m)'
  <2>1. CASE m = n
    BY <1>1, <2>1
  <2>2. CASE m # n
    <3>1. LoopFits(m) /\ M!Alive(m)' = M!Alive(m) /\ loops'[m] = loops[m] /\ (Steady(m) => Steady(m)')
      BY <1>1, <1>3, <2>2 DEF MonCalm
    <3>2. (\A c \in calls' : c.mon = m => c.do \notin {"reload", "stop", "start"}) => \A c \in calls : c.mon = m => c.do \notin {"reload", "stop", "start"}
      BY <1>2, <2>2
    <3> QED
      BY <3>1, <3>2 DEF LoopFits
  <2> QED
    BY <2>1, <2>2
<1>5. ASSUME NEW m \in Monitors, rows'[m].here
      PROVE  LogFits(m)'
  <2>1. CASE m = n
    BY <1>1, <1>5, <2>1
  <2>2. CASE m # n
    <3>1. /\ LogFits(m) /\ M!Open(m)' = M!Open(m) /\ (m \in paused' <=> m \in paused) /\ rows'[m] = rows[m]
          /\ Within(m)' = Within(m) /\ \A k \in Within(m) : jobs'[k] = jobs[k]
      BY <1>1, <1>3, <1>5, <2>2 DEF MonCalm
    <3>2. Fits(m, rows[m].status) => Fits(m, rows[m].status)'
      BY <3>1 DEF Fits
    <3>3. \A k \in Within(m) : Fits(m, jobs[k].seen.row.status) => Fits(m, jobs[k].seen.row.status)'
      BY <3>1 DEF Fits
    <3> QED
      BY <3>1, <3>2, <3>3 DEF LogFits
  <2> QED
    BY <2>1, <2>2
<1>6. ASSUME NEW c \in calls'
      PROVE  CallFits(c)'
  <2>1. CASE c.mon = n
    BY <1>1, <1>6, <2>1
  <2>2. CASE c.mon # n
    <3>1. c \in calls /\ c.mon \in Monitors
      BY <1>2, <1>6, <2>2
    <3>2. CallFits(c)
      BY <1>1, <3>1 DEF MonCalm
    <3>3. M!Alive(c.mon)' = M!Alive(c.mon) /\ (M!Gone(c.mon)' <=> M!Gone(c.mon)) /\ rows'[c.mon] = rows[c.mon] /\ loops'[c.mon] = loops[c.mon]
      BY <1>3, <2>2, <3>1
    <3> QED
      BY <3>2, <3>3 DEF CallFits
  <2> QED
    BY <2>1, <2>2
<1>7. ASSUME NEW k \in DOMAIN jobs', Ticking(k)'
      PROVE  TickFits(k)'
  <2>1. Ticking(k)
    BY <1>7, <1>a DEF Ticking
  <2>2. TickFits(k)
    BY <1>1, <1>7, <2>1 DEF MonCalm
  <2>m. PICK m \in Monitors : m = jobs[k].mon
    BY <1>7, <1>a
  <2>3. CASE m # n
    <3>1. rows'[m] = rows[m] /\ jobs'[k] = jobs[k] /\ (M!Gone(m)' <=> M!Gone(m))
      BY <1>3, <1>7, <2>m, <2>3
    <3> QED
      BY <2>2, <2>m, <3>1 DEF TickFits
  <2>4. CASE m = n
    <3>1. rows'[n].here = rows[n].here /\ rows'[n].enabled = rows[n].enabled /\ rows'[n].status = rows[n].status /\ jobs' = jobs
      BY <1>1, <1>7, <2>1, <2>m, <2>4
    <3>2. M!Gone(n)' <=> M!Gone(n)
      BY <3>1 DEF M!Gone
    <3>3. jobs'[k] = jobs[k] /\ jobs[k].mon = n
      BY <2>m, <2>4, <3>1
    <3> QED
      BY <2>2, <3>1, <3>2, <3>3 DEF TickFits
  <2> QED
    BY <2>3, <2>4
<1>8. ASSUME Unchecked', NEW k \in DOMAIN jobs', ~jobs'[k].dead, rows'[jobs'[k].mon].here
      PROVE  Streak(k)'
  <2>0. Unchecked
    BY <1>8, <1>a DEF Unchecked
  <2>1. jobs'[k] = jobs[k]
    BY <1>8
  <2>m. PICK m \in Monitors : m = jobs[k].mon
    BY <1>8, <1>a
  <2>2. samples'[m] = samples[m] /\ rows[m].here
    BY <1>1, <1>8, <2>1, <2>m
  <2>3. Streak(k)
    BY <1>1, <1>8, <2>0, <2>1, <2>2, <2>m DEF MonCalm
  <2> QED
    BY <2>1, <2>2, <2>3, <2>m DEF Streak, M!Trailing, M!Changed
<1> QED
  BY <1>1, <1>4, <1>5, <1>6, <1>7, <1>8 DEF MonCalm

\* Stop cancels the loop it knows.
LEMMA CancelledFits ==
    ASSUME MonTypes, LoopsNamed, NEW m \in Monitors
    PROVE  /\ M!Cancelled(m) \in Seq(MonJob) /\ DOMAIN M!Cancelled(m) = DOMAIN jobs
           /\ \A k \in DOMAIN jobs : \/ M!Cancelled(m)[k] = jobs[k] /\ k # loops[m]
                                     \/ /\ k = loops[m] /\ jobs[k].mon = m /\ jobs[k].kind = "loop"
                                        /\ M!Cancelled(m)[k].mon = m /\ M!Cancelled(m)[k].kind = "loop" /\ M!Cancelled(m)[k].at = jobs[k].at
                                        /\ M!Cancelled(m)[k].alerted = jobs[k].alerted /\ M!Cancelled(m)[k].seen = jobs[k].seen
                                        /\ M!Cancelled(m)[k].dead
           /\ loops[m] = 0 => M!Cancelled(m) = jobs
<1>1. jobs \in Seq(MonJob) /\ loops \in [Monitors -> Nat] /\ \A k \in DOMAIN jobs : jobs[k] \in MonJob /\ k # 0
  BY DEF MonTypes
<1>2. CASE loops[m] = 0
  BY <1>1, <1>2 DEF M!Cancelled
<1>3. CASE loops[m] # 0
  <2>1. PICK l \in DOMAIN jobs : l = loops[m] /\ jobs[l].mon = m /\ jobs[l].kind = "loop"
    BY <1>3 DEF LoopsNamed
  <2> DEFINE x == [jobs[l] EXCEPT !.dead = TRUE]
  <2>2. M!Cancelled(m) = [jobs EXCEPT ![l] = x]
    BY <1>3, <2>1 DEF M!Cancelled
  <2>3. x \in MonJob /\ x.mon = m /\ x.kind = "loop" /\ x.at = jobs[l].at /\ x.alerted = jobs[l].alerted /\ x.seen = jobs[l].seen /\ x.dead
    BY <1>1, <2>1 DEF MonJob
  <2> HIDE DEF x
  <2>4. /\ [jobs EXCEPT ![l] = x] \in Seq(MonJob) /\ DOMAIN [jobs EXCEPT ![l] = x] = DOMAIN jobs
        /\ [jobs EXCEPT ![l] = x][l] = x /\ \A k \in DOMAIN jobs : k # l => [jobs EXCEPT ![l] = x][k] = jobs[k]
    BY <1>1, <2>3
  <2> QED
    BY <1>3, <2>1, <2>2, <2>3, <2>4
<1> QED
  BY <1>2, <1>3

\* StopOwn keeps what always holds.
LEMMA StopOwnAlways ==
    ASSUME MonInv, M!Noted, NEW j \in DOMAIN jobs, M!StopOwn(j)
    PROVE  MonAlways'
<1>1. MonTypes /\ LoopsNamed /\ MonAlways
  BY DEF MonInv, MonAlways
<1>2. PICK n \in Monitors : n = jobs[j].mon
  BY <1>1, JobTyped
<1>3. jobs[j] \in MonJob /\ jobs[j].at = "stop" /\ jobs[j].kind \in {"loop", "check"}
  BY <1>1, JobTyped DEF M!StopOwn
<1> DEFINE s == M!Cancelled(n)
<1>4. /\ s \in Seq(MonJob) /\ DOMAIN s = DOMAIN jobs
      /\ \A k \in DOMAIN jobs : \/ s[k] = jobs[k]
                                \/ /\ s[k].mon = jobs[k].mon /\ s[k].kind = jobs[k].kind /\ s[k].at = jobs[k].at
                                   /\ s[k].alerted = jobs[k].alerted /\ s[k].seen = jobs[k].seen /\ s[k].dead
  BY <1>1, CancelledFits
<1>5. /\ loops' = [loops EXCEPT ![n] = 0]
      /\ UNCHANGED <<rows, samples, incidents, calls, notices, now, ops, paused>>
      /\ IF jobs[j].kind = "loop" /\ jobs[j].first
         THEN \E at \in M!Resumes(s[j]) : jobs' = [s EXCEPT ![j].at = at, ![j].first = FALSE]
         ELSE jobs' = [s EXCEPT ![j] = M!Over(jobs[j])]
  BY <1>2 DEF M!StopOwn
<1> HIDE DEF s
<1>6. \E x \in MonJob : /\ jobs' = [s EXCEPT ![j] = x] /\ x.mon = n /\ x.kind = jobs[j].kind
                        /\ x.seen = jobs[j].seen \/ x.seen = M!NothingRead
                        /\ \/ x.at = "end" /\ x.dead
                           \/ x.kind = "loop" /\ x.at \in {"wait", "get"} /\ x.alerted = jobs[j].alerted
  <2>1. CASE jobs[j].kind = "loop" /\ jobs[j].first
    <3>1. PICK at \in M!Resumes(s[j]) : jobs' = [s EXCEPT ![j].at = at, ![j].first = FALSE]
      BY <1>5, <2>1
    <3>2. at \in {"wait", "get"}
      BY <3>1 DEF M!Resumes
    <3>3. s[j] \in MonJob /\ s[j].mon = n /\ s[j].kind = jobs[j].kind /\ s[j].seen = jobs[j].seen /\ s[j].alerted = jobs[j].alerted
      BY <1>2, <1>4
    <3> DEFINE x == [s[j] EXCEPT !.at = at, !.first = FALSE]
    <3>4. jobs' = [s EXCEPT ![j] = x]
      BY <1>4, <3>1, <3>3 DEF MonJob
    <3>5. x \in MonJob /\ x.mon = n /\ x.kind = jobs[j].kind /\ x.seen = jobs[j].seen /\ x.at = at /\ x.alerted = jobs[j].alerted
      BY <3>2, <3>3 DEF MonJob, MonPlaces
    <3> HIDE DEF x
    <3> QED
      BY <2>1, <3>2, <3>4, <3>5
  <2>2. CASE ~(jobs[j].kind = "loop" /\ jobs[j].first)
    BY <1>2, <1>3, <1>5, <2>2, JobEnds
  <2> QED
    BY <2>1, <2>2
<1>7. PICK x \in MonJob : /\ jobs' = [s EXCEPT ![j] = x] /\ x.mon = n /\ x.kind = jobs[j].kind
                          /\ x.seen = jobs[j].seen \/ x.seen = M!NothingRead
                          /\ \/ x.at = "end" /\ x.dead
                             \/ x.kind = "loop" /\ x.at \in {"wait", "get"} /\ x.alerted = jobs[j].alerted
  BY <1>6
<1>8. /\ jobs' \in Seq(MonJob) /\ DOMAIN jobs' = DOMAIN jobs /\ jobs'[j] = x /\ \A k \in DOMAIN jobs : k # j => jobs'[k] = s[k]
  BY <1>4, <1>7
<1>9. ASSUME NEW k \in DOMAIN jobs
      PROVE  /\ jobs'[k].mon = jobs[k].mon /\ jobs'[k].kind = jobs[k].kind
             /\ jobs'[k].seen.row.muted = jobs[k].seen.row.muted \/ jobs'[k].seen = M!NothingRead
             /\ jobs'[k].at = "end" => jobs'[k].dead
             /\ jobs'[k].kind = "check" => jobs'[k].at \notin {"seed", "wait"}
             /\ \/ jobs'[k].at = "end"
                \/ jobs'[k].at = jobs[k].at /\ (jobs'[k].alerted <=> jobs[k].alerted)
                \/ jobs[k].at = "stop" /\ jobs'[k].at \in {"wait", "get"} /\ (jobs'[k].alerted <=> jobs[k].alerted)
  <2>1. CASE k = j
    BY <1>2, <1>3, <1>7, <1>8, <2>1
  <2>2. CASE k # j
    <3>1. (jobs[k].at = "end" => jobs[k].dead) /\ (jobs[k].kind = "check" => jobs[k].at \notin {"seed", "wait"})
      BY <1>1 DEF LoopsNamed
    <3> QED
      BY <1>4, <1>8, <2>2, <3>1
  <2> QED
    BY <2>1, <2>2
<1>10. /\ rows' \in [Monitors -> MonRow] /\ samples' \in [Monitors -> Seq(BOOLEAN)] /\ incidents' \subseteq Incident
       /\ loops' \in [Monitors -> Nat] /\ calls' \subseteq MonCall /\ IsFiniteSet(calls') /\ notices' = notices /\ rows' = rows /\ calls' = calls
       /\ now' \in Nat /\ ops' \in Nat /\ paused' \subseteq Monitors /\ ops' = ops /\ \A m \in Monitors : loops'[m] \in {0, loops[m]}
  BY <1>1, <1>5 DEF MonTypes
<1>11. overlapped' \in BOOLEAN
  BY NotedTyped
<1>12. ops' = 0 => /\ ops = 0 /\ rows' = rows
                   /\ \A c \in calls' : c.do \in {"reload", "start"} /\ \E d \in calls : d.mon = c.mon
                   /\ \A c, d \in calls' : c.mon = d.mon => c = d
  BY <1>1, <1>10 DEF MonAlways, OnlyBooted
<1> QED
  BY <1>1, <1>8, <1>9, <1>10, <1>11, <1>12, MoveAlways

\* StopOwn: the loop of a monitor that is gone ends.
LEMMA StepStopOwn ==
    ASSUME MonInv, M!Noted, NEW j \in DOMAIN jobs, M!StopOwn(j)
    PROVE  MonInv'
<1>1. MonTypes /\ LoopsNamed /\ MonAlways
  BY DEF MonInv, MonAlways
<1>2. PICK n \in Monitors : n = jobs[j].mon
  BY <1>1, JobTyped
<1>3. jobs[j] \in MonJob /\ jobs[j].at = "stop" /\ jobs[j].kind \in {"loop", "check"} /\ Ticking(j) /\ jobs # <<>>
  BY <1>1, JobTyped DEF M!StopOwn, Ticking
<1>4. MonAlways'
  BY StopOwnAlways
<1>5. ASSUME ~overlapped'
      PROVE  MonCalm'
  <2>1. MonCalm
    BY <1>1, <1>4, <1>5, CalmStep DEF MonInv, MonAlways
  <2>2. TickFits(j) /\ MonAlone(n) /\ LoopFits(n)
    BY <1>2, <1>3, <2>1 DEF MonCalm
  <2>3. jobs[j].kind = "check" /\ M!Gone(n) /\ rows[n].here
    BY <1>2, <1>3, <2>2 DEF TickFits
  <2>4. \A c \in calls : c.mon # n
    BY <1>2, <1>3, <2>2 DEF MonAlone
  <2>5. loops[n] = 0
    BY <1>3, <2>2, <2>3, <2>4 DEF LoopFits, Steady
  <2>6. loops' = loops
    BY <1>1, <1>2, <2>5 DEF M!StopOwn, MonTypes
  <2> DEFINE x == M!Over(jobs[j])
  <2>7. M!Put(j, x)
    BY <1>1, <1>2, <2>3, <2>5, CancelledFits DEF M!StopOwn, M!Put
  <2>8. x \in MonJob /\ x.mon = n /\ x.kind = "check" /\ x.dead /\ x.at = "end"
    BY <1>2, <1>3, <2>3, JobEnds
  <2> HIDE DEF x
  <2>9. UNCHANGED <<rows, samples, incidents, calls, notices, now, ops, paused>>
    BY DEF M!StopOwn
  <2>10. \A m \in Monitors : /\ rows'[m].here = rows[m].here /\ rows'[m].enabled = rows[m].enabled
                             /\ m # n => /\ rows'[m] = rows[m] /\ M!Open(m)' = M!Open(m) /\ samples'[m] = samples[m]
                                         /\ m \in paused' <=> m \in paused
    <3>1. \A m \in Monitors : M!Open(m)' = M!Open(m)
      BY <2>9 DEF M!Open
    <3> QED
      BY <2>9, <3>1
  <2>11. LogFits(n)'
    BY <1>1, <1>2, <1>3, <2>1, <2>3, <2>7, <2>8, <2>9, LogQuiet
  <2>12. jobs'[j] = x
    BY <1>1, <2>7, <2>8, JobPut
  <2>13. ~Ticking(j)'
    BY <2>8, <2>12 DEF Ticking
  <2>14. samples' = samples /\ rows' = rows /\ loops' = loops /\ calls' = calls
    BY <2>6, <2>9
  <2> QED
    BY <1>2, <1>4, <1>5, <2>3, <2>7, <2>8, <2>10, <2>11, <2>13, <2>14, JobCalm
<1> QED
  BY <1>4, <1>5 DEF MonInv

\* A step of a handler that leaves the jobs alone.
LEMMA MonCallStep ==
    ASSUME MonInv, M!Noted, NEW n \in Monitors, NEW c \in calls \cup calls', c.mon = n,
           UNCHANGED <<jobs, loops, notices, now>>,
           rows' \in [Monitors -> MonRow], samples' \in [Monitors -> Seq(BOOLEAN)], incidents' \subseteq Incident,
           paused' \subseteq Monitors, calls' \subseteq MonCall, IsFiniteSet(calls'), ops' \in Nat, ops' # 0, calls # {} \/ jobs # <<>>,
           \A m \in Monitors : m # n => /\ rows'[m] = rows[m] /\ M!Open(m)' = M!Open(m) /\ samples'[m] = samples[m]
                                        /\ m \in paused' <=> m \in paused,
           \A d \in MonCall : d.mon # n => (d \in calls' <=> d \in calls),
           MonCalm /\ rows'[n].here => rows[n].here /\ samples'[n] = samples[n],
           MonCalm => LoopFits(n)',
           MonCalm /\ rows'[n].here /\ LogFits(n) /\ Fits(n, rows[n].status) => (\A i, k \in M!Open(n)' : i = k) /\ Fits(n, rows[n].status)',
           MonCalm => \A d \in calls' : d.mon = n => CallFits(d)'
    PROVE  MonInv'
<1>1. jobs' = jobs /\ loops' = loops /\ notices' = notices /\ now' = now
  OBVIOUS
<1>2. MonTypes /\ MonAlways /\ LoopsNamed
  BY DEF MonInv, MonAlways
<1>3. /\ jobs' \in Seq(MonJob) /\ loops' \in [Monitors -> Nat] /\ notices' = notices /\ now' \in Nat /\ overlapped' \in BOOLEAN
      /\ DOMAIN jobs' = DOMAIN jobs /\ \A m \in Monitors : loops'[m] \in {0, loops[m]}
  BY <1>1, <1>2, NotedTyped DEF MonTypes
<1>4. MonAlways'
  <2>1. \A k \in DOMAIN jobs :
              /\ jobs'[k].mon = jobs[k].mon /\ jobs'[k].kind = jobs[k].kind
              /\ jobs'[k].seen.row.muted = jobs[k].seen.row.muted \/ jobs'[k].seen = M!NothingRead
              /\ jobs'[k].at = "end" => jobs'[k].dead
              /\ jobs'[k].kind = "check" => jobs'[k].at \notin {"seed", "wait"}
              /\ \/ jobs'[k].at = "end"
                 \/ jobs'[k].at = jobs[k].at /\ (jobs'[k].alerted <=> jobs[k].alerted)
                 \/ jobs[k].at = "stop" /\ jobs'[k].at \in {"wait", "get"} /\ (jobs'[k].alerted <=> jobs[k].alerted)
    BY <1>1, <1>2 DEF LoopsNamed
  <2> QED
    BY <1>2, <1>3, <2>1, MoveAlways
<1>5. ASSUME ~overlapped'
      PROVE  MonCalm'
  <2>1. MonCalm /\ \A m \in Monitors : MonAlone(m)'
    BY <1>4, <1>5, CalmStep DEF MonInv, MonAlways
  <2>2. \A k \in DOMAIN jobs : jobs[k].mon = n => ~Ticking(k)
    <3>1. CASE c \in calls
      BY <2>1, <3>1 DEF MonCalm, MonAlone
    <3>2. CASE c \in calls'
      <4>1. \A k \in DOMAIN jobs' : jobs'[k].mon = n => ~Ticking(k)'
        BY <2>1, <3>2 DEF MonAlone
      <4> QED
        BY <1>1, <4>1 DEF Ticking
    <3> QED
      BY <3>1, <3>2
  <2>3. rows'[n].here => LogFits(n)'
    <3> SUFFICES ASSUME rows'[n].here
                 PROVE  LogFits(n)'
      OBVIOUS
    <3>1. LogFits(n)
      BY <2>1 DEF MonCalm
    <3>2. Within(n) = {} /\ Within(n)' = {}
      BY <1>1, <2>2 DEF Within, Ticking
    <3>3. Fits(n, rows[n].status)
      BY <3>1, <3>2 DEF LogFits
    <3>4. (\A i, k \in M!Open(n)' : i = k) /\ Fits(n, rows[n].status)'
      BY <2>1, <3>1, <3>3
    <3> QED
      BY <3>2, <3>4 DEF LogFits
  <2>4. \A k \in DOMAIN jobs : jobs'[k] = jobs[k]
    BY <1>1
  <2>5. \A m \in Monitors : m # n => /\ loops'[m] = loops[m] /\ rows'[m] = rows[m] /\ M!Open(m)' = M!Open(m) /\ samples'[m] = samples[m]
                                     /\ m \in paused' <=> m \in paused
    BY <1>1
  <2> QED
    BY <1>3, <1>4, <1>5, <2>1, <2>2, <2>3, <2>4, <2>5, MoveCalm
<1> QED
  BY <1>4, <1>5 DEF MonInv

\* A request that begins is alone at its monitor, or overlaps.
LEMMA StepAsk ==
    ASSUME MonInv, M!Noted, NEW n \in Monitors, rows[n].here, NEW do \in {"put", "pause", "resume", "delete"}, NEW threshold \in Nat,
           NEW enabled \in BOOLEAN, M!Ask(do, n, threshold, enabled)
    PROVE  MonInv'
<1>1. MonTypes
  BY DEF MonInv, MonAlways
<1> DEFINE row == IF do = "put" THEN rows[n] ELSE M!NoRow
           asked == [do |-> do, mon |-> n, row |-> row, enabled |-> enabled, threshold |-> threshold]
<1>2. row \in MonRow
  BY <1>1, MonNothing DEF MonTypes
<1>3. /\ calls' = calls \cup {asked} /\ ops' = ops + 1 /\ jobs # <<>>
      /\ UNCHANGED <<rows, samples, incidents, loops, jobs, notices, now, paused>>
  BY DEF M!Ask, M!MayAsk
<1> HIDE DEF row
<1>a. asked \in MonCall /\ asked.mon = n /\ asked.do = do
  BY <1>2 DEF MonCall
<1> HIDE DEF asked
<1>4. PICK c \in MonCall : c = asked /\ c.mon = n /\ c.do = do
  BY <1>a
<1>5. /\ rows' = rows /\ samples' = samples /\ incidents' = incidents /\ loops' = loops /\ jobs' = jobs /\ paused' = paused
      /\ rows' \in [Monitors -> MonRow] /\ samples' \in [Monitors -> Seq(BOOLEAN)] /\ incidents' \subseteq Incident
      /\ paused' \subseteq Monitors /\ calls' \subseteq MonCall /\ ops' \in Nat /\ ops' # 0 /\ IsFiniteSet(calls)
  BY <1>1, <1>3, <1>4 DEF MonTypes
<1>6. IsFiniteSet(calls')
  BY <1>3, <1>5, FS_AddElement
<1>7. \A m \in Monitors : M!Open(m)' = M!Open(m) /\ (M!Gone(m)' <=> M!Gone(m)) /\ M!Alive(m)' = M!Alive(m)
  BY <1>5 DEF M!Open, M!Gone, M!Alive
<1>8. \A m \in Monitors : Steady(m)' <=> Steady(m)
  BY <1>5, <1>7 DEF Steady
<1>9. MonCalm => LoopFits(n)'
  <2>1. MonCalm => LoopFits(n)
    BY DEF MonCalm
  <2>2. calls \subseteq calls'
    BY <1>3
  <2> QED
    BY <1>3, <1>5, <1>7, <1>8, <2>1, <2>2 DEF LoopFits
<1>10. Fits(n, rows[n].status) => Fits(n, rows[n].status)'
  BY <1>5, <1>7 DEF Fits
<1>11. LogFits(n) => \A i, k \in M!Open(n)' : i = k
  BY <1>7 DEF LogFits
<1>12. MonCalm => \A d \in calls' : d.mon = n => CallFits(d)'
  <2>1. CallFits(c)'
    BY <1>4, <1>5 DEF CallFits
  <2>2. ASSUME MonCalm, NEW d \in calls, d.mon = n
        PROVE  CallFits(d)'
    <3>1. CallFits(d)
      BY <2>2 DEF MonCalm
    <3> QED
      BY <1>5, <1>7, <2>2, <3>1 DEF CallFits
  <2> QED
    BY <1>3, <1>4, <2>1, <2>2
<1>13. c \in calls \cup calls' /\ \A d \in MonCall : d.mon # n => (d \in calls' <=> d \in calls)
  BY <1>3, <1>4
<1>14. \A m \in Monitors : m # n => /\ rows'[m] = rows[m] /\ M!Open(m)' = M!Open(m) /\ samples'[m] = samples[m]
                                    /\ m \in paused' <=> m \in paused
  BY <1>5, <1>7
<1>15. MonCalm /\ rows'[n].here => rows[n].here /\ samples'[n] = samples[n]
  BY <1>5
<1> QED
  BY <1>3, <1>4, <1>5, <1>6, <1>9, <1>10, <1>11, <1>12, <1>13, <1>14, <1>15, MonCallStep

\* What the second steps of the handlers share: the calls, and what the request may not have been.
LEMMA Handled ==
    ASSUME MonInv, NEW c \in calls, NEW d, d \in MonCall, d.mon = c.mon, calls' = (calls \ {c}) \cup {d} \/ calls' = calls \ {c}
    PROVE  /\ c \in MonCall /\ c.mon \in Monitors /\ rows[c.mon] \in MonRow /\ calls' \subseteq MonCall /\ IsFiniteSet(calls') /\ calls # {}
           /\ \A e \in MonCall : e.mon # c.mon => (e \in calls' <=> e \in calls)
           /\ c.do \notin {"reload", "start"} => ops # 0
           /\ MonCalm => \A e \in calls' : e.mon = c.mon => e = d
<1>1. MonTypes /\ (ops = 0 => OnlyBooted)
  BY DEF MonInv, MonAlways
<1>2. calls \subseteq MonCall /\ IsFiniteSet(calls) /\ rows \in [Monitors -> MonRow]
  BY <1>1 DEF MonTypes
<1>3. c \in MonCall /\ c.mon \in Monitors
  BY <1>2 DEF MonCall
<1>4. IsFiniteSet(calls \ {c})
  BY <1>2, FS_Subset
<1>5. IsFiniteSet((calls \ {c}) \cup {d})
  BY <1>4, FS_AddElement
<1>6. c.do \notin {"reload", "start"} => ops # 0
  BY <1>1 DEF OnlyBooted
<1>7. MonCalm => \A e \in calls : e.mon = c.mon => e = c
  BY <1>3 DEF MonCalm, MonAlone
<1> QED
  BY <1>2, <1>3, <1>4, <1>5, <1>6, <1>7

\* PutWrite: the reload that follows has the row that was written.
LEMMA StepPutWrite ==
    ASSUME MonInv, M!Noted, NEW c \in calls, M!PutWrite(c)
    PROVE  MonInv'
<1>1. MonTypes
  BY DEF MonInv, MonAlways
<1>2. c \in MonCall /\ c.mon \in Monitors /\ c.row \in MonRow /\ c.enabled \in BOOLEAN /\ c.threshold \in Nat /\ c.do = "put"
  BY <1>1 DEF MonTypes, MonCall, M!PutWrite
<1>n. PICK n \in Monitors : n = c.mon
  BY <1>2
<1> DEFINE d == [c EXCEPT !.do = "reload", !.row = M!NoRow, !.threshold = 0]
           old == IF rows[n].here THEN rows[n] ELSE c.row
           new == [old EXCEPT !.threshold = c.threshold, !.enabled = c.enabled]
<1>3. d \in MonCall /\ d.mon = n /\ d.do = "reload" /\ d.enabled = c.enabled
  BY <1>2, <1>n, MonNothing DEF MonCall
<1>4. calls' = (calls \ {c}) \cup {d} /\ UNCHANGED <<samples, incidents, loops, jobs, notices, now, ops, paused>>
  BY DEF M!PutWrite
<1>5. old \in MonRow /\ (rows[n].here => old = rows[n])
  BY <1>1, <1>2 DEF MonTypes
<1>6. rows' = [rows EXCEPT ![n] = new]
  BY <1>n DEF M!PutWrite
<1> HIDE DEF old, d
<1>7. new \in MonRow /\ new.here = old.here /\ new.enabled = c.enabled /\ new.status = old.status
  BY <1>2, <1>5 DEF MonRow
<1> HIDE DEF new
<1>8. rows' \in [Monitors -> MonRow] /\ rows'[n] = new /\ \A m \in Monitors : m # n => rows'[m] = rows[m]
  BY <1>1, <1>6, <1>7 DEF MonTypes
<1>9. /\ samples' = samples /\ incidents' = incidents /\ loops' = loops /\ jobs' = jobs /\ paused' = paused /\ ops' = ops
      /\ samples' \in [Monitors -> Seq(BOOLEAN)] /\ incidents' \subseteq Incident /\ paused' \subseteq Monitors /\ ops' \in Nat
  BY <1>1, <1>4 DEF MonTypes
<1>10. /\ calls' \subseteq MonCall /\ IsFiniteSet(calls') /\ calls # {}
       /\ \A e \in MonCall : e.mon # n => (e \in calls' <=> e \in calls)
       /\ ops # 0
       /\ MonCalm => \A e \in calls' : e.mon = n => e = d
  BY <1>2, <1>3, <1>4, <1>n, Handled
<1>11. MonCalm => rows[n].here
  BY <1>2, <1>n DEF MonCalm, CallFits
<1>12. \A m \in Monitors : M!Open(m)' = M!Open(m) /\ M!Alive(m)' = M!Alive(m)
  BY <1>9 DEF M!Open, M!Alive
<1>13. MonCalm => LoopFits(n)'
  <2>1. MonCalm => M!Alive(n) \subseteq {loops[n]}
    BY DEF MonCalm, LoopFits
  <2>2. ~(\A e \in calls' : e.mon = n => e.do \notin {"reload", "stop", "start"})
    BY <1>3, <1>4
  <2> QED
    BY <1>9, <1>12, <2>1, <2>2 DEF LoopFits
<1>14. MonCalm => \A e \in calls' : e.mon = n => CallFits(e)'
  <2>1. MonCalm => CallFits(d)'
    BY <1>3, <1>5, <1>7, <1>8, <1>11 DEF CallFits
  <2> QED
    BY <1>10, <2>1
<1>15. MonCalm /\ LogFits(n) /\ Fits(n, rows[n].status) => (\A i, k \in M!Open(n)' : i = k) /\ Fits(n, rows[n].status)'
  <2>1. MonCalm => rows'[n].status = rows[n].status
    BY <1>5, <1>7, <1>8, <1>11
  <2> QED
    BY <1>9, <1>12, <2>1 DEF Fits, LogFits
<1>16. \A m \in Monitors : m # n => /\ rows'[m] = rows[m] /\ M!Open(m)' = M!Open(m) /\ samples'[m] = samples[m]
                                    /\ m \in paused' <=> m \in paused
  BY <1>8, <1>9, <1>12
<1> QED
  BY <1>4, <1>8, <1>9, <1>10, <1>11, <1>13, <1>14, <1>15, <1>16, <1>n, MonCallStep

\* DeleteRow: nothing of the monitor stays in the log.
LEMMA StepDeleteRow ==
    ASSUME MonInv, M!Noted, NEW c \in calls, M!DeleteRow(c)
    PROVE  MonInv'
<1>1. MonTypes
  BY DEF MonInv, MonAlways
<1>2. c \in MonCall /\ c.mon \in Monitors /\ c.do = "delete"
  BY <1>1 DEF MonTypes, MonCall, M!DeleteRow
<1>n. PICK n \in Monitors : n = c.mon
  BY <1>2
<1> DEFINE d == [c EXCEPT !.do = "stop"]
           new == [rows[n] EXCEPT !.here = FALSE]
<1>3. d \in MonCall /\ d.mon = n /\ d.do = "stop"
  BY <1>2, <1>n DEF MonCall
<1>4. calls' = (calls \ {c}) \cup {d} /\ UNCHANGED <<loops, jobs, notices, now, ops, paused>>
  BY DEF M!DeleteRow, M!Then
<1>5. rows \in [Monitors -> MonRow] /\ samples \in [Monitors -> Seq(BOOLEAN)] /\ <<>> \in Seq(BOOLEAN)
  BY <1>1 DEF MonTypes
<1>6. new \in MonRow /\ new.here = FALSE
  BY <1>5 DEF MonRow
<1>7. rows' = [rows EXCEPT ![n] = new]
  BY <1>5, <1>n DEF M!DeleteRow
<1> HIDE DEF new, d
<1>8. rows' \in [Monitors -> MonRow] /\ rows'[n] = new /\ \A m \in Monitors : m # n => rows'[m] = rows[m]
  BY <1>5, <1>6, <1>7
<1>9. /\ samples' \in [Monitors -> Seq(BOOLEAN)] /\ \A m \in Monitors : m # n => samples'[m] = samples[m]
  BY <1>5, <1>n DEF M!DeleteRow
<1>10. /\ incidents' = {i \in incidents : i.mon # n} /\ loops' = loops /\ jobs' = jobs /\ paused' = paused /\ ops' = ops
       /\ incidents' \subseteq Incident /\ paused' \subseteq Monitors /\ ops' \in Nat
  BY <1>1, <1>4, <1>n DEF MonTypes, M!DeleteRow
<1>11. /\ calls' \subseteq MonCall /\ IsFiniteSet(calls') /\ calls # {}
       /\ \A e \in MonCall : e.mon # n => (e \in calls' <=> e \in calls)
       /\ ops # 0
       /\ MonCalm => \A e \in calls' : e.mon = n => e = d
  BY <1>2, <1>3, <1>4, <1>n, Handled
<1>12. \A m \in Monitors : M!Alive(m)' = M!Alive(m) /\ (m # n => M!Open(m)' = M!Open(m))
  BY <1>10 DEF M!Open, M!Alive
<1>13. MonCalm => LoopFits(n)'
  <2>1. MonCalm => M!Alive(n) \subseteq {loops[n]}
    BY DEF MonCalm, LoopFits
  <2>2. ~(\A e \in calls' : e.mon = n => e.do \notin {"reload", "stop", "start"})
    BY <1>3, <1>4
  <2> QED
    BY <1>10, <1>12, <2>1, <2>2 DEF LoopFits
<1>14. MonCalm => \A e \in calls' : e.mon = n => CallFits(e)'
  <2>1. CallFits(d)'
    BY <1>3, <1>6, <1>8 DEF CallFits, M!Gone
  <2> QED
    BY <1>11, <2>1
<1>15. ~rows'[n].here
  BY <1>6, <1>8
<1>16. \A m \in Monitors : m # n => /\ rows'[m] = rows[m] /\ M!Open(m)' = M!Open(m) /\ samples'[m] = samples[m]
                                    /\ m \in paused' <=> m \in paused
  BY <1>8, <1>9, <1>10, <1>12
<1> QED
  BY <1>4, <1>8, <1>9, <1>10, <1>11, <1>13, <1>14, <1>15, <1>16, <1>n, MonCallStep

\* SetEnabled: the status is overwritten, and an outage it hides is noted.
LEMMA StepSetEnabled ==
    ASSUME MonInv, M!Noted, NEW c \in calls, M!SetEnabled(c)
    PROVE  MonInv'
<1>1. MonTypes
  BY DEF MonInv, MonAlways
<1>2. c \in MonCall /\ c.mon \in Monitors /\ c.do \in {"pause", "resume"}
  BY <1>1 DEF MonTypes, MonCall, M!SetEnabled
<1>n. PICK n \in Monitors : n = c.mon
  BY <1>2
<1>b. PICK b \in BOOLEAN : b <=> c.do = "resume"
  OBVIOUS
<1>4. UNCHANGED <<samples, incidents, loops, jobs, notices, now, ops>>
  BY DEF M!SetEnabled
<1>5. rows \in [Monitors -> MonRow] /\ rows[n] \in MonRow
  BY <1>1 DEF MonTypes
<1>9. /\ samples' = samples /\ incidents' = incidents /\ loops' = loops /\ jobs' = jobs /\ ops' = ops
      /\ samples' \in [Monitors -> Seq(BOOLEAN)] /\ incidents' \subseteq Incident /\ ops' \in Nat
  BY <1>1, <1>4 DEF MonTypes
<1>11. MonCalm => rows[n].here
  BY <1>2, <1>n DEF MonCalm, CallFits
<1>12. \A m \in Monitors : M!Open(m)' = M!Open(m) /\ M!Alive(m)' = M!Alive(m)
  BY <1>9 DEF M!Open, M!Alive
<1>20. CASE rows[n].here
  <2> DEFINE do == IF c.do = "resume" THEN "reload" ELSE "stop"
             status == IF c.do = "resume" THEN "unknown" ELSE "paused"
             d == [c EXCEPT !.do = do, !.enabled = c.do = "resume"]
             new == [rows[n] EXCEPT !.enabled = c.do = "resume", !.status = status]
  <2>1. do \in {"reload", "stop"} /\ (do = "reload" <=> c.do = "resume") /\ status \in {"unknown", "paused"}
    OBVIOUS
  <2>2. calls' = (calls \ {c}) \cup {d} /\ paused' = IF rows[n].status = "down" THEN paused \cup {n} ELSE paused
    BY <1>20, <1>n DEF M!SetEnabled
  <2>3. rows' = [rows EXCEPT ![n] = new]
    <3>1. rows' = [rows EXCEPT ![n].enabled = c.do = "resume", ![n].status = status]
      BY <1>20, <1>n DEF M!SetEnabled
    <3> HIDE DEF status
    <3>2. [rows EXCEPT ![n].enabled = c.do = "resume", ![n].status = status] = [rows EXCEPT ![n] = new]
      BY <1>5 DEF MonRow
    <3> QED
      BY <3>1, <3>2
  <2> HIDE DEF do, status
  <2>4. d \in MonCall /\ d.mon = n /\ d.do = do /\ (d.enabled <=> c.do = "resume")
    BY <1>2, <1>n, <2>1 DEF MonCall
  <2> HIDE DEF d
  <2>5. new \in MonRow /\ new.here = rows[n].here /\ (new.enabled <=> c.do = "resume") /\ new.status = status
    BY <1>5, <2>1 DEF MonRow, Statuses
  <2>e. d.enabled = new.enabled
    <3>1. d.enabled \in BOOLEAN /\ new.enabled \in BOOLEAN
      BY <2>4, <2>5 DEF MonCall, MonRow
    <3> QED
      BY <2>4, <2>5, <3>1
  <2> HIDE DEF new
  <2>6. rows' \in [Monitors -> MonRow] /\ rows'[n] = new /\ \A m \in Monitors : m # n => rows'[m] = rows[m]
    BY <1>5, <2>3, <2>5
  <2>7. /\ calls' \subseteq MonCall /\ IsFiniteSet(calls') /\ calls # {}
        /\ \A e \in MonCall : e.mon # n => (e \in calls' <=> e \in calls)
        /\ ops # 0
        /\ MonCalm => \A e \in calls' : e.mon = n => e = d
    BY <1>2, <1>n, <2>2, <2>4, Handled
  <2>8. MonCalm => LoopFits(n)'
    <3>1. MonCalm => M!Alive(n) \subseteq {loops[n]}
      BY DEF MonCalm, LoopFits
    <3>2. ~(\A e \in calls' : e.mon = n => e.do \notin {"reload", "stop", "start"})
      BY <2>1, <2>2, <2>4
    <3> QED
      BY <1>9, <1>12, <3>1, <3>2 DEF LoopFits
  <2>y. PICK y \in MonCall : y = d
    BY <2>4
  <2>9. MonCalm => \A e \in calls' : e.mon = n => CallFits(e)'
    <3>1. CallFits(y)'
      BY <1>20, <2>1, <2>4, <2>5, <2>6, <2>e, <2>y DEF CallFits, M!Gone
    <3> QED
      BY <2>7, <2>y, <3>1
  <2>10. MonCalm /\ LogFits(n) /\ Fits(n, rows[n].status) => (\A i, k \in M!Open(n)' : i = k) /\ Fits(n, rows[n].status)'
    <3>1. rows'[n].status # "down"
      BY <2>1, <2>5, <2>6
    <3>2. (n \in paused => n \in paused') /\ (rows[n].status = "down" => n \in paused')
      BY <2>2
    <3> QED
      BY <1>12, <3>1, <3>2 DEF Fits, LogFits
  <2>11. paused' \subseteq Monitors /\ \A m \in Monitors : m # n => (m \in paused' <=> m \in paused)
    BY <1>1, <2>2 DEF MonTypes
  <2>12. \A m \in Monitors : m # n => /\ rows'[m] = rows[m] /\ M!Open(m)' = M!Open(m) /\ samples'[m] = samples[m]
                                      /\ m \in paused' <=> m \in paused
    BY <1>9, <1>12, <2>6, <2>11
  <2> QED
    BY <1>4, <1>9, <1>11, <1>n, <2>6, <2>7, <2>8, <2>9, <2>10, <2>11, <2>12, MonCallStep
<1>21. CASE ~rows[n].here
  <2>1. calls' = calls \ {c} /\ rows' = rows /\ paused' = paused /\ paused' \subseteq Monitors /\ rows' \in [Monitors -> MonRow]
    BY <1>1, <1>21, <1>n DEF M!SetEnabled, M!Then, MonTypes
  <2>2. /\ calls' \subseteq MonCall /\ IsFiniteSet(calls') /\ calls # {}
        /\ \A e \in MonCall : e.mon # n => (e \in calls' <=> e \in calls)
        /\ ops # 0
    BY <1>2, <1>n, <2>1, Handled
  <2>3. \A m \in Monitors : m # n => /\ rows'[m] = rows[m] /\ M!Open(m)' = M!Open(m) /\ samples'[m] = samples[m]
                                     /\ m \in paused' <=> m \in paused
    BY <1>9, <1>12, <2>1
  <2> QED
    BY <1>4, <1>9, <1>11, <1>n, <1>21, <2>1, <2>2, <2>3, MonCallStep
<1> QED
  BY <1>20, <1>21

\* ReloadStop: the monitor has no loop now, and the call that follows starts one where it should have one.
LEMMA StepReloadStop ==
    ASSUME MonInv, M!Noted, NEW c \in calls, M!ReloadStop(c)
    PROVE  MonInv'
<1>1. MonTypes /\ LoopsNamed /\ MonAlways
  BY DEF MonInv, MonAlways
<1>2. c \in MonCall /\ c.mon \in Monitors /\ c.do \in {"reload", "stop"}
  BY <1>1 DEF MonTypes, MonCall, M!ReloadStop
<1>n. PICK n \in Monitors : n = c.mon
  BY <1>2
<1>3. /\ jobs' = M!Cancelled(n) /\ loops' = [loops EXCEPT ![n] = 0]
      /\ UNCHANGED <<rows, samples, incidents, notices, now, ops, paused>>
  BY <1>n DEF M!ReloadStop, M!Stop
<1>4. /\ jobs' \in Seq(MonJob) /\ DOMAIN jobs' = DOMAIN jobs
      /\ \A k \in DOMAIN jobs : \/ jobs'[k] = jobs[k] /\ k # loops[n]
                                \/ /\ k = loops[n] /\ jobs[k].mon = n /\ jobs[k].kind = "loop"
                                   /\ jobs'[k].mon = n /\ jobs'[k].kind = "loop" /\ jobs'[k].at = jobs[k].at
                                   /\ jobs'[k].alerted = jobs[k].alerted /\ jobs'[k].seen = jobs[k].seen
                                   /\ jobs'[k].dead
  BY <1>1, <1>3, CancelledFits
<1> DEFINE d == [c EXCEPT !.do = "start"]
<1>5. IF c.do = "reload" /\ c.enabled THEN calls' = (calls \ {c}) \cup {d} ELSE calls' = calls \ {c}
  BY DEF M!ReloadStop, M!Then
<1>6. d \in MonCall /\ d.mon = n /\ d.do = "start"
  BY <1>2, <1>n DEF MonCall
<1> HIDE DEF d
<1>7. /\ calls' \subseteq MonCall /\ IsFiniteSet(calls') /\ calls # {}
      /\ \A e \in MonCall : e.mon # n => (e \in calls' <=> e \in calls)
      /\ MonCalm => \A e \in calls' : e.mon = n => e = d
  BY <1>2, <1>5, <1>6, <1>n, Handled
<1>8. /\ rows' = rows /\ samples' = samples /\ incidents' = incidents /\ notices' = notices /\ now' \in Nat /\ ops' = ops /\ paused' = paused
      /\ rows' \in [Monitors -> MonRow] /\ samples' \in [Monitors -> Seq(BOOLEAN)] /\ incidents' \subseteq Incident
      /\ paused' \subseteq Monitors /\ ops' \in Nat /\ overlapped' \in BOOLEAN
  BY <1>1, <1>3, NotedTyped DEF MonTypes
<1>9. /\ loops' \in [Monitors -> Nat] /\ loops'[n] = 0 /\ (\A m \in Monitors : m # n => loops'[m] = loops[m])
      /\ \A m \in Monitors : loops'[m] \in {0, loops[m]}
  BY <1>1, <1>3 DEF MonTypes
<1>10. MonAlways'
  <2>1. \A k \in DOMAIN jobs :
              /\ jobs'[k].mon = jobs[k].mon /\ jobs'[k].kind = jobs[k].kind
              /\ jobs'[k].seen.row.muted = jobs[k].seen.row.muted \/ jobs'[k].seen = M!NothingRead
              /\ jobs'[k].at = "end" => jobs'[k].dead
              /\ jobs'[k].kind = "check" => jobs'[k].at \notin {"seed", "wait"}
              /\ \/ jobs'[k].at = "end"
                 \/ jobs'[k].at = jobs[k].at /\ (jobs'[k].alerted <=> jobs[k].alerted)
                 \/ jobs[k].at = "stop" /\ jobs'[k].at \in {"wait", "get"} /\ (jobs'[k].alerted <=> jobs[k].alerted)
    <3>1. \A k \in DOMAIN jobs : (jobs[k].at = "end" => jobs[k].dead) /\ (jobs[k].kind = "check" => jobs[k].at \notin {"seed", "wait"})
      BY <1>1 DEF LoopsNamed
    <3> QED
      BY <1>4, <3>1
  <2>2. ops' = 0 => /\ ops = 0 /\ rows' = rows
                    /\ \A e \in calls' : e.do \in {"reload", "start"} /\ \E f \in calls : f.mon = e.mon
                    /\ \A e, f \in calls' : e.mon = f.mon => e = f
    <3> SUFFICES ASSUME ops' = 0
                 PROVE  /\ \A e \in calls' : e.do \in {"reload", "start"} /\ \E f \in calls : f.mon = e.mon
                        /\ \A e, f \in calls' : e.mon = f.mon => e = f
      BY <1>8
    <3>1. OnlyBooted
      BY <1>1, <1>8 DEF MonAlways
    <3>2. (\A e \in calls : e.do \in {"reload", "start"}) /\ \A e, f \in calls : e.mon = f.mon => e = f
      BY <3>1 DEF OnlyBooted
    <3>3. \A e \in calls' : (e \in calls /\ e # c) \/ e = d
      BY <1>5
    <3> QED
      BY <1>6, <1>n, <3>2, <3>3
  <2> QED
    BY <1>1, <1>4, <1>7, <1>8, <1>9, <2>1, <2>2, MoveAlways
<1>11. ASSUME MonCalm
       PROVE  M!Alive(n)' = {}
  <2>1. M!Alive(n) \subseteq {loops[n]}
    BY <1>11 DEF MonCalm, LoopFits
  <2>2. ASSUME NEW k \in DOMAIN jobs', k \in M!Alive(n)'
        PROVE  FALSE
    <3>1. jobs'[k].mon = n /\ jobs'[k].kind = "loop" /\ ~jobs'[k].dead
      BY <2>2 DEF M!Alive
    <3>2. jobs'[k] = jobs[k] /\ k # loops[n]
      BY <1>4, <3>1
    <3>3. k \in M!Alive(n)
      BY <1>4, <3>1, <3>2 DEF M!Alive
    <3> QED
      BY <2>1, <3>2, <3>3
  <2> QED
    BY <2>2 DEF M!Alive
<1>12. M!Gone(n)' <=> M!Gone(n)
  BY <1>8 DEF M!Gone
<1>13. MonCalm => CallFits(c)
  BY DEF MonCalm
<1>14. MonCalm => LoopFits(n)'
  <2>1. CASE c.do = "reload" /\ c.enabled
    <3>1. ~(\A e \in calls' : e.mon = n => e.do \notin {"reload", "stop", "start"})
      BY <1>5, <1>6, <2>1
    <3> QED
      BY <1>11, <3>1 DEF LoopFits
  <2>2. CASE ~(c.do = "reload" /\ c.enabled)
    <3>1. MonCalm => M!Gone(n)
      BY <1>2, <1>13, <1>n, <2>2 DEF CallFits, M!Gone
    <3> QED
      BY <1>9, <1>11, <1>12, <3>1 DEF LoopFits, Steady
  <2> QED
    BY <2>1, <2>2
<1>15. MonCalm => \A e \in calls' : e.mon = n => CallFits(e)'
  <2> SUFFICES ASSUME MonCalm, NEW e \in calls', e.mon = n
               PROVE  CallFits(e)'
    OBVIOUS
  <2>1. e = d /\ e.do = "start"
    BY <1>6, <1>7
  <2>2. c.do = "reload" /\ c.enabled
    <3>1. \A f \in calls : f.mon = n => f = c
      BY <1>n DEF MonCalm, MonAlone
    <3> QED
      BY <1>5, <3>1
  <2>3. ~M!Gone(n) /\ rows[n].here
    BY <1>13, <1>n, <2>2 DEF CallFits, M!Gone
  <2> QED
    BY <1>8, <1>9, <1>11, <1>12, <2>1, <2>3 DEF CallFits
<1>16. ASSUME MonCalm
       PROVE  \A k \in DOMAIN jobs : jobs[k].mon = n => ~Ticking(k)
  BY <1>16, <1>n DEF MonCalm, MonAlone
<1>17. \A m \in Monitors : M!Open(m)' = M!Open(m)
  BY <1>8 DEF M!Open
<1>18. ASSUME MonCalm, rows'[n].here
       PROVE  LogFits(n)'
  <2>1. LogFits(n)
    BY <1>8, <1>18 DEF MonCalm
  <2>2. \A k \in DOMAIN jobs : jobs'[k].mon = jobs[k].mon /\ jobs'[k].at = jobs[k].at
    BY <1>4
  <2>3. Within(n)' = {} /\ Within(n) = {}
    BY <1>4, <1>16, <1>18, <2>2 DEF Within, Ticking
  <2>4. Fits(n, rows[n].status) => Fits(n, rows[n].status)'
    BY <1>8, <1>17 DEF Fits
  <2> QED
    BY <1>17, <2>1, <2>3, <2>4 DEF LogFits
<1>19. \A m \in Monitors : m # n => /\ loops'[m] = loops[m] /\ rows'[m] = rows[m] /\ M!Open(m)' = M!Open(m) /\ samples'[m] = samples[m]
                                    /\ m \in paused' <=> m \in paused
  BY <1>8, <1>9, <1>17
<1>20. \A k \in DOMAIN jobs :
              \/ jobs'[k] = jobs[k]
              \/ /\ jobs[k].mon = n /\ jobs'[k].mon = n /\ jobs'[k].kind = jobs[k].kind /\ jobs'[k].at = jobs[k].at
                 /\ jobs'[k].dead
  BY <1>4
<1>21. MonCalm /\ rows'[n].here => rows[n].here /\ samples'[n] = samples[n]
  BY <1>8
<1>22. ASSUME ~overlapped'
       PROVE  MonCalm'
  BY <1>4, <1>7, <1>10, <1>14, <1>15, <1>16, <1>18, <1>19, <1>20, <1>21, <1>22, MoveCalm
<1> QED
  BY <1>10, <1>22 DEF MonInv

\* Muting changes nothing that the jobs are held to.
LEMMA StepSetMute ==
    ASSUME MonInv, M!Noted, NEW n \in Monitors, NEW u \in Nat, M!SetMute(n, u)
    PROVE  MonInv'
<1>1. MonTypes /\ MonAlways /\ LoopsNamed
  BY DEF MonInv, MonAlways
<1>2. /\ UNCHANGED <<samples, incidents, loops, jobs, calls, notices, now, paused>> /\ ops' = ops + 1 /\ jobs # <<>>
      /\ rows' = [rows EXCEPT ![n].muted = u]
  BY DEF M!SetMute, M!MayAsk
<1>3. /\ rows' \in [Monitors -> MonRow] /\ \A m \in Monitors : m # n => rows'[m] = rows[m]
      /\ \A m \in Monitors : rows'[m].here = rows[m].here /\ rows'[m].enabled = rows[m].enabled /\ rows'[m].status = rows[m].status
  <2>1. rows \in [Monitors -> MonRow] /\ rows[n] \in MonRow
    BY <1>1 DEF MonTypes
  <2> DEFINE new == [rows[n] EXCEPT !.muted = u]
  <2>2. new \in MonRow /\ new.here = rows[n].here /\ new.enabled = rows[n].enabled /\ new.status = rows[n].status
    BY <2>1 DEF MonRow
  <2>3. rows' = [rows EXCEPT ![n] = new]
    BY <1>2, <2>1
  <2> HIDE DEF new
  <2> QED
    BY <2>1, <2>2, <2>3
<1>4. /\ samples' = samples /\ incidents' = incidents /\ loops' = loops /\ jobs' = jobs /\ paused' = paused /\ calls' = calls
      /\ samples' \in [Monitors -> Seq(BOOLEAN)] /\ incidents' \subseteq Incident /\ paused' \subseteq Monitors /\ ops' \in Nat
      /\ ops' # 0 /\ jobs' \in Seq(MonJob) /\ loops' \in [Monitors -> Nat] /\ calls' \subseteq MonCall /\ IsFiniteSet(calls')
      /\ notices' = notices /\ now' \in Nat /\ overlapped' \in BOOLEAN
  BY <1>1, <1>2, NotedTyped DEF MonTypes
<1>5. \A k \in DOMAIN jobs :
              /\ jobs'[k].mon = jobs[k].mon /\ jobs'[k].kind = jobs[k].kind
              /\ jobs'[k].seen.row.muted = jobs[k].seen.row.muted \/ jobs'[k].seen = M!NothingRead
              /\ jobs'[k].at = "end" => jobs'[k].dead
              /\ jobs'[k].kind = "check" => jobs'[k].at \notin {"seed", "wait"}
              /\ \/ jobs'[k].at = "end"
                 \/ jobs'[k].at = jobs[k].at /\ (jobs'[k].alerted <=> jobs[k].alerted)
                 \/ jobs[k].at = "stop" /\ jobs'[k].at \in {"wait", "get"} /\ (jobs'[k].alerted <=> jobs[k].alerted)
  BY <1>1, <1>4 DEF LoopsNamed
<1>6. MonAlways'
  BY <1>1, <1>3, <1>4, <1>5, MoveAlways
<1>7. \A m \in Monitors : M!Open(m)' = M!Open(m) /\ M!Alive(m)' = M!Alive(m) /\ (M!Gone(m)' <=> M!Gone(m)) /\ Within(m)' = Within(m)
  BY <1>3, <1>4 DEF M!Open, M!Alive, M!Gone, Within
<1>8. MonCalm => LoopFits(n)'
  <2>1. MonCalm => LoopFits(n)
    BY DEF MonCalm
  <2>2. Steady(n)' <=> Steady(n)
    BY <1>4, <1>7 DEF Steady
  <2> QED
    BY <1>4, <1>7, <2>1, <2>2 DEF LoopFits
<1>9. MonCalm /\ rows'[n].here => LogFits(n)'
  <2>1. MonCalm /\ rows'[n].here => LogFits(n)
    BY <1>3 DEF MonCalm
  <2>2. \A k \in DOMAIN jobs : Fits(n, jobs[k].seen.row.status) => Fits(n, jobs[k].seen.row.status)'
    BY <1>4, <1>7 DEF Fits
  <2>3. Fits(n, rows[n].status) => Fits(n, rows[n].status)'
    BY <1>3, <1>4, <1>7 DEF Fits
  <2>4. Within(n) \subseteq DOMAIN jobs
    BY DEF Within
  <2>5. rows'[n].status = rows[n].status
    BY <1>3
  <2> QED
    BY <1>4, <1>7, <2>1, <2>2, <2>3, <2>4, <2>5 DEF LogFits
<1>10. MonCalm => \A c \in calls' : c.mon = n => CallFits(c)'
  <2>1. MonCalm => \A c \in calls : CallFits(c)
    BY DEF MonCalm
  <2>2. \A c \in calls : CallFits(c) /\ c.mon = n => CallFits(c)'
    BY <1>3, <1>4, <1>7 DEF CallFits
  <2> QED
    BY <1>4, <2>1, <2>2
<1>11. \A m \in Monitors : m # n => /\ loops'[m] = loops[m] /\ rows'[m] = rows[m] /\ M!Open(m)' = M!Open(m) /\ samples'[m] = samples[m]
                                    /\ m \in paused' <=> m \in paused
  BY <1>3, <1>4, <1>7
<1>12. ASSUME ~overlapped'
       PROVE  MonCalm'
  BY <1>2, <1>3, <1>4, <1>6, <1>8, <1>9, <1>10, <1>11, <1>12, MoveCalm
<1> QED
  BY <1>6, <1>12 DEF MonInv

\* A step that starts jobs.
LEMMA GrowAlways ==
    ASSUME MonAlways, jobs' \in Seq(MonJob), DOMAIN jobs \subseteq DOMAIN jobs', jobs' # <<>>,
           \A k \in DOMAIN jobs : jobs'[k] = jobs[k],
           \A k \in DOMAIN jobs' \ DOMAIN jobs : /\ ~jobs'[k].alerted /\ ~jobs'[k].dead /\ jobs'[k].seen = M!NothingRead
                                                 /\ jobs'[k].at = IF jobs'[k].kind = "loop" THEN "seed" ELSE "get",
           loops' \in [Monitors -> Nat],
           \A m \in Monitors : \/ loops'[m] = loops[m]
                               \/ loops'[m] \in DOMAIN jobs' /\ jobs'[loops'[m]].mon = m /\ jobs'[loops'[m]].kind = "loop",
           UNCHANGED <<rows, samples, incidents, notices, now, paused>>, calls' \subseteq calls, ops' \in Nat, overlapped' \in BOOLEAN,
           ops' = 0 => /\ ops = 0
                       /\ \A k \in DOMAIN jobs' \ DOMAIN jobs : /\ jobs'[k].kind = "loop" /\ \A c \in calls' : c.mon # jobs'[k].mon
                                                                /\ \A l \in DOMAIN jobs' : jobs'[l].mon = jobs'[k].mon => l = k
    PROVE  MonAlways'
<1>1. MonTypes /\ LoopsNamed /\ Sent /\ M!NoticesPaired /\ EachHasLast
  BY DEF MonAlways
<1>2. rows' = rows /\ samples' = samples /\ incidents' = incidents /\ notices' = notices /\ now' = now /\ paused' = paused
  OBVIOUS
<1>3. IsFiniteSet(calls')
  BY <1>1, FS_Subset DEF MonTypes
<1>4. MonTypes'
  BY <1>1, <1>2, <1>3 DEF MonTypes
<1>5. LoopsNamed'
  <2>1. ASSUME NEW m \in Monitors, loops'[m] # 0
        PROVE  loops'[m] \in DOMAIN jobs' /\ jobs'[loops'[m]].mon = m /\ jobs'[loops'[m]].kind = "loop"
    <3>1. CASE loops'[m] = loops[m]
      <4>1. loops[m] \in DOMAIN jobs /\ jobs[loops[m]].mon = m /\ jobs[loops[m]].kind = "loop"
        BY <1>1, <2>1, <3>1 DEF LoopsNamed
      <4> QED
        BY <3>1, <4>1
    <3>2. CASE loops'[m] # loops[m]
      BY <3>2
    <3> QED
      BY <3>1, <3>2
  <2>2. ASSUME NEW k \in DOMAIN jobs'
        PROVE  (jobs'[k].kind = "check" => jobs'[k].at \notin {"seed", "wait"}) /\ (jobs'[k].at = "end" => jobs'[k].dead)
    <3>1. CASE k \in DOMAIN jobs
      BY <1>1, <3>1 DEF LoopsNamed
    <3>2. CASE k \notin DOMAIN jobs
      BY <2>2, <3>2
    <3> QED
      BY <3>1, <3>2
  <2> QED
    BY <2>1, <2>2 DEF LoopsNamed
<1>6. Sent'
  <2>1. ASSUME NEW k \in DOMAIN jobs'
        PROVE  Remembers(k)'
    <3>0. By(k)' = By(k)
      BY <1>2 DEF By
    <3>1. CASE k \in DOMAIN jobs
      <4>1. Remembers(k) /\ jobs'[k] = jobs[k] /\ (ops' = 0 => ops = 0)
        BY <1>1, <3>1 DEF Sent
      <4> QED
        BY <1>2, <3>0, <4>1 DEF Remembers
    <3>2. CASE k \notin DOMAIN jobs
      <4>1. By(k)' = {}
        BY <1>1, <3>0, <3>2 DEF Sent, By
      <4>2. ~jobs'[k].alerted
        BY <2>1, <3>2
      <4> QED
        BY <4>1, <4>2 DEF Remembers
    <3> QED
      BY <3>1, <3>2
  <2>2. \A i \in DOMAIN notices' : notices'[i].by \in DOMAIN jobs'
    BY <1>1, <1>2 DEF Sent
  <2> QED
    BY <2>1, <2>2 DEF Sent
<1>7. M!NoticesPaired' /\ EachHasLast'
  BY <1>1, <1>2, PairedStays
<1>8. ASSUME ops' = 0
      PROVE  OnlyBooted'
  <2>1. OnlyBooted
    BY <1>8 DEF MonAlways
  <2>0. \A k \in DOMAIN jobs' \ DOMAIN jobs : /\ jobs'[k].kind = "loop" /\ \A c \in calls' : c.mon # jobs'[k].mon
                                              /\ \A l \in DOMAIN jobs' : jobs'[l].mon = jobs'[k].mon => l = k
    BY <1>8
  <2>2. \A c \in calls' : c.do \in {"reload", "start"} /\ \A k \in DOMAIN jobs' : jobs'[k].mon # c.mon
    <3>1. \A c \in calls : c.do \in {"reload", "start"} /\ \A k \in DOMAIN jobs : jobs[k].mon # c.mon
      BY <2>1 DEF OnlyBooted
    <3>2. ASSUME NEW c \in calls', NEW k \in DOMAIN jobs'
          PROVE  jobs'[k].mon # c.mon
      <4>1. CASE k \in DOMAIN jobs
        BY <3>1, <3>2, <4>1
      <4>2. CASE k \notin DOMAIN jobs
        BY <2>0, <3>2, <4>2
      <4> QED
        BY <4>1, <4>2
    <3> QED
      BY <3>1, <3>2
  <2>3. \A c, d \in calls' : c.mon = d.mon => c = d
    BY <2>1 DEF OnlyBooted
  <2>4. ASSUME NEW k \in DOMAIN jobs', NEW l \in DOMAIN jobs', jobs'[k].mon = jobs'[l].mon
        PROVE  k = l
    <3>1. CASE k \in DOMAIN jobs /\ l \in DOMAIN jobs
      BY <2>1, <2>4, <3>1 DEF OnlyBooted
    <3>2. CASE k \notin DOMAIN jobs
      BY <2>0, <2>4, <3>2
    <3>3. CASE l \notin DOMAIN jobs
      BY <2>0, <2>4, <3>3
    <3> QED
      BY <3>1, <3>2, <3>3
  <2>5. ASSUME NEW k \in DOMAIN jobs'
        PROVE  /\ jobs'[k].kind = "loop" /\ jobs'[k].seen.row.muted = 0
               /\ jobs'[k].at = "seed" => rows'[jobs'[k].mon].status = "unknown"
    <3>1. CASE k \in DOMAIN jobs
      BY <1>2, <2>1, <3>1 DEF OnlyBooted
    <3>2. CASE k \notin DOMAIN jobs
      <4>1. jobs'[k].kind = "loop" /\ jobs'[k].seen = M!NothingRead /\ jobs'[k].mon \in Monitors
        <5>1. jobs'[k] \in MonJob
          BY <2>5
        <5> QED
          BY <2>0, <2>5, <3>2, <5>1 DEF MonJob
      <4>2. \A l \in DOMAIN jobs : jobs[l].mon # jobs'[k].mon
        <5>1. ASSUME NEW l \in DOMAIN jobs, jobs[l].mon = jobs'[k].mon
              PROVE  FALSE
          <6>1. l \in DOMAIN jobs' /\ jobs'[l] = jobs[l]
            OBVIOUS
          <6> QED
            BY <2>0, <2>5, <3>2, <5>1, <6>1
        <5> QED
          BY <5>1
      <4>3. rows[jobs'[k].mon].status = "unknown"
        BY <2>1, <4>1, <4>2 DEF OnlyBooted
      <4> QED
        BY <1>2, <4>1, <4>3 DEF M!NothingRead, M!NoRow
    <3> QED
      BY <3>1, <3>2
  <2>6. \A m \in Monitors : rows'[m].muted = 0 /\ ((\A k \in DOMAIN jobs' : jobs'[k].mon # m) => rows'[m].status = "unknown")
    <3>1. ASSUME NEW m \in Monitors
          PROVE  rows'[m].muted = 0 /\ ((\A k \in DOMAIN jobs' : jobs'[k].mon # m) => rows'[m].status = "unknown")
      <4>1. rows[m].muted = 0 /\ ((\A k \in DOMAIN jobs : jobs[k].mon # m) => rows[m].status = "unknown")
        BY <2>1 DEF OnlyBooted
      <4>2. ASSUME \A k \in DOMAIN jobs' : jobs'[k].mon # m, NEW k \in DOMAIN jobs
            PROVE  jobs[k].mon # m
        <5>1. k \in DOMAIN jobs' /\ jobs'[k] = jobs[k]
          OBVIOUS
        <5> QED
          BY <4>2, <5>1
      <4> QED
        BY <1>2, <4>1, <4>2
    <3> QED
      BY <3>1
  <2> QED
    BY <2>2, <2>3, <2>4, <2>5, <2>6 DEF OnlyBooted
<1> QED
  BY <1>4, <1>5, <1>6, <1>7, <1>8 DEF MonAlways

\* New jobs keep what holds without overlaps.
LEMMA GrowCalm ==
    ASSUME MonInv, MonAlways', M!Noted, ~overlapped', DOMAIN jobs \subseteq DOMAIN jobs',
           \A k \in DOMAIN jobs : jobs'[k] = jobs[k],
           \A k \in DOMAIN jobs' \ DOMAIN jobs : jobs'[k].at \in {"seed", "get"},
           UNCHANGED <<rows, samples, incidents, paused>>,
           MonCalm => (\A m \in Monitors : LoopFits(m)') /\ \A c \in calls' : CallFits(c)',
           MonCalm => \A k \in DOMAIN jobs' \ DOMAIN jobs : TickFits(k)',
           Unchecked' => \A k \in DOMAIN jobs' \ DOMAIN jobs : jobs'[k].at = "seed"
    PROVE  MonCalm'
<1>1. MonCalm /\ MonTypes /\ \A m \in Monitors : MonAlone(m)'
  BY CalmStep DEF MonInv, MonAlways
<1>2. rows' = rows /\ samples' = samples /\ incidents' = incidents /\ paused' = paused
  OBVIOUS
<1>3. ASSUME NEW m \in Monitors, rows'[m].here
      PROVE  LogFits(m)'
  <2>1. LogFits(m)
    BY <1>1, <1>2, <1>3 DEF MonCalm
  <2>2. M!Open(m)' = M!Open(m)
    BY <1>2 DEF M!Open
  <2>3. Within(m)' = Within(m) /\ \A k \in Within(m) : jobs'[k] = jobs[k]
    <3>1. ASSUME NEW k \in DOMAIN jobs', k \notin DOMAIN jobs
          PROVE  jobs'[k].at \notin {"transition", "open", "close"}
      BY <3>1
    <3> QED
      BY <3>1 DEF Within
  <2>4. Fits(m, rows[m].status) => Fits(m, rows[m].status)'
    BY <1>2, <2>2 DEF Fits
  <2>5. \A k \in Within(m) : Fits(m, jobs[k].seen.row.status) => Fits(m, jobs[k].seen.row.status)'
    BY <1>2, <2>2, <2>3 DEF Fits
  <2> QED
    BY <1>2, <2>1, <2>2, <2>3, <2>4, <2>5 DEF LogFits
<1>4. ASSUME NEW k \in DOMAIN jobs', Ticking(k)'
      PROVE  TickFits(k)'
  <2>1. CASE k \in DOMAIN jobs
    <3>1. Ticking(k) /\ jobs'[k] = jobs[k]
      BY <1>4, <2>1 DEF Ticking
    <3>2. TickFits(k)
      BY <1>1, <2>1, <3>1 DEF MonCalm
    <3> QED
      BY <1>2, <3>1, <3>2 DEF TickFits, M!Gone
  <2>2. CASE k \notin DOMAIN jobs
    BY <1>1, <1>4, <2>2
  <2> QED
    BY <2>1, <2>2
<1>5. ASSUME Unchecked', NEW k \in DOMAIN jobs', ~jobs'[k].dead, rows'[jobs'[k].mon].here
      PROVE  Streak(k)'
  <2>0. Unchecked
    BY <1>5 DEF Unchecked
  <2>1. CASE k \in DOMAIN jobs
    <3>1. jobs'[k] = jobs[k]
      BY <2>1
    <3>2. Streak(k)
      BY <1>1, <1>2, <1>5, <2>0, <2>1, <3>1 DEF MonCalm
    <3> QED
      BY <1>2, <3>1, <3>2 DEF Streak, M!Trailing, M!Changed
  <2>2. CASE k \notin DOMAIN jobs
    <3>1. jobs'[k].at = "seed"
      BY <1>5, <2>2
    <3> QED
      BY <3>1 DEF Streak
  <2> QED
    BY <2>1, <2>2
<1> QED
  BY <1>1, <1>3, <1>4, <1>5 DEF MonCalm

\* Jobs added to the others.
LEMMA JobsAdded ==
    ASSUME NEW n \in Nat, NEW S, NEW f \in [1..n -> S], NEW s \in Seq(S)
    PROVE  /\ (s \o f) \in Seq(S) /\ Len(s \o f) = Len(s) + n
           /\ \A k \in DOMAIN s : (s \o f)[k] = s[k]
           /\ \A k \in 1..(Len(s) + n) : k \in DOMAIN s \/ (k - Len(s) \in 1..n /\ (s \o f)[k] = f[k - Len(s)])
  OBVIOUS

\* The image of a finite set is finite.
LEMMA FiniteImage ==
    ASSUME NEW S, IsFiniteSet(S), NEW R, NEW f \in [S -> R], \A t \in R : \E s \in S : f[s] = t
    PROVE  IsFiniteSet(R)
<1>1. f \in Surjection(S, R)
  BY DEF Surjection
<1> QED
  BY <1>1, FS_Surjection

\* ReloadStart: the new loop is the one that can be cancelled.
LEMMA StepReloadStart ==
    ASSUME MonInv, M!Noted, NEW c \in calls, M!ReloadStart(c)
    PROVE  MonInv'
<1>1. MonTypes /\ MonAlways
  BY DEF MonInv, MonAlways
<1>2. c \in MonCall /\ c.mon \in Monitors /\ c.do = "start"
  BY <1>1 DEF MonTypes, MonCall, M!ReloadStart
<1>n. PICK n \in Monitors : n = c.mon
  BY <1>2
<1>3. jobs \in Seq(MonJob) /\ loops \in [Monitors -> Nat] /\ calls \subseteq MonCall /\ Len(jobs) \in Nat
  BY <1>1 DEF MonTypes
<1>l. PICK l \in Nat : l = Len(jobs) + 1
  BY <1>3
<1>4. /\ jobs' = Append(jobs, M!Started(n, "loop")) /\ loops' = [loops EXCEPT ![n] = l] /\ calls' = calls \ {c}
      /\ UNCHANGED <<rows, samples, incidents, notices, now, ops, paused>>
  BY <1>n, <1>l DEF M!ReloadStart, M!StartLoop, M!Then
<1> DEFINE x == M!Started(n, "loop")
<1>5. x \in MonJob /\ x.mon = n /\ x.kind = "loop" /\ ~x.dead /\ x.at = "seed" /\ ~x.alerted /\ x.seen = M!NothingRead
  BY JobStarts
<1>6. jobs' = Append(jobs, x)
  BY <1>4
<1> HIDE DEF x
<1>7. /\ jobs' \in Seq(MonJob) /\ DOMAIN jobs \subseteq DOMAIN jobs' /\ jobs' # <<>> /\ l \in DOMAIN jobs' /\ l \notin DOMAIN jobs
      /\ jobs'[l] = x /\ l # 0
      /\ \A k \in DOMAIN jobs : jobs'[k] = jobs[k]
      /\ \A k \in DOMAIN jobs' \ DOMAIN jobs : k = l
  BY <1>3, <1>5, <1>6, <1>l
<1>8. /\ loops' \in [Monitors -> Nat] /\ loops'[n] = l /\ \A m \in Monitors : m # n => loops'[m] = loops[m]
  BY <1>3, <1>4
<1>9. /\ rows' = rows /\ samples' = samples /\ incidents' = incidents /\ notices' = notices /\ now' = now /\ paused' = paused
      /\ calls' \subseteq calls /\ ops' = ops /\ ops' \in Nat /\ overlapped' \in BOOLEAN
  BY <1>1, <1>4, NotedTyped DEF MonTypes
<1>10. MonAlways'
  <2>1. ops' = 0 => /\ ops = 0
                    /\ \A k \in DOMAIN jobs' \ DOMAIN jobs : /\ jobs'[k].kind = "loop" /\ \A d \in calls' : d.mon # jobs'[k].mon
                                                             /\ \A h \in DOMAIN jobs' : jobs'[h].mon = jobs'[k].mon => h = k
    <3> SUFFICES ASSUME ops' = 0
                 PROVE  /\ \A d \in calls' : d.mon # n
                        /\ \A h \in DOMAIN jobs' : jobs'[h].mon = n => h = l
      BY <1>5, <1>7, <1>9
    <3>1. OnlyBooted
      BY <1>1, <1>9 DEF MonAlways
    <3>2. \A d \in calls' : d.mon # n
      BY <1>4, <1>n, <3>1 DEF OnlyBooted
    <3>3. \A h \in DOMAIN jobs : jobs'[h].mon # n
      BY <1>7, <1>n, <3>1 DEF OnlyBooted
    <3> QED
      BY <1>7, <3>2, <3>3
  <2>2. \A m \in Monitors : \/ loops'[m] = loops[m]
                            \/ loops'[m] \in DOMAIN jobs' /\ jobs'[loops'[m]].mon = m /\ jobs'[loops'[m]].kind = "loop"
    BY <1>5, <1>7, <1>8
  <2>3. \A k \in DOMAIN jobs' \ DOMAIN jobs : /\ ~jobs'[k].alerted /\ ~jobs'[k].dead /\ jobs'[k].seen = M!NothingRead
                                              /\ jobs'[k].at = IF jobs'[k].kind = "loop" THEN "seed" ELSE "get"
    BY <1>5, <1>7
  <2> QED
    BY <1>1, <1>7, <1>8, <1>9, <2>1, <2>2, <2>3, GrowAlways
<1>11. MonCalm => CallFits(c) /\ ~M!Gone(n) /\ rows[n].here /\ M!Alive(n) = {} /\ loops[n] = 0
  BY <1>2, <1>n DEF MonCalm, CallFits, M!Gone
<1>12. \A m \in Monitors : m # n => M!Alive(m)' = M!Alive(m)
  BY <1>5, <1>7 DEF M!Alive
<1>13. MonCalm => M!Alive(n)' = {l}
  <2> SUFFICES ASSUME MonCalm
               PROVE  M!Alive(n)' = {l}
    OBVIOUS
  <2>1. l \in M!Alive(n)'
    BY <1>5, <1>7 DEF M!Alive
  <2>2. ASSUME NEW k \in M!Alive(n)', k # l
        PROVE  FALSE
    <3>1. k \in DOMAIN jobs /\ jobs'[k] = jobs[k]
      BY <1>7, <2>2 DEF M!Alive
    <3>2. k \in M!Alive(n)
      BY <2>2, <3>1 DEF M!Alive
    <3> QED
      BY <1>11, <3>2
  <2> QED
    BY <2>1, <2>2
<1>14. \A m \in Monitors : M!Gone(m)' <=> M!Gone(m)
  BY <1>9 DEF M!Gone
<1>15. ASSUME MonCalm, NEW m \in Monitors
       PROVE  LoopFits(m)'
  <2>1. CASE m = n
    BY <1>8, <1>11, <1>13, <1>14, <1>15, <2>1 DEF LoopFits, Steady
  <2>2. CASE m # n
    <3>1. LoopFits(m)
      BY <1>15 DEF MonCalm
    <3>2. M!Alive(m)' = M!Alive(m) /\ loops'[m] = loops[m] /\ (M!Gone(m)' <=> M!Gone(m))
      BY <1>8, <1>12, <1>14, <2>2
    <3>3. Steady(m) => Steady(m)'
      BY <3>2 DEF Steady
    <3>4. (\A d \in calls' : d.mon = m => d.do \notin {"reload", "stop", "start"}) => \A d \in calls : d.mon = m => d.do \notin {"reload", "stop", "start"}
      BY <1>4, <1>n, <2>2
    <3> QED
      BY <3>1, <3>2, <3>3, <3>4 DEF LoopFits
  <2> QED
    BY <2>1, <2>2
<1>16. ASSUME MonCalm, NEW d \in calls'
       PROVE  CallFits(d)'
  <2>1. d \in calls /\ d # c /\ d.mon \in Monitors
    BY <1>3, <1>4, <1>16 DEF MonCall
  <2>2. d.mon # n
    BY <1>16, <1>n, <2>1 DEF MonCalm, MonAlone
  <2>3. CallFits(d)
    BY <1>16, <2>1 DEF MonCalm
  <2>4. M!Alive(d.mon)' = M!Alive(d.mon) /\ loops'[d.mon] = loops[d.mon] /\ (M!Gone(d.mon)' <=> M!Gone(d.mon))
    BY <1>8, <1>12, <1>14, <2>1, <2>2
  <2> QED
    BY <1>9, <2>3, <2>4 DEF CallFits
<1>17. MonCalm => TickFits(l)'
  BY <1>5, <1>7, <1>9, <1>11, <1>14 DEF TickFits
<1>18. ASSUME ~overlapped'
       PROVE  MonCalm'
  BY <1>5, <1>7, <1>9, <1>10, <1>15, <1>16, <1>17, <1>18, GrowCalm
<1> QED
  BY <1>10, <1>18 DEF MonInv

\* Check: the manual checks have nothing to remember.
LEMMA StepCheck ==
    ASSUME MonInv, M!Noted, NEW set, set \subseteq Monitors, \A m \in set : rows[m].here, M!Check(set)
    PROVE  MonInv'
<1>1. MonTypes /\ MonAlways
  BY DEF MonInv, MonAlways
<1>2. IsFiniteSet(set) /\ Cardinality(set) \in Nat
  BY FS_Subset, FS_CardinalityType, MonitorsFit
<1>N. PICK N \in Nat : N = Cardinality(set)
  BY <1>2
<1>3. PICK order \in [1..N -> set] : jobs' = jobs \o [k \in DOMAIN order |-> M!Started(order[k], "check")]
  BY <1>N, MonitorsCount DEF M!Check
<1>4. /\ jobs # <<>> /\ set # {} /\ ops' = ops + 1
      /\ UNCHANGED <<rows, samples, incidents, loops, calls, notices, now, paused>>
  BY DEF M!Check, M!MayAsk
<1>s. jobs \in Seq(MonJob) /\ loops \in [Monitors -> Nat] /\ Len(jobs) \in Nat /\ DOMAIN jobs = 1..Len(jobs)
  BY <1>1 DEF MonTypes
<1> DEFINE f == [k \in 1..N |-> M!Started(order[k], "check")]
<1>5. f \in [1..N -> MonJob] /\ \A k \in 1..N : /\ f[k].mon \in set /\ f[k].kind = "check" /\ ~f[k].dead /\ f[k].at = "get"
                                               /\ ~f[k].alerted /\ f[k].seen = M!NothingRead
  <2>1. \A k \in 1..N : order[k] \in set /\ order[k] \in Monitors
    OBVIOUS
  <2> QED
    BY <2>1, JobStarts
<1>6. jobs' = jobs \o f
  BY <1>3
<1> HIDE DEF f
<1>7. /\ jobs' \in Seq(MonJob) /\ Len(jobs') = Len(jobs) + N
      /\ \A k \in DOMAIN jobs : jobs'[k] = jobs[k]
      /\ \A k \in 1..(Len(jobs) + N) : k \in DOMAIN jobs \/ (k - Len(jobs) \in 1..N /\ jobs'[k] = f[k - Len(jobs)])
  <2>1. N \in Nat /\ f \in [1..N -> MonJob] /\ jobs \in Seq(MonJob)
    BY <1>5, <1>s
  <2>2. /\ (jobs \o f) \in Seq(MonJob) /\ Len(jobs \o f) = Len(jobs) + N
        /\ \A k \in DOMAIN jobs : (jobs \o f)[k] = jobs[k]
        /\ \A k \in 1..(Len(jobs) + N) : k \in DOMAIN jobs \/ (k - Len(jobs) \in 1..N /\ (jobs \o f)[k] = f[k - Len(jobs)])
    BY <2>1
  <2> QED
    BY <1>6, <2>2, Zenon
<1>8. /\ DOMAIN jobs' = 1..(Len(jobs) + N) /\ DOMAIN jobs \subseteq DOMAIN jobs' /\ jobs' # <<>>
  BY <1>4, <1>7, <1>s
<1>9. \A k \in DOMAIN jobs' \ DOMAIN jobs : /\ jobs'[k].mon \in set /\ jobs'[k].kind = "check" /\ ~jobs'[k].dead /\ jobs'[k].at = "get"
                                            /\ ~jobs'[k].alerted /\ jobs'[k].seen = M!NothingRead
  BY <1>5, <1>7, <1>8
<1>10. /\ rows' = rows /\ samples' = samples /\ incidents' = incidents /\ notices' = notices /\ now' = now /\ paused' = paused
       /\ calls' = calls /\ loops' = loops /\ ops' # 0 /\ ops' \in Nat /\ overlapped' \in BOOLEAN
  BY <1>1, <1>4, NotedTyped DEF MonTypes
<1>11. MonAlways'
  <2>1. \A k \in DOMAIN jobs' \ DOMAIN jobs : /\ ~jobs'[k].alerted /\ ~jobs'[k].dead /\ jobs'[k].seen = M!NothingRead
                                              /\ jobs'[k].at = IF jobs'[k].kind = "loop" THEN "seed" ELSE "get"
    BY <1>9
  <2>2. loops' \in [Monitors -> Nat] /\ \A m \in Monitors : loops'[m] = loops[m]
    BY <1>10, <1>s
  <2> QED
    BY <1>1, <1>7, <1>8, <1>10, <2>1, <2>2, GrowAlways
<1>12. \A m \in Monitors : M!Alive(m)' = M!Alive(m) /\ (M!Gone(m)' <=> M!Gone(m))
  <2>1. ASSUME NEW m \in Monitors
        PROVE  M!Alive(m)' = M!Alive(m)
    BY <1>7, <1>8, <1>9 DEF M!Alive
  <2> QED
    BY <1>10, <2>1 DEF M!Gone
<1>13. \A m \in Monitors : Steady(m)' <=> Steady(m)
  BY <1>10, <1>12 DEF Steady
<1>14. MonCalm => \A m \in Monitors : LoopFits(m)'
  <2>1. MonCalm => \A m \in Monitors : LoopFits(m)
    BY DEF MonCalm
  <2>2. \A m \in Monitors : LoopFits(m) => LoopFits(m)'
    BY <1>4, <1>10, <1>12, <1>13 DEF LoopFits
  <2> QED
    BY <2>1, <2>2
<1>15. MonCalm => \A c \in calls' : CallFits(c)'
  <2>1. MonCalm => \A c \in calls : CallFits(c)
    BY DEF MonCalm
  <2>2. \A c \in calls : c.mon \in Monitors
    BY <1>1 DEF MonTypes, MonCall
  <2>3. \A c \in calls : CallFits(c) => CallFits(c)'
    BY <1>10, <1>12, <2>2 DEF CallFits
  <2> QED
    BY <1>10, <2>1, <2>3
<1>16. \A k \in DOMAIN jobs' \ DOMAIN jobs : TickFits(k)'
  <2>1. ASSUME NEW k \in DOMAIN jobs' \ DOMAIN jobs
        PROVE  TickFits(k)'
    <3>1. rows[jobs'[k].mon].here /\ jobs'[k].kind = "check" /\ jobs'[k].at = "get"
      BY <1>9, <2>1
    <3> QED
      BY <1>10, <3>1 DEF TickFits
  <2> QED
    BY <2>1
<1>17. ~Unchecked'
  <2>1. N # 0
    BY <1>2, <1>4, <1>N, FS_EmptySet
  <2>2. Len(jobs) + N \in DOMAIN jobs' \ DOMAIN jobs
    BY <1>8, <1>s, <2>1
  <2> QED
    BY <1>9, <2>2 DEF Unchecked
<1>18. ASSUME ~overlapped'
       PROVE  MonCalm'
  BY <1>7, <1>8, <1>9, <1>10, <1>11, <1>14, <1>15, <1>16, <1>17, <1>18, GrowCalm
<1> QED
  BY <1>11, <1>18 DEF MonInv

\* Boot: every monitor that is there and enabled is about to be loaded.
LEMMA StepBoot ==
    ASSUME MonInv, M!Noted, M!Boot
    PROVE  MonInv'
<1>1. MonTypes /\ MonAlways
  BY DEF MonInv, MonAlways
<1> DEFINE reload(m) == [do |-> "reload", mon |-> m, row |-> M!NoRow, enabled |-> TRUE, threshold |-> 0]
           S == {m \in Monitors : rows[m].here /\ rows[m].enabled}
<1>2. /\ jobs = <<>> /\ calls = {} /\ calls' = {reload(m) : m \in S}
      /\ UNCHANGED <<rows, samples, incidents, loops, jobs, notices, now, ops, paused>>
  BY DEF M!Boot
<1>3. \A m \in Monitors : reload(m) \in MonCall /\ reload(m).mon = m /\ reload(m).do = "reload" /\ reload(m).enabled = TRUE
  BY MonNothing DEF MonCall
<1>4. IsFiniteSet(calls')
  <2>1. IsFiniteSet(S)
    BY FS_Subset, MonitorsFit
  <2> DEFINE f == [m \in S |-> reload(m)]
  <2>2. f \in [S -> calls'] /\ \A t \in calls' : \E s \in S : f[s] = t
    BY <1>2
  <2> HIDE DEF f, S, reload
  <2> QED
    BY <2>1, <2>2, FiniteImage
<1>5. /\ calls' \subseteq MonCall
      /\ \A c \in calls' : c.mon \in S /\ c.do = "reload" /\ c.enabled = TRUE
      /\ \A c, d \in calls' : c.mon = d.mon => c = d
      /\ \A m \in S : \E c \in calls' : c.mon = m /\ c.do = "reload"
  <2> HIDE DEF reload
  <2> QED
    BY <1>2, <1>3
<1> HIDE DEF reload
<1>6. /\ rows' = rows /\ samples' = samples /\ incidents' = incidents /\ notices' = notices /\ paused' = paused
      /\ jobs' = jobs /\ loops' = loops /\ ops' = ops /\ now' \in Nat /\ ops' \in Nat /\ overlapped' \in BOOLEAN
      /\ rows' \in [Monitors -> MonRow] /\ samples' \in [Monitors -> Seq(BOOLEAN)] /\ incidents' \subseteq Incident
      /\ jobs' \in Seq(MonJob) /\ loops' \in [Monitors -> Nat] /\ paused' \subseteq Monitors /\ DOMAIN jobs = {}
  BY <1>1, <1>2, NotedTyped DEF MonTypes
<1>7. MonAlways'
  <2>1. \A m \in Monitors : loops'[m] \in {0, loops[m]}
    BY <1>6
  <2>2. \A c \in calls' : c.do \in {"reload", "start"}
    BY <1>5
  <2> QED
    BY <1>1, <1>4, <1>5, <1>6, <2>1, <2>2, MoveAlways
<1>8. ASSUME ~overlapped'
      PROVE  MonCalm'
  <2>1. MonCalm /\ \A m \in Monitors : MonAlone(m)'
    BY <1>7, <1>8, CalmStep DEF MonInv, MonAlways
  <2>2. \A m \in Monitors : loops[m] = 0
    BY <1>1, <1>2 DEF MonAlways
  <2>3. \A m \in Monitors : /\ M!Alive(m)' = {} /\ Within(m)' = {} /\ Within(m) = {} /\ M!Open(m)' = M!Open(m) /\ (M!Gone(m)' <=> m \notin S)
    BY <1>6 DEF M!Alive, Within, M!Open, M!Gone
  <2>4. ASSUME NEW m \in Monitors
        PROVE  LoopFits(m)'
    <3>1. m \in S => ~(\A c \in calls' : c.mon = m => c.do \notin {"reload", "stop", "start"})
      BY <1>5
    <3>2. m \notin S => Steady(m)'
      BY <1>6, <2>2, <2>3 DEF Steady
    <3> QED
      BY <2>3, <3>1, <3>2 DEF LoopFits
  <2>5. ASSUME NEW m \in Monitors, rows'[m].here
        PROVE  LogFits(m)'
    <3>1. LogFits(m)
      BY <1>6, <2>1, <2>5 DEF MonCalm
    <3>2. Fits(m, rows[m].status) => Fits(m, rows[m].status)'
      BY <1>6, <2>3 DEF Fits
    <3> QED
      BY <2>3, <3>1, <3>2 DEF LogFits
  <2>6. ASSUME NEW c \in calls'
        PROVE  CallFits(c)'
    BY <1>5, <1>6, <2>6 DEF CallFits
  <2>7. DOMAIN jobs' = {}
    BY <1>6
  <2> QED
    BY <2>1, <2>4, <2>5, <2>6, <2>7 DEF MonCalm
<1> QED
  BY <1>7, <1>8 DEF MonInv

\* Crash: the rows, the samples and the log are what they were; nothing else remains.
LEMMA StepCrash ==
    ASSUME MonInv, M!Noted, M!Crash
    PROVE  MonInv'
<1>1. MonTypes /\ MonAlways
  BY DEF MonInv, MonAlways
<1>2. /\ jobs # <<>> /\ ops' = ops + 1
      /\ jobs' = <<>> /\ calls' = {} /\ notices' = <<>> /\ loops' = [m \in Monitors |-> 0]
      /\ rows' = rows /\ samples' = samples /\ incidents' = incidents /\ now' = now /\ paused' = paused
  BY DEF M!Crash, M!MayAsk
<1>3. MonTypes' /\ ops' # 0
  <2>1. IsFiniteSet(calls')
    BY <1>2, FS_EmptySet
  <2>2. overlapped' \in BOOLEAN
    BY NotedTyped
  <2> QED
    BY <1>1, <1>2, <2>1, <2>2 DEF MonTypes
<1>4. DOMAIN jobs' = {} /\ DOMAIN notices' = {} /\ \A m \in Monitors : loops'[m] = 0
  BY <1>2
<1>5. MonAlways'
  <2>1. LoopsNamed' /\ Sent' /\ M!NoticesPaired' /\ EachHasLast'
    BY <1>4 DEF LoopsNamed, Sent, M!NoticesPaired, EachHasLast
  <2> QED
    BY <1>2, <1>3, <1>4, <2>1 DEF MonAlways
<1>6. ASSUME ~overlapped'
      PROVE  MonCalm'
  <2>1. MonCalm /\ \A m \in Monitors : MonAlone(m)'
    BY <1>3, <1>6, CalmStep DEF MonInv, MonAlways
  <2>2. ASSUME NEW m \in Monitors
        PROVE  M!Idle(m)
    <3> DEFINE C == {c \in calls : c.mon = m}
               J == {j \in DOMAIN jobs : jobs[j].mon = m /\ jobs[j].at \notin {"wait", "end"}}
    <3>1. ~(M!Actors(m) > 0)
      BY <1>2, <1>6 DEF M!Noted, M!Overlap
    <3>2. IsFiniteSet(C)
      BY <1>1, FS_Subset DEF MonTypes
    <3>3. IsFiniteSet(J)
      <4>1. IsFiniteSet(1..Len(jobs))
        BY <1>1, FS_Interval DEF MonTypes
      <4>2. J \subseteq 1..Len(jobs)
        BY <1>1 DEF MonTypes
      <4> QED
        BY <4>1, <4>2, FS_Subset
    <3>4. Cardinality(C) \in Nat /\ Cardinality(J) \in Nat
      <4> HIDE DEF C, J
      <4> QED
        BY <3>2, <3>3, FS_CardinalityType
    <3>5. M!Actors(m) = Cardinality(C) + Cardinality(J)
      BY MonitorsCount DEF M!Actors
    <3> HIDE DEF C, J
    <3> QED
      BY <3>1, <3>4, <3>5 DEF M!Idle
  <2>3. \A m \in Monitors : M!Alive(m)' = {} /\ Within(m)' = {} /\ M!Open(m)' = M!Open(m)
    BY <1>2, <1>4 DEF M!Alive, Within, M!Open
  <2>4. ASSUME NEW m \in Monitors, rows'[m].here
        PROVE  LogFits(m)'
    <3>1. LogFits(m)
      BY <1>2, <2>1, <2>4 DEF MonCalm
    <3>2. Within(m) = {}
      BY <1>1, <2>2, <2>4, IdleIsFree DEF Within, Ticking
    <3>3. Fits(m, rows[m].status) => Fits(m, rows[m].status)'
      BY <1>2, <2>3 DEF Fits
    <3> QED
      BY <2>3, <3>1, <3>2, <3>3 DEF LogFits
  <2>5. \A m \in Monitors : LoopFits(m)'
    BY <1>2, <2>3 DEF LoopFits
  <2> QED
    BY <1>2, <1>4, <2>1, <2>4, <2>5 DEF MonCalm
<1> QED
  BY <1>5, <1>6 DEF MonInv

\* The monitors begin in their invariant.
LEMMA MonStarts ==
    ASSUME M!MonInit
    PROVE  MonInv
<1>1. PICK there \in Populations :
        rows = [m \in Monitors |-> [here |-> m \in there, enabled |-> TRUE, status |-> "unknown", threshold |-> CHOOSE n \in Thresholds : TRUE, muted |-> 0]]
  BY DEF M!MonInit
<1>2. /\ samples = [m \in Monitors |-> <<>>] /\ loops = [m \in Monitors |-> 0] /\ jobs = <<>>
      /\ incidents = {} /\ calls = {} /\ notices = <<>> /\ now = 0 /\ ops = 0 /\ overlapped = FALSE /\ paused = {}
  BY DEF M!MonInit
<1>3. (CHOOSE n \in Thresholds : TRUE) \in Nat
  BY MonitorsFit
<1>4. /\ rows \in [Monitors -> MonRow]
      /\ \A m \in Monitors : rows[m].status = "unknown" /\ rows[m].muted = 0
  <2> DEFINE n == CHOOSE n \in Thresholds : TRUE
  <2>1. n \in Nat
    BY <1>3
  <2>2. rows = [m \in Monitors |-> [here |-> m \in there, enabled |-> TRUE, status |-> "unknown", threshold |-> n, muted |-> 0]]
    BY <1>1
  <2> HIDE DEF n
  <2>3. \A m \in Monitors : (m \in there) \in BOOLEAN
    BY SMT
  <2>4. \A b \in BOOLEAN : [here |-> b, enabled |-> TRUE, status |-> "unknown", threshold |-> n, muted |-> 0] \in MonRow
    BY <2>1 DEF MonRow, Statuses
  <2>5. \A m \in Monitors : rows[m] = [here |-> m \in there, enabled |-> TRUE, status |-> "unknown", threshold |-> n, muted |-> 0]
    BY <2>2
  <2>6. \A m \in Monitors : rows[m] \in MonRow
    BY <2>3, <2>4, <2>5, Zenon
  <2>7. rows \in [Monitors -> MonRow]
    BY <2>2, <2>6
  <2> QED
    BY <2>5, <2>7
<1>5. MonTypes
  <2>1. IsFiniteSet(calls)
    BY <1>2, FS_EmptySet
  <2>2. overlapped \in BOOLEAN
    BY <1>2, Zenon
  <2> QED
    BY <1>2, <1>4, <2>1, <2>2 DEF MonTypes
<1>6. DOMAIN jobs = {} /\ DOMAIN notices = {}
  BY <1>2
<1>7. LoopsNamed /\ Sent /\ M!NoticesPaired /\ EachHasLast
  BY <1>2, <1>6 DEF LoopsNamed, Sent, M!NoticesPaired, EachHasLast
<1>8. OnlyBooted
  BY <1>2, <1>4, <1>6 DEF OnlyBooted
<1>9. MonAlways
  BY <1>2, <1>5, <1>7, <1>8 DEF MonAlways
<1>10. \A m \in Monitors : M!Alive(m) = {} /\ Within(m) = {} /\ M!Open(m) = {}
  BY <1>2, <1>6 DEF M!Alive, Within, M!Open
<1>11. \A m \in Monitors : MonAlone(m) /\ LoopFits(m)
  BY <1>2, <1>6, <1>10 DEF MonAlone, LoopFits
<1>12. \A m \in Monitors : LogFits(m)
  BY <1>4, <1>10 DEF LogFits, Fits
<1>13. MonCalm
  BY <1>2, <1>6, <1>11, <1>12 DEF MonCalm
<1> QED
  BY <1>9, <1>13 DEF MonInv

\* Every step of the monitors keeps it.
LEMMA MonMoves ==
    ASSUME MonInv, M!MonNext
    PROVE  MonInv'
<1>1. M!Noted
  BY DEF M!MonNext, M!Operators, M!Work, M!Run
<1>2. MonTypes /\ now \in Nat /\ Thresholds \subseteq Nat
  BY MonitorsFit DEF MonInv, MonAlways, MonTypes
<1>3. CASE M!Boot
  BY <1>1, <1>3, StepBoot
<1>4. CASE M!Crash
  BY <1>1, <1>4, StepCrash
<1>5. CASE M!CheckAll
  <2>1. PICK set : set = {m \in Monitors : rows[m].here /\ rows[m].enabled}
    OBVIOUS
  <2>2. M!Check(set) /\ set \subseteq Monitors /\ \A m \in set : rows[m].here
    BY <1>5, <2>1 DEF M!CheckAll
  <2> QED
    BY <1>1, <2>2, StepCheck
<1>6. ASSUME NEW m \in Monitors, M!Pause(m) \/ M!Resume(m) \/ M!Delete(m)
      PROVE  MonInv'
  <2>1. PICK do \in {"put", "pause", "resume", "delete"} : rows[m].here /\ M!Ask(do, m, 0, FALSE)
    BY <1>6 DEF M!Pause, M!Resume, M!Delete
  <2>2. 0 \in Nat /\ \E b \in BOOLEAN : b = FALSE
    OBVIOUS
  <2> QED
    BY <1>1, <2>1, <2>2, StepAsk
<1>7. ASSUME NEW m \in Monitors, M!CheckNow(m)
      PROVE  MonInv'
  <2>1. PICK set : set = {m}
    OBVIOUS
  <2>2. M!Check(set) /\ set \subseteq Monitors /\ \A k \in set : rows[k].here
    BY <1>7, <2>1 DEF M!CheckNow
  <2> QED
    BY <1>1, <2>2, StepCheck
<1>8. ASSUME NEW m \in Monitors, NEW n \in Thresholds, NEW enabled \in BOOLEAN, M!Save(m, n, enabled)
      PROVE  MonInv'
  <2>1. rows[m].here /\ M!Ask("put", m, n, enabled) /\ n \in Nat
    BY <1>2, <1>8 DEF M!Save
  <2> QED
    BY <1>1, <2>1, StepAsk
<1>9. ASSUME NEW m \in Monitors, NEW u \in {0, now + 1}, M!SetMute(m, u)
      PROVE  MonInv'
  <2>1. u \in Nat
    BY <1>2
  <2> QED
    BY <1>1, <1>9, <2>1, StepSetMute
<1>10. ASSUME NEW c \in calls, M!Handle(c)
       PROVE  MonInv'
  BY <1>1, <1>10, StepPutWrite, StepSetEnabled, StepDeleteRow, StepReloadStop, StepReloadStart DEF M!Handle
<1>11. ASSUME NEW j \in DOMAIN jobs, M!Step(j) \/ M!Tick(j)
       PROVE  MonInv'
  <2>1. CASE \E ok \in BOOLEAN : M!Probe(j, ok)
    BY <1>1, <2>1, StepProbe
  <2> QED
    BY <1>1, <1>11, <2>1, StepSeed, StepDone, StepTick, StepGetRow, StepStopOwn, StepRecord, StepTransition, StepOpenIncident,
       StepCloseIncident, StepNotify DEF M!Step
<1>12. CASE M!Operators
  BY <1>3, <1>4, <1>5, <1>6, <1>7, <1>8, <1>9, <1>12 DEF M!Operators
<1>13. CASE M!Work
  BY <1>10, <1>13 DEF M!Work
<1>14. CASE \E j \in DOMAIN jobs : M!Run(j)
  BY <1>11, <1>14 DEF M!Run
<1> QED
  BY <1>12, <1>13, <1>14 DEF M!MonNext

\* So does every step of another part.
LEMMA MonKeeps ==
    ASSUME MonInv, UNCHANGED monitorVars
    PROVE  MonInv'
<1>1. UNCHANGED <<rows, samples, incidents, loops, jobs, calls, notices, now, ops, overlapped, paused>>
  BY DEF monitorVars
<1>2. MonTypes' /\ LoopsNamed' /\ Sent' /\ M!NoticesPaired' /\ EachHasLast' /\ (OnlyBooted => OnlyBooted')
  <2>1. MonTypes'
    BY <1>1 DEF MonInv, MonAlways, MonTypes
  <2>2. LoopsNamed'
    BY <1>1 DEF MonInv, MonAlways, LoopsNamed
  <2>3. Sent'
    BY <1>1 DEF MonInv, MonAlways, Sent, Remembers, By
  <2>4. M!NoticesPaired' /\ EachHasLast'
    BY <1>1, PairedStays DEF MonInv, MonAlways
  <2>5. OnlyBooted => OnlyBooted'
    BY <1>1 DEF OnlyBooted
  <2> QED
    BY <2>1, <2>2, <2>3, <2>4, <2>5
<1>3. MonAlways'
  BY <1>1, <1>2 DEF MonInv, MonAlways
<1>4. \A m \in Monitors : /\ MonAlone(m) => MonAlone(m)'
                          /\ LoopFits(m) => LoopFits(m)'
                          /\ LogFits(m) => LogFits(m)'
  BY <1>1 DEF MonAlone, Ticking, LoopFits, Steady, M!Gone, M!Alive, LogFits, Fits, Within, M!Open
<1>5. (\A c \in calls : CallFits(c)) => \A c \in calls' : CallFits(c)'
  BY <1>1 DEF CallFits, M!Gone, M!Alive
<1>6. \A j \in DOMAIN jobs : /\ Ticking(j)' <=> Ticking(j)
                             /\ TickFits(j) => TickFits(j)'
                             /\ Streak(j) => Streak(j)'
  BY <1>1 DEF Ticking, TickFits, M!Gone, Streak, M!Trailing
<1>7. Unchecked' <=> Unchecked
  BY <1>1 DEF Unchecked
<1>8. MonCalm => MonCalm'
  BY <1>1, <1>4, <1>5, <1>6, <1>7 DEF MonCalm
<1> QED
  BY <1>1, <1>3, <1>8 DEF MonInv

\* The four properties follow from the invariant: the fourth, NoticesPaired, is part of it.
LEMMA OneLoopHolds ==
    ASSUME MonInv
    PROVE  M!OneLoop
<1> SUFFICES ASSUME ~overlapped, jobs # <<>>, NEW m \in Monitors, M!Idle(m)
             PROVE  IF rows[m].here /\ rows[m].enabled THEN M!Alive(m) = {loops[m]} ELSE M!Alive(m) = {} /\ loops[m] = 0
  BY DEF M!OneLoop
<1>1. \A c \in calls : c.mon # m
  BY IdleIsFree DEF MonInv, MonAlways
<1>2. LoopFits(m)
  BY DEF MonInv, MonCalm
<1> QED
  BY <1>1, <1>2 DEF LoopFits, Steady, M!Gone

\* An idle monitor is in the middle of no transition, so its log fits its row.
LEMMA IncidentsMatchHolds ==
    ASSUME MonInv
    PROVE  M!IncidentsMatch
<1> SUFFICES ASSUME ~overlapped, NEW m \in Monitors, M!Idle(m), rows[m].here
             PROVE  /\ Cardinality(M!Open(m)) <= 1
                    /\ rows[m].status = "down" => M!Open(m) # {}
                    /\ (rows[m].status # "down" /\ m \notin paused) => M!Open(m) = {}
  BY MonitorsCount DEF M!IncidentsMatch
<1>1. \A j \in DOMAIN jobs : jobs[j].mon = m => ~Ticking(j)
  BY IdleIsFree DEF MonInv, MonAlways
<1>2. LogFits(m)
  BY DEF MonInv, MonCalm
<1>3. Within(m) = {}
  BY <1>1 DEF Within, Ticking
<1>4. Cardinality(M!Open(m)) <= 1
  <2>1. \A i, k \in M!Open(m) : i = k
    BY <1>2 DEF LogFits
  <2>2. CASE M!Open(m) = {}
    BY <2>2, FS_EmptySet
  <2>3. CASE M!Open(m) # {}
    <3>1. PICK i : i \in M!Open(m)
      BY <2>3
    <3>2. M!Open(m) = {i}
      BY <2>1, <3>1
    <3>3. Cardinality({i}) = 1
      BY FS_Singleton
    <3> QED
      BY <3>2, <3>3
  <2> QED
    BY <2>2, <2>3
<1> QED
  BY <1>2, <1>3, <1>4 DEF LogFits, Fits

\* The failures a loop has counted are trailing samples, and at least as many as its row asks.
LEMMA DownIsEarnedHolds ==
    ASSUME MonInv
    PROVE  M!DownIsEarned
<1> SUFFICES ASSUME ~overlapped, NEW j \in DOMAIN jobs, jobs[j].at = "transition", jobs[j].kind = "loop", M!Changed(jobs[j].seen),
                    jobs[j].seen.status = "down", \A k \in DOMAIN jobs : jobs[k].kind # "check"
             PROVE  M!Trailing(jobs[j].mon, jobs[j].seen.row.threshold)
  BY DEF M!DownIsEarned
<1>1. MonTypes /\ MonCalm
  BY DEF MonInv, MonAlways
<1>2. /\ jobs[j] \in MonJob /\ jobs[j].mon \in Monitors /\ jobs[j].fails \in Nat /\ jobs[j].seen.row.threshold \in Nat
  BY <1>1, JobTyped DEF MonJob, MonSeen, MonRow
<1>3. Ticking(j) /\ TickFits(j)
  BY <1>1 DEF MonCalm, Ticking
<1>4. Streak(j)
  BY <1>1, <1>3 DEF MonCalm, Unchecked, TickFits
<1>5. M!Trailing(jobs[j].mon, jobs[j].fails) /\ jobs[j].fails >= jobs[j].seen.row.threshold
  BY <1>4 DEF Streak
<1>6. samples[jobs[j].mon] \in Seq(BOOLEAN) /\ Len(samples[jobs[j].mon]) \in Nat
  BY <1>1, <1>2 DEF MonTypes
<1> QED
  BY <1>2, <1>5, <1>6 DEF M!Trailing

\* The monitors keep their invariant, whether they or others move.
LEMMA MonHolds == MonInv /\ [M!MonNext]_monitorVars => MonInv'
  BY MonMoves, MonKeeps

-----------------------------------------------------------------------------
(* The services together: one part moves, and keeps its own invariant.     *)

\* The invariants of the parts, in every state, whichever part moves.
ServicesInv == IInv /\ McpInv /\ ToolInv /\ AccInv /\ ThrInv /\ MonInv

\* All services begin in their invariants, whichever part moves.
LEMMA ServicesStart == Init => ServicesInv
BY InitHolds, McpStarts, ToolStarts, AccStarts, ThrStarts, MonStarts DEF Init, ServicesInv

\* A step of one part is a step of that part and leaves the variables of the others alone.
LEMMA ServicesStep == ServicesInv /\ [Next]_vars => ServicesInv'
<1> SUFFICES ASSUME ServicesInv, [Next]_vars PROVE ServicesInv'
  OBVIOUS
<1>1. /\ [VaultNext]_vaultVars /\ [McpNext]_mcpVars /\ [T!ToolNext]_toolVars
      /\ [A!AccNext]_accountVars /\ [A!ThrNext]_throttleVars /\ [M!MonNext]_monitorVars
  BY DEF Next, OfMonitors, OfVault, OfMcp, OfAccounts, OfThrottle, OfTools, vars
<1> QED
  BY <1>1, StepHolds, McpMoves, ToolMoves, AccKeeps, ThrKeeps, MonHolds DEF ServicesInv

LEMMA ServicesStay == Spec => []ServicesInv
BY ServicesStart, ServicesStep, PTL DEF Spec

-----------------------------------------------------------------------------
(* The theorems.                                                           *)

\* Beside the other services a vault stays what it is alone (internal/vault/vault.go).
THEOREM VaultStaysSound == Spec => []VaultSound
<1>1. ServicesInv => VaultSound
  BY DEF ServicesInv, IInv
<1> QED
  BY <1>1, ServicesStay, PTL

\* However the requests that connect, list, call, change and delete overlap, every open session is registered or in the
\* hands of the one request that will close it; away from changes, the state shown, the configuration used and the list
\* cached are those of now (internal/mcp/manager.go).  However many exchanges there are and whoever decides, leaves or
\* stays silent, slots are given back, a tool that acts ran on the first decision about that very call, no call ran
\* twice, and the model was told of every call it made before it was asked again (internal/llm/engine.go).
THEOREM AiIsSound == Spec => []AiSound
<1>1. ServicesInv => AiSound
  BY McpInvFits, ToolInvFits DEF ServicesInv, AiSound
<1> QED
  BY <1>1, ServicesStay, PTL

\* However the requests that make, patch, delete and sign in users overlap, and wherever the process ends, a setup token is
\* pending only while nobody is there; while no two writers of accounts overlapped, one who can administer the others
\* remains, and a user's sessions are of the password that is stored, and none for a user deleted or disabled
\* (internal/auth/store.go, service.go).  However often logins fail, nobody gets in before the last failure has cost its
\* time, and no block is longer than the cap (internal/auth/throttle.go).
THEOREM AccountsAreSound == Spec => []AccountsSound
<1>1. ServicesInv => AccountsSound
  BY AccInvIsSound DEF ServicesInv, AccountsSound, ThrInv, A!ThrottleSound
<1> QED
  BY <1>1, ServicesStay, PTL

\* Whatever is probed, saved, paused, resumed, muted or deleted, and wherever the process ends: while no two steps of one
\* monitor were under way at once, an enabled monitor has one loop and any other none, its log has at most one open
\* incident and agrees with its status, and an outage was earned by as many failures in a row as the row asks; and
\* whatever overlapped, no loop tells two recoveries without an outage between them (internal/monitor/engine.go, store.go,
\* rollup.go).
THEOREM MonitorsAreSound == Spec => []MonitorsSound
<1>1. ServicesInv => MonitorsSound
  BY OneLoopHolds, IncidentsMatchHolds, DownIsEarnedHolds DEF ServicesInv, MonitorsSound, MonInv, MonAlways
<1> QED
  BY <1>1, ServicesStay, PTL
=============================================================================
