---------------------------------- MODULE Accounts ----------------------------------
(***********************************************************************************)
(* Signing in, the keys of the user's own providers, and the backend that generated *)
(* media is asked from: AuthenticationService with its lock after failed attempts,  *)
(* ByokCredentialManager over the SecretStore, selectGenerativeBackend when the     *)
(* process starts, and the credential that each request then takes with it.  All    *)
(* of it runs on one thread; the account server, the providers' checks and the      *)
(* store may fail, and the store is shared with whoever edits the key ring.         *)
(***********************************************************************************)
EXTENDS Integers, Sequences

CONSTANTS
  Users, Providers, Keys,
  MaxConsecutiveFailures, LockoutDuration,    \* LockoutPolicy
  StorePersists,    \* the platform's key ring, or InMemorySecretStore
  MaxTime, MaxRejections, MaxChanges    \* bounds: the clock, rejected logins in a row, changes of keys and requests

ASSUME AccountsAssumption ==
  /\ MaxConsecutiveFailures \in Nat \ {0} /\ LockoutDuration \in Nat
  /\ StorePersists \in BOOLEAN /\ MaxTime \in Nat /\ MaxRejections \in Nat /\ MaxChanges \in Nat

VARIABLES
  now,
  attempts,      \* per user: [failures, lockedUntil], Unlocked when there is no lock
  session,       \* [user, entitlement], SignedOut when there is none
  entries,       \* the secret store: per provider its key, NoKey when there is none
  authorized,    \* authorizedProviders_
  backend,       \* the backend selected at the start: [id, provider]
  job,           \* the job being generated: the token its record keeps, NoToken when there is none
  rejections,    \* history: per user the times of the rejected logins since the last accepted one
  accepted,      \* history: the keys each provider has accepted
  heard,         \* history: per provider the last check that was heard: [key, verdict]
  sent,          \* history: the credentials sent, with the backend they went through
  changes        \* bounds the changes

lockVars == <<now, attempts, rejections>>
keyVars == <<entries, authorized, accepted, heard>>
requestVars == <<job, sent>>
accountVars == <<lockVars, session, keyVars, backend, requestVars, changes>>

Unlocked == -1
SignedOut == [user |-> "nobody", entitlement |-> "none"]
NoKey == "noKey"
NoToken == "noToken"
Offline == [id |-> "offline", provider |-> "none"]
NoAttempts == [failures |-> 0, lockedUntil |-> Unlocked]

Changed == changes < MaxChanges /\ changes' = changes + 1

(*------------------------------------ signing in ----------------------------------*)
(* A lock that has run out gives a fresh set of attempts.                            *)
IsLocked(u) == attempts[u].lockedUntil # Unlocked /\ now < attempts[u].lockedUntil
Failures(u) == IF attempts[u].lockedUntil # Unlocked THEN 0 ELSE attempts[u].failures

(* A mutant: the attempt that should lock the account is let pass.                   *)
RejectedLate(u) ==
  LET n == Failures(u) + 1 IN
  [failures |-> n, lockedUntil |-> IF n > MaxConsecutiveFailures THEN now + LockoutDuration ELSE Unlocked]

Rejected(u) ==
  LET n == Failures(u) + 1 IN
  [failures |-> n, lockedUntil |-> IF n >= MaxConsecutiveFailures THEN now + LockoutDuration ELSE Unlocked]

(* login(): the server accepts, rejects, or is not heard, which costs no attempt.    *)
Login(u, verdict, entitlement) ==
  /\ ~IsLocked(u) /\ Len(rejections[u]) < MaxRejections
  /\ CASE verdict = "accepted" ->
            /\ attempts' = [attempts EXCEPT ![u] = NoAttempts]
            /\ session' = [user |-> u, entitlement |-> entitlement]
            /\ rejections' = [rejections EXCEPT ![u] = <<>>]
       [] verdict = "rejected" ->
            /\ attempts' = [attempts EXCEPT ![u] = Rejected(u)]
            /\ rejections' = [rejections EXCEPT ![u] = Append(@, now)]
            /\ UNCHANGED session
       [] verdict = "unheard" ->
            /\ attempts' = [attempts EXCEPT ![u] = [failures |-> Failures(u), lockedUntil |-> Unlocked]]
            /\ UNCHANGED <<session, rejections>>
  /\ UNCHANGED <<now, keyVars, backend, requestVars, changes>>

Logout == session' = SignedOut /\ UNCHANGED <<lockVars, keyVars, backend, requestVars, changes>>

TimePasses ==
  /\ now < MaxTime /\ now' = now + 1
  /\ UNCHANGED <<attempts, rejections, session, keyVars, backend, requestVars, changes>>

(*------------------------------------- the keys -----------------------------------*)
(* saveCredential(): a rejected key takes the authorization of an earlier one with   *)
(* it, whose entry stays; an unheard check changes nothing; a store that cannot be   *)
(* written takes the authorization too.                                              *)
SaveCredential(p, k, verdict, written) ==
  /\ Changed
  /\ accepted' = IF verdict = "accepted" THEN [accepted EXCEPT ![p] = @ \cup {k}] ELSE accepted
  /\ heard' = IF verdict = "unheard" THEN heard ELSE [heard EXCEPT ![p] = [key |-> k, verdict |-> verdict]]
  /\ entries' = IF verdict = "accepted" /\ written THEN [entries EXCEPT ![p] = k] ELSE entries
  /\ authorized' = CASE verdict = "accepted" /\ written -> authorized \cup {p}
                     [] verdict = "unheard" -> authorized
                     [] OTHER -> authorized \ {p}
  /\ UNCHANGED <<lockVars, session, backend, requestVars>>

(* forget(): no longer authorized, whether or not the entry could be removed.        *)
Forget(p, removed) ==
  /\ Changed
  /\ authorized' = authorized \ {p}
  /\ entries' = IF removed THEN [entries EXCEPT ![p] = NoKey] ELSE entries
  /\ UNCHANGED <<accepted, heard, lockVars, session, backend, requestVars>>

(* The user removes an entry with another program.                                   *)
RemovedElsewhere(p) ==
  /\ entries[p] # NoKey /\ Changed /\ StorePersists
  /\ entries' = [entries EXCEPT ![p] = NoKey]
  /\ UNCHANGED <<authorized, accepted, heard, lockVars, session, backend, requestVars>>

(*------------------------------- the start of a process ---------------------------*)
(* A new process: nobody is signed in, nothing is authorized or locked, and so the   *)
(* probe of the composition finds no credentials; a backend other than the offline   *)
(* one is selected when the shell answers in the probe's place.                      *)
Selection(id, answered, provider) ==
  CASE id = "byok" /\ answered   -> [id |-> "byok", provider |-> provider]
    [] id = "hosted" /\ answered -> [id |-> "hosted", provider |-> "none"]
    [] OTHER                     -> Offline

StartProcess(id, answered, provider) ==
  /\ Changed
  /\ attempts' = [u \in Users |-> NoAttempts] /\ rejections' = [u \in Users |-> <<>>]
  /\ session' = SignedOut /\ authorized' = {} /\ job' = NoToken /\ sent' = {}
  /\ entries' = IF StorePersists THEN entries ELSE [p \in Providers |-> NoKey]
  /\ backend' = Selection(id, answered, provider)
  /\ UNCHANGED <<now, accepted, heard>>

(*----------------------------------- the requests ---------------------------------*)
(* AuthServiceGenerationGate::authorize: a subscription, or a key of the provider     *)
(* that the request names; the token is the session's, or says which provider.       *)
Authorization(p) ==
  IF session.entitlement = "active" THEN "session"
  ELSE IF p \in authorized THEN (IF session # SignedOut THEN "session" ELSE "placeholder")
  ELSE NoToken

(* unmetPrecondition() of the selected backend: the offline one never can, and the    *)
(* hosted one looks for an entry that nothing in the program writes.                 *)
Met == backend.id = "byok" /\ entries[backend.provider] # NoKey

(* credentialFor() of the backend: every request reads the store again, and one that  *)
(* finds no key is not sent.                                                         *)
Send ==
  IF Met THEN sent' = sent \cup {[provider |-> backend.provider, key |-> entries[backend.provider]]}
         ELSE UNCHANGED sent

(* makeGenerateHook, the gate, and the request that submits the job.                 *)
Generate(p) ==
  /\ Changed /\ job = NoToken /\ Met
  /\ Authorization(p) # NoToken
  /\ job' = Authorization(p) /\ Send
  /\ UNCHANGED <<lockVars, session, keyVars, backend>>

(* The requests that follow, after a logout or a forgotten key too.                  *)
Follow ==
  /\ Changed /\ job # NoToken
  /\ Send /\ job' \in {job, NoToken}
  /\ UNCHANGED <<lockVars, session, keyVars, backend>>

(*---------------------------------- specification ---------------------------------*)
AccountsInit ==
  /\ now = 0 /\ attempts = [u \in Users |-> NoAttempts] /\ rejections = [u \in Users |-> <<>>]
  /\ session = SignedOut
  /\ entries = [p \in Providers |-> NoKey] /\ authorized = {}
  /\ accepted = [p \in Providers |-> {}] /\ heard = [p \in Providers |-> [key |-> NoKey, verdict |-> "none"]]
  /\ backend = Offline /\ job = NoToken /\ sent = {} /\ changes = 0

Verdicts == {"accepted", "rejected", "unheard"}

AccountsNext ==
  \/ \E u \in Users, verdict \in Verdicts, entitlement \in {"active", "expired"} : Login(u, verdict, entitlement)
  \/ Logout \/ TimePasses
  \/ \E p \in Providers, k \in Keys, verdict \in Verdicts, written \in BOOLEAN : SaveCredential(p, k, verdict, written)
  \/ \E p \in Providers, removed \in BOOLEAN : Forget(p, removed)
  \/ \E p \in Providers : RemovedElsewhere(p)
  \/ \E id \in {"offline", "hosted", "byok"}, answered \in BOOLEAN, p \in Providers : StartProcess(id, answered, p)
  \/ \E p \in Providers : Generate(p)
  \/ Follow

AccountsSpec == AccountsInit /\ [][AccountsNext]_accountVars

(*------------------------------------ properties ----------------------------------*)
(* Variables keep their types.                                                       *)
AccountsTypeOK ==
  /\ now \in 0..MaxTime /\ changes \in 0..MaxChanges
  /\ \A u \in Users : attempts[u].failures \in 0..MaxConsecutiveFailures
  /\ session.entitlement \in {"none", "active", "expired"} /\ authorized \subseteq Providers
  /\ entries \in [Providers -> Keys \cup {NoKey}] /\ job \in {NoToken, "session", "placeholder"}

(***********************************************************************************)
(* Of a user's rejected logins in a row, no more than MaxConsecutiveFailures come   *)
(* within LockoutDuration, whatever failed in between (AuthenticationService).  A    *)
(* provider is authorized only while its last heard check accepted the key that is   *)
(* filed, or was until the user removed it (ByokCredentialManager).  No provider is  *)
(* ever sent a key that it did not accept before, with stores that fail, keys that   *)
(* are replaced and processes that start again (ByokGenerativeBackend).              *)
(***********************************************************************************)
GuessesAreSpaced ==
  \A u \in Users : \A i \in 1..Len(rejections[u]) - MaxConsecutiveFailures :
    rejections[u][i + MaxConsecutiveFailures] - rejections[u][i] >= LockoutDuration

AuthorizedIsProven ==
  \A p \in authorized : heard[p].verdict = "accepted" /\ entries[p] \in {heard[p].key, NoKey}

KeysSentWereAccepted == \A request \in sent : request.key \in accepted[request.provider]

AccountsSound == AccountsTypeOK /\ GuessesAreSpaced /\ AuthorizedIsProven /\ KeysSentWereAccepted
==================================================================================
