------------------------------ MODULE Sessions ------------------------------
(***************************************************************************)
(* The sessions of one user: login by password, with or without a second   *)
(* factor, login through an OAuth provider, the one-use entries of the     *)
(* cache that join the requests of a login, and the changes of the account *)
(* that end sessions.  Every write of a password raises the version of the *)
(* account, so the version also stands for the stored hash.                *)
(***************************************************************************)
EXTENDS Naturals, FiniteSets

CONSTANTS Request,     \* requests handled at once
          MaxVersion,  \* bound on the password changes
          MaxSetups,   \* bound on the setups of the second factor
          MaxEntries,  \* bound on the cache entries made
          BackupCode   \* the backup codes of one setup, by position

ASSUME SessionsAssumption == MaxVersion \in Nat /\ MaxSetups \in Nat /\ MaxEntries \in Nat

VARIABLES
  user,      \* the row: status, session_version
  factor,    \* the row of the second factor: secret (0 for no row), enabled, backup codes
  linked,    \* the OAuth identity is linked to the user
  provider,  \* the OAuth provider is enabled
  cache,     \* the entries: their kind, number, and the version they carry
  made,      \* entries made
  sessions,  \* the tokens given out: the version inside, and the version proved
  request,   \* per request: its place and what it has read
  uses       \* how often each entry and each backup code was accepted (history)

sessionVars == <<user, factor, linked, provider, cache, made, sessions, request, uses>>

AnyVersion == MaxVersion + 1  \* no version is expected: what an OAuth login proves
TOTP == <<0, 0>>              \* a code of the app, for any of them
Codes(secret) == {<<secret, c>> : c \in BackupCode}
Entry(n) == <<0, n>>
OneUse == {Entry(n) : n \in 1..MaxEntries} \cup UNION {Codes(s) : s \in 1..MaxSetups}
Free == [pc |-> "idle"]

SessionInit ==
  /\ user = [status |-> "absent", version |-> 0]
  /\ factor = [secret |-> 0, enabled |-> FALSE, codes |-> {}]
  /\ linked = FALSE /\ provider = TRUE
  /\ cache = {} /\ made = 0
  /\ sessions = {}
  /\ request = [r \in Request |-> Free]
  /\ uses = [x \in OneUse |-> 0]

At(r, pc) == request[r].pc = pc
Goto(r, state) == request' = [request EXCEPT ![r] = state]
Done(r) == Goto(r, Free)
Count(x) == uses' = [uses EXCEPT ![x] = @ + 1]

-----------------------------------------------------------------------------
(* The cache: an entry is set once under a random key and taken at most    *)
(* once, by GETDEL or under the lock of the memory cache; until its time   *)
(* is up.                                                                  *)

Set(kind, version) ==
  /\ made < MaxEntries
  /\ made' = made + 1
  /\ cache' = cache \cup {[kind |-> kind, id |-> Entry(made + 1), version |-> version]}

\* Mutant: the entry is read and left.
TakeKept(entry) ==
  /\ entry \in cache
  /\ Count(entry.id)
  /\ UNCHANGED cache
Take(entry) ==
  /\ entry \in cache
  /\ Count(entry.id)
  /\ cache' = cache \ {entry}

deleteExpired ==
  /\ \E entry \in cache : cache' = cache \ {entry}
  /\ UNCHANGED <<user, factor, linked, provider, made, sessions, request, uses>>

-----------------------------------------------------------------------------
(* The account.                                                            *)

\* authenticateUser, on every request: status and version as they are now.
authenticateUser(version) == user.status = "active" /\ user.version = version
LoggedIn == \E s \in sessions : authenticateUser(s.version)

\* Register, and CreateUser of an administrator.
Register ==
  /\ user.status = "absent"
  /\ user' = [user EXCEPT !.status = "active"]
  /\ UNCHANGED <<factor, linked, provider, cache, made, sessions, request, uses>>

\* UpdateUser sets the status, and leaves the version.
UpdateUser ==
  /\ user.status \in {"active", "disabled"}
  /\ user' = [user EXCEPT !.status = IF @ = "active" THEN "disabled" ELSE "active"]
  /\ UNCHANGED <<factor, linked, provider, cache, made, sessions, request, uses>>

DeleteUser ==
  /\ user.status \in {"active", "disabled"}
  /\ user' = [user EXCEPT !.status = "deleted"]
  /\ UNCHANGED <<factor, linked, provider, cache, made, sessions, request, uses>>

NewPassword == user.version < MaxVersion /\ user' = [user EXCEPT !.version = @ + 1]

\* An administrator's reset does not look at the old password.
ResetPassword ==
  /\ user.status \in {"active", "disabled"}
  /\ NewPassword
  /\ UNCHANGED <<factor, linked, provider, cache, made, sessions, request, uses>>

\* ChangePassword checks the old password, hashes the new one, and writes it over
\* the hash it has checked.
CheckOldPassword(r) ==
  /\ At(r, "idle") /\ LoggedIn
  /\ Goto(r, [pc |-> "password", version |-> user.version])
  /\ UNCHANGED <<user, factor, linked, provider, cache, made, sessions, uses>>
ChangePassword(r) ==
  /\ At(r, "password")
  /\ IF user.version = request[r].version /\ user.status # "deleted"
       THEN NewPassword ELSE UNCHANGED user
  /\ Done(r)
  /\ UNCHANGED <<factor, linked, provider, cache, made, sessions, uses>>

-----------------------------------------------------------------------------
(* Login by password.                                                      *)

Authenticate(r) ==
  /\ At(r, "idle") /\ user.status = "active"
  /\ Goto(r, [pc |-> "factor", version |-> user.version])
  /\ UNCHANGED <<user, factor, linked, provider, cache, made, sessions, uses>>

\* CheckTwoFactorRequired, and a pending token where it is.
Login(r) ==
  /\ At(r, "factor")
  /\ IF factor.enabled
       THEN Set("pending", request[r].version) /\ Done(r)
       ELSE Goto(r, [pc |-> "token", version |-> request[r].version]) /\ UNCHANGED <<cache, made>>
  /\ UNCHANGED <<user, factor, linked, provider, sessions, uses>>

\* GenerateTokenForUser reads the account again and puts its version into the token.
\* Mutant: the version the login began with is not compared.
GenerateTokenForUserNow(r) ==
  /\ At(r, "token")
  /\ sessions' = IF user.status = "active"
                   THEN sessions \cup {[version |-> user.version, proof |-> request[r].version]}
                   ELSE sessions
  /\ Done(r)
  /\ UNCHANGED <<user, factor, linked, provider, cache, made, uses>>
GenerateTokenForUser(r) ==
  /\ At(r, "token")
  /\ sessions' = IF /\ user.status = "active"
                    /\ request[r].version \in {AnyVersion, user.version}
                   THEN sessions \cup {[version |-> user.version, proof |-> request[r].version]}
                   ELSE sessions
  /\ Done(r)
  /\ UNCHANGED <<user, factor, linked, provider, cache, made, uses>>

-----------------------------------------------------------------------------
(* The second factor.                                                      *)

\* Setup refuses when the factor is enabled, and later writes a new secret and new
\* codes; a row that exists keeps its mark of being enabled.
BeginSetup(r) ==
  /\ At(r, "idle") /\ LoggedIn /\ ~factor.enabled
  /\ Goto(r, [pc |-> "setup"])
  /\ UNCHANGED <<user, factor, linked, provider, cache, made, sessions, uses>>
Setup(r) ==
  /\ At(r, "setup") /\ factor.secret < MaxSetups
  /\ factor' = [factor EXCEPT !.secret = @ + 1, !.codes = Codes(factor.secret + 1)]
  /\ Done(r)
  /\ UNCHANGED <<user, linked, provider, cache, made, sessions, uses>>

\* VerifyAndEnable and Disable check a code against the secret they have read, and
\* write on the condition that the secret is still the same.
ReadSecret(r, on) ==
  /\ At(r, "idle") /\ LoggedIn /\ factor.secret # 0
  /\ Goto(r, [pc |-> "switch", secret |-> factor.secret, on |-> on])
  /\ UNCHANGED <<user, factor, linked, provider, cache, made, sessions, uses>>
VerifyAndEnable(r) ==
  /\ At(r, "switch")
  /\ factor' = IF factor.secret = request[r].secret
                 THEN [factor EXCEPT !.enabled = request[r].on] ELSE factor
  /\ Done(r)
  /\ UNCHANGED <<user, linked, provider, cache, made, sessions, uses>>

\* LoginVerify takes the pending token, then looks at the account.
TakePending(r) ==
  /\ At(r, "idle")
  /\ \E entry \in cache :
       /\ entry.kind = "pending"
       /\ Take(entry)
       /\ Goto(r, [pc |-> "check", version |-> entry.version])
  /\ UNCHANGED <<user, factor, linked, provider, made, sessions>>
LoginVerify(r) ==
  /\ At(r, "check")
  /\ IF authenticateUser(request[r].version)
       THEN Goto(r, [pc |-> "code", version |-> request[r].version]) ELSE Done(r)
  /\ UNCHANGED <<user, factor, linked, provider, cache, made, sessions, uses>>

\* A code of the app, or a backup code of the list as it was read.
validateCode(r) ==
  /\ At(r, "code") /\ factor.enabled
  /\ \E code \in {TOTP} \cup factor.codes :
       Goto(r, [pc |-> "consume", version |-> request[r].version, code |-> code,
                secret |-> factor.secret, codes |-> factor.codes])
  /\ UNCHANGED <<user, factor, linked, provider, cache, made, sessions, uses>>

consumeTwoFactorCode(r) ==
  /\ At(r, "consume")
  /\ LET backup == request[r].code # TOTP
     IN IF /\ factor.enabled /\ factor.secret = request[r].secret
           /\ backup => factor.codes = request[r].codes
          THEN /\ factor' = [factor EXCEPT !.codes = @ \ {request[r].code}]
               /\ IF backup THEN Count(request[r].code) ELSE UNCHANGED uses
               /\ Goto(r, [pc |-> "token", version |-> request[r].version])
          ELSE Done(r) /\ UNCHANGED <<factor, uses>>
  /\ UNCHANGED <<user, linked, provider, cache, made, sessions>>

-----------------------------------------------------------------------------
(* Login through the provider.                                             *)

\* CreateConfig, UpdateConfig and DeleteConfig, in what a login sees of them.
EditConfig ==
  /\ provider' = ~provider
  /\ UNCHANGED <<user, factor, linked, cache, made, sessions, request, uses>>

OAuthLogin ==
  /\ provider
  /\ Set("state", AnyVersion)
  /\ UNCHANGED <<user, factor, linked, provider, sessions, request, uses>>

\* Callback takes the state; the provider may have been disabled since.
Callback(r) ==
  /\ At(r, "idle")
  /\ \E entry \in cache :
       /\ entry.kind = "state"
       /\ Take(entry)
       /\ IF provider THEN Goto(r, [pc |-> "identity"]) ELSE Done(r)
  /\ UNCHANGED <<user, factor, linked, provider, made, sessions>>

\* A linked identity is its user's, an unlinked one is nobody's: it makes a new
\* account, and is refused when the email has one.  The insert of the link may fail.
findOrCreateUser(r) ==
  /\ At(r, "identity")
  /\ \/ /\ linked /\ user.status \in {"active", "disabled"}
        /\ Goto(r, [pc |-> "found"])
        /\ UNCHANGED <<user, linked>>
     \/ /\ ~linked /\ user.status = "absent"
        /\ user' = [user EXCEPT !.status = "active"]
        /\ linked' \in BOOLEAN
        /\ Goto(r, [pc |-> "found"])
     \/ /\ user.status = "deleted" \/ (~linked /\ user.status # "absent")
        /\ Done(r)
        /\ UNCHANGED <<user, linked>>
  /\ UNCHANGED <<factor, provider, cache, made, sessions, uses>>

\* A browser gets an entry to exchange, another client the token at once.
FinishCallback(r) ==
  /\ At(r, "found")
  /\ \/ Set("exchange", AnyVersion) /\ Done(r)
     \/ Goto(r, [pc |-> "token", version |-> AnyVersion]) /\ UNCHANGED <<cache, made>>
  /\ UNCHANGED <<user, factor, linked, provider, sessions, uses>>

Exchange(r) ==
  /\ At(r, "idle")
  /\ \E entry \in cache :
       /\ entry.kind = "exchange"
       /\ Take(entry)
       /\ Goto(r, [pc |-> "token", version |-> AnyVersion])
  /\ UNCHANGED <<user, factor, linked, provider, made, sessions>>

-----------------------------------------------------------------------------
(* Tickets for terminals.                                                  *)

Issue ==
  /\ LoggedIn
  /\ Set("ticket", user.version)
  /\ UNCHANGED <<user, factor, linked, provider, sessions, request, uses>>

\* The middleware consumes the ticket before it compares target and session.
Consume(r) ==
  /\ At(r, "idle")
  /\ \E entry \in cache :
       /\ entry.kind = "ticket"
       /\ Take(entry)
       /\ IF authenticateUser(entry.version) THEN Goto(r, [pc |-> "terminal"]) ELSE Done(r)
  /\ UNCHANGED <<user, factor, linked, provider, made, sessions>>

\* A request ends: with an error or a wrong code, or because a terminal is closed.
RequestEnds(r) ==
  /\ ~At(r, "idle")
  /\ Done(r)
  /\ UNCHANGED <<user, factor, linked, provider, cache, made, sessions, uses>>

SessionNext ==
  \/ Register \/ UpdateUser \/ DeleteUser \/ ResetPassword
  \/ EditConfig \/ OAuthLogin \/ Issue \/ deleteExpired
  \/ \E r \in Request :
       \/ CheckOldPassword(r) \/ ChangePassword(r)
       \/ Authenticate(r) \/ Login(r) \/ GenerateTokenForUser(r)
       \/ BeginSetup(r) \/ Setup(r) \/ VerifyAndEnable(r)
       \/ \E on \in BOOLEAN : ReadSecret(r, on)
       \/ TakePending(r) \/ LoginVerify(r) \/ validateCode(r) \/ consumeTwoFactorCode(r)
       \/ Callback(r) \/ findOrCreateUser(r) \/ FinishCallback(r) \/ Exchange(r)
       \/ Consume(r) \/ RequestEnds(r)

SessionSpec == SessionInit /\ [][SessionNext]_sessionVars

-----------------------------------------------------------------------------
\* A session that a password has opened was opened with the present one: none
\* outlives a change or a reset, not even one whose login was under way.
SessionsRevoked ==
  \A s \in sessions :
    authenticateUser(s.version) => s.proof \in {AnyVersion, user.version}

\* Pending tokens, OAuth states and exchanges, terminal tickets and backup codes
\* are accepted once at most, whichever requests present them at the same time.
UsedOnce == \A x \in OneUse : uses[x] <= 1
=============================================================================
