-------------------------- MODULE RequestWorkProofs --------------------------
(***************************************************************************)
(* SessionsRevoked and UsedOnce for any number of requests, password       *)
(* changes, setups, cache entries and backup codes; AnswerAsGranted for    *)
(* any clusters, namespaces, grants, roles, routes and questions, and any  *)
(* number of steps of administrators.                                      *)
(***************************************************************************)
EXTENDS RequestWork, TLAPS

-----------------------------------------------------------------------------
(* A behaviour of the whole is one of each of its parts, which the steps   *)
(* of the others leave alone.                                              *)

LEMMA SessionsPart == Spec => SessionSpec
<1>1. Init => SessionInit
  BY DEF Init
<1>2. [Next]_vars => [SessionNext]_sessionVars
  BY DEF Next, SessionSteps, AccessSteps, vars
<1> QED
  BY <1>1, <1>2, PTL DEF Spec, SessionSpec

LEMMA AccessPart == Spec => AccessSpec
<1>1. Init => AccessInit
  BY DEF Init
<1>2. [Next]_vars => [AccessNext]_accessVars
  BY DEF Next, SessionSteps, AccessSteps, vars
<1> QED
  BY <1>1, <1>2, PTL DEF Spec, AccessSpec

-----------------------------------------------------------------------------
(* What revokes a session.                                                 *)

\* Every session carries the version its login had proved, or one that an OAuth
\* login, which proves none, met when it ended.
SessionsProved == \A s \in sessions : s.proof \in {AnyVersion, s.version}

\* GenerateTokenForUser compares the versions at the moment it issues the token, so
\* that a session's proof and version agree for ever.
LEMMA ProvedInv == SessionSpec => []SessionsProved
<1>1. SessionInit => SessionsProved
  BY DEF SessionInit, SessionsProved
<1>2. SessionsProved /\ [SessionNext]_sessionVars => SessionsProved'
  <2> SUFFICES ASSUME SessionsProved, [SessionNext]_sessionVars
               PROVE  SessionsProved'
    OBVIOUS
  <2>1. CASE \E r \in Request : GenerateTokenForUser(r)
    <3> PICK r \in Request : GenerateTokenForUser(r)
      BY <2>1
    <3>1. CASE sessions' = sessions
      BY <3>1 DEF SessionsProved, AnyVersion
    <3>2. CASE /\ request[r].version \in {AnyVersion, user.version}
               /\ sessions' = sessions \cup {[version |-> user.version, proof |-> request[r].version]}
      BY <3>2 DEF SessionsProved, AnyVersion
    <3> QED
      BY <3>1, <3>2 DEF GenerateTokenForUser
  <2>2. CASE sessions' = sessions
    BY <2>2 DEF SessionsProved, AnyVersion
  <2>3. ASSUME NEW r \in Request,
               \/ CheckOldPassword(r) \/ ChangePassword(r) \/ Authenticate(r) \/ Login(r)
               \/ BeginSetup(r) \/ Setup(r) \/ VerifyAndEnable(r)
               \/ \E on \in BOOLEAN : ReadSecret(r, on)
               \/ TakePending(r) \/ LoginVerify(r) \/ validateCode(r) \/ consumeTwoFactorCode(r)
               \/ Callback(r) \/ findOrCreateUser(r) \/ FinishCallback(r) \/ Exchange(r)
               \/ Consume(r) \/ RequestEnds(r)
        PROVE  sessions' = sessions
    BY <2>3 DEF CheckOldPassword, ChangePassword, Authenticate, Login, BeginSetup, Setup,
       VerifyAndEnable, ReadSecret, TakePending, LoginVerify, validateCode, consumeTwoFactorCode,
       Callback, findOrCreateUser, FinishCallback, Exchange, Consume, RequestEnds
  <2>4. ASSUME \/ Register \/ UpdateUser \/ DeleteUser \/ ResetPassword
               \/ EditConfig \/ OAuthLogin \/ Issue \/ deleteExpired
               \/ UNCHANGED sessionVars
        PROVE  sessions' = sessions
    BY <2>4 DEF Register, UpdateUser, DeleteUser, ResetPassword, EditConfig, OAuthLogin, Issue,
       deleteExpired, sessionVars
  <2> QED
    BY <2>1, <2>2, <2>3, <2>4 DEF SessionNext
<1> QED
  BY <1>1, <1>2, PTL DEF SessionSpec

\* A session that a password has opened was opened with the present one, whatever
\* logins were under way when ChangePassword or ResetPassword raised the version.
THEOREM Revoked == Spec => []SessionsRevoked
<1>1. SessionsProved => SessionsRevoked
  BY DEF SessionsProved, SessionsRevoked, authenticateUser, AnyVersion
<1> QED
  BY <1>1, ProvedInv, SessionsPart, PTL

-----------------------------------------------------------------------------
(* What is used once.                                                      *)

\* An entry has its own number, and has not been used as long as it is there; the
\* numbers not given out yet are unused.
EntriesUnused ==
  /\ made \in 0..MaxEntries
  /\ uses \in [OneUse -> Nat]
  /\ \A e \in cache : \E n \in 1..made : e.id = Entry(n) /\ uses[e.id] = 0
  /\ \A e, f \in cache : e.id = f.id => e = f
  /\ \A n \in 1..MaxEntries : n > made => uses[Entry(n)] = 0

\* So with the backup codes on the row, and those of later setups.
CodesUnused ==
  /\ factor.secret \in 0..MaxSetups
  /\ factor.codes \subseteq Codes(factor.secret)
  /\ factor.codes # {} => factor.secret >= 1
  /\ \A c \in factor.codes : uses[c] = 0
  /\ \A s \in 1..MaxSetups : s > factor.secret => \A c \in Codes(s) : uses[c] = 0

\* A request about to consume a backup code has taken it from the list it compares.
CodeFromList ==
  /\ DOMAIN request = Request
  /\ \A r \in Request :
       request[r].pc = "consume" => request[r].code = TOTP \/ request[r].code \in request[r].codes

UseInv == EntriesUnused /\ CodesUnused /\ CodeFromList /\ UsedOnce

\* Entries and codes are told apart by their first part, codes of two setups too.
LEMMA EntryNumber == \A m, n \in Nat : Entry(m) = Entry(n) => m = n
  BY DEF Entry
LEMMA CodeOrEntry == \A s \in 1..MaxSetups : \A c \in Codes(s) : \A n \in Nat : c # Entry(n)
  BY SessionsAssumption DEF Codes, Entry
LEMMA CodesApart == \A s, t \in Nat : \A c \in Codes(s) : c \in Codes(t) => s = t
  BY DEF Codes

LEMMA UsesAreOnce ==
  /\ \A n \in 1..MaxEntries : Entry(n) \in OneUse
  /\ \A s \in 1..MaxSetups : \A c \in Codes(s) : c \in OneUse
  BY DEF OneUse

\* A step that moves a request elsewhere than to consume.
LEMMA Moved ==
  ASSUME CodeFromList, NEW r \in Request, NEW state, state.pc # "consume", Goto(r, state)
  PROVE  CodeFromList'
  BY DEF CodeFromList, Goto, TOTP

\* A step that leaves the rows of the factor and the uses.
LEMMA CodesKept ==
  ASSUME CodesUnused, UNCHANGED <<factor, uses>>
  PROVE  CodesUnused'
  BY DEF CodesUnused, Codes

\* Nothing is given out or taken.
LEMMA EntriesKept ==
  ASSUME EntriesUnused, UNCHANGED <<cache, made, uses>>
  PROVE  EntriesUnused'
  BY DEF EntriesUnused, Entry, OneUse, Codes

LEMMA OnceKept ==
  ASSUME UsedOnce, UNCHANGED uses
  PROVE  UsedOnce'
  BY DEF UsedOnce, OneUse, Entry, Codes

\* Set gives out the next number.
LEMMA EntrySet ==
  ASSUME EntriesUnused, NEW kind, NEW version, Set(kind, version), UNCHANGED uses
  PROVE  EntriesUnused'
<1> USE SessionsAssumption
<1> DEFINE new == [kind |-> kind, id |-> Entry(made + 1), version |-> version]
<1>1. made' \in 0..MaxEntries /\ made' = made + 1 /\ cache' = cache \cup {new} /\ uses' = uses
  BY DEF EntriesUnused, Set
<1>2. uses' \in [OneUse' -> Nat]
  BY <1>1 DEF EntriesUnused, OneUse, Entry, Codes
<1>3. \A e \in cache' : \E n \in 1..made' : e.id = Entry(n) /\ uses'[e.id] = 0
  <2> TAKE e \in cache'
  <2>1. CASE e \in cache
    <3> PICK n \in 1..made : e.id = Entry(n) /\ uses[e.id] = 0
      BY <2>1 DEF EntriesUnused
    <3> n \in 1..made'
      BY <1>1 DEF EntriesUnused
    <3> QED
      BY <1>1
  <2>2. CASE e = new
    <3>1. made + 1 \in 1..MaxEntries /\ made + 1 > made
      BY <1>1 DEF EntriesUnused
    <3> QED
      BY <1>1, <2>2, <3>1 DEF EntriesUnused
  <2> QED
    BY <1>1, <2>1, <2>2
<1>4. \A e \in cache : e.id # new.id
  <2> TAKE e \in cache
  <2> PICK n \in 1..made : e.id = Entry(n)
    BY DEF EntriesUnused
  <2> n \in Nat /\ made + 1 \in Nat /\ n # made + 1
    BY DEF EntriesUnused
  <2> QED
    BY EntryNumber
<1>5. \A e, f \in cache' : e.id = f.id => e = f
  BY <1>1, <1>4 DEF EntriesUnused
<1>6. \A n \in 1..MaxEntries : n > made' => uses'[Entry(n)] = 0
  BY <1>1 DEF EntriesUnused
<1> QED
  BY <1>1, <1>2, <1>3, <1>5, <1>6 DEF EntriesUnused, Entry

\* Take removes the entry it counts, so the ones that stay are unused.
LEMMA EntryTaken ==
  ASSUME EntriesUnused, CodesUnused, UsedOnce, NEW entry \in cache, Take(entry),
         UNCHANGED <<made, factor>>
  PROVE  EntriesUnused' /\ CodesUnused' /\ UsedOnce'
<1> USE SessionsAssumption
<1> PICK n \in 1..made : entry.id = Entry(n) /\ uses[entry.id] = 0
  BY DEF EntriesUnused
<1>1. n \in 1..MaxEntries /\ n \in Nat /\ entry.id \in OneUse
  BY UsesAreOnce DEF EntriesUnused
<1>2. /\ uses' = [uses EXCEPT ![entry.id] = @ + 1] /\ cache' = cache \ {entry}
      /\ made' = made /\ factor' = factor
  BY DEF Take, Count
<1>3. /\ uses' \in [OneUse -> Nat] /\ uses'[entry.id] = 1
      /\ \A x \in OneUse : x # entry.id => uses'[x] = uses[x]
  BY <1>1, <1>2 DEF EntriesUnused
<1>4. \A e \in cache' : \E k \in 1..made' : e.id = Entry(k) /\ uses'[e.id] = 0
  <2> TAKE e \in cache'
  <2>1. e \in cache /\ e # entry
    BY <1>2
  <2> PICK k \in 1..made : e.id = Entry(k) /\ uses[e.id] = 0
    BY <2>1 DEF EntriesUnused
  <2>2. e.id # entry.id
    BY <2>1 DEF EntriesUnused
  <2>3. k \in 1..MaxEntries /\ e.id \in OneUse
    BY UsesAreOnce DEF EntriesUnused
  <2> QED
    BY <1>2, <1>3, <2>2, <2>3
<1>5. \A k \in 1..MaxEntries : k > made' => uses'[Entry(k)] = 0
  <2> TAKE k \in 1..MaxEntries
  <2> HAVE k > made'
  <2>1. k \in Nat /\ k # n /\ k > made
    BY <1>2 DEF EntriesUnused
  <2>2. Entry(k) # entry.id /\ Entry(k) \in OneUse
    BY <1>1, <2>1, EntryNumber, UsesAreOnce
  <2> QED
    BY <1>3, <2>1, <2>2 DEF EntriesUnused
<1>6. EntriesUnused'
  <2>1. made' \in 0..MaxEntries
    BY <1>2 DEF EntriesUnused
  <2>2. uses' \in [OneUse' -> Nat]
    BY <1>3 DEF OneUse, Entry, Codes
  <2>3. \A e, f \in cache' : e.id = f.id => e = f
    BY <1>2 DEF EntriesUnused
  <2> QED
    BY <1>4, <1>5, <2>1, <2>2, <2>3 DEF EntriesUnused, Entry
<1>7. \A s \in 1..MaxSetups : \A c \in Codes(s) : uses'[c] = uses[c]
  BY <1>1, <1>3, CodeOrEntry, UsesAreOnce
<1>8. CodesUnused'
  <2>1. \A c \in factor.codes : uses'[c] = 0
    <3> TAKE c \in factor.codes
    <3> factor.secret \in 1..MaxSetups /\ c \in Codes(factor.secret)
      BY DEF CodesUnused
    <3> QED
      BY <1>7 DEF CodesUnused
  <2>2. \A s \in 1..MaxSetups : s > factor.secret => \A c \in Codes(s) : uses'[c] = 0
    BY <1>7 DEF CodesUnused
  <2> QED
    BY <1>2, <2>1, <2>2 DEF CodesUnused, Codes
<1>9. UsedOnce'
  <2>1. \A x \in OneUse : uses'[x] <= 1
    BY <1>3 DEF UsedOnce
  <2> QED
    BY <2>1 DEF UsedOnce, OneUse, Entry, Codes
<1> QED
  BY <1>6, <1>8, <1>9

\* Setup writes codes nobody has seen, and nobody will see the old ones again.
LEMMA CodesReplaced ==
  ASSUME UseInv, NEW r \in Request, Setup(r)
  PROVE  UseInv'
<1> USE SessionsAssumption
<1>1. /\ factor.secret < MaxSetups /\ uses' = uses /\ cache' = cache /\ made' = made
      /\ factor'.secret = factor.secret + 1 /\ factor'.codes = Codes(factor.secret + 1)
      /\ Goto(r, Free)
  BY DEF UseInv, CodesUnused, Setup, Done
<1>2. factor.secret \in Nat /\ factor.secret + 1 \in 1..MaxSetups /\ factor.secret + 1 > factor.secret
  BY <1>1 DEF UseInv, CodesUnused
<1>3. CodesUnused'
  <2>1. \A c \in Codes(factor.secret + 1) : uses[c] = 0
    BY <1>2 DEF UseInv, CodesUnused
  <2>2. \A s \in 1..MaxSetups : s > factor.secret + 1 => \A c \in Codes(s) : uses[c] = 0
    BY <1>2 DEF UseInv, CodesUnused
  <2> QED
    BY <1>1, <1>2, <2>1, <2>2 DEF CodesUnused, Codes
<1> QED
  BY <1>1, <1>3, EntriesKept, OnceKept, Moved DEF UseInv, Free

\* The update demands the list that was read, so only one of two requests with the
\* same code can write.
LEMMA CodeConsumed ==
  ASSUME UseInv, NEW r \in Request, consumeTwoFactorCode(r)
  PROVE  UseInv'
<1> USE SessionsAssumption
<1> DEFINE code == request[r].code
           consumed == [pc |-> "token", version |-> request[r].version]
<1>1. CASE Done(r) /\ UNCHANGED <<factor, uses>>
  BY <1>1, EntriesKept, OnceKept, CodesKept, Moved DEF UseInv, Done, Free, consumeTwoFactorCode
<1>2. CASE /\ code = TOTP /\ UNCHANGED <<uses, cache, made>> /\ Goto(r, consumed)
           /\ factor' = [factor EXCEPT !.codes = @ \ {code}]
  <2>1. factor'.secret = factor.secret /\ factor'.codes \subseteq factor.codes
    BY <1>2
  <2>2. CodesUnused'
    BY <1>2, <2>1 DEF UseInv, CodesUnused, Codes
  <2> QED
    BY <1>2, <2>2, EntriesKept, OnceKept, Moved DEF UseInv
<1>3. CASE /\ code # TOTP /\ factor.codes = request[r].codes /\ request[r].pc = "consume"
           /\ uses' = [uses EXCEPT ![code] = @ + 1] /\ UNCHANGED <<cache, made>>
           /\ Goto(r, consumed)
           /\ factor' = [factor EXCEPT !.codes = @ \ {code}]
  <2>1. factor'.secret = factor.secret /\ factor'.codes = factor.codes \ {code}
    BY <1>3
  <2>2. code \in factor.codes
    BY <1>3 DEF UseInv, CodeFromList
  <2>3. factor.secret \in 1..MaxSetups /\ code \in Codes(factor.secret) /\ uses[code] = 0 /\ code \in OneUse
    BY <2>2, UsesAreOnce DEF UseInv, CodesUnused
  <2>4. /\ uses' \in [OneUse -> Nat] /\ uses'[code] = 1
        /\ \A x \in OneUse : x # code => uses'[x] = uses[x]
    BY <1>3, <2>3 DEF UseInv, EntriesUnused
  <2>5. \A n \in 1..MaxEntries : uses'[Entry(n)] = uses[Entry(n)]
    BY <2>3, <2>4, CodeOrEntry, UsesAreOnce
  <2>6. EntriesUnused'
    <3>1. \A e \in cache : \E n \in 1..made : e.id = Entry(n) /\ uses'[e.id] = 0
      <4> TAKE e \in cache
      <4> PICK n \in 1..made : e.id = Entry(n) /\ uses[e.id] = 0
        BY DEF UseInv, EntriesUnused
      <4> n \in 1..MaxEntries
        BY DEF UseInv, EntriesUnused
      <4> QED
        BY <2>5
    <3>2. \A n \in 1..MaxEntries : n > made => uses'[Entry(n)] = 0
      BY <2>5 DEF UseInv, EntriesUnused
    <3> QED
      BY <1>3, <2>4, <3>1, <3>2 DEF UseInv, EntriesUnused, OneUse, Entry, Codes
  <2>7. CodesUnused'
    <3>1. \A c \in factor'.codes : uses'[c] = 0
      <4> TAKE c \in factor'.codes
      <4> c \in factor.codes /\ c # code /\ c \in OneUse
        BY <2>1, <2>3, UsesAreOnce DEF UseInv, CodesUnused
      <4> QED
        BY <2>4 DEF UseInv, CodesUnused
    <3>2. \A s \in 1..MaxSetups : s > factor.secret => \A c \in Codes(s) : uses'[c] = 0
      <4> TAKE s \in 1..MaxSetups
      <4> HAVE s > factor.secret
      <4> TAKE c \in Codes(s)
      <4> c # code /\ c \in OneUse
        BY <2>3, CodesApart, UsesAreOnce
      <4> QED
        BY <2>4 DEF UseInv, CodesUnused
    <3> QED
      BY <2>1, <2>3, <3>1, <3>2 DEF UseInv, CodesUnused, Codes
  <2>8. UsedOnce'
    <3>1. \A x \in OneUse : uses'[x] <= 1
      BY <2>4 DEF UseInv, UsedOnce
    <3> QED
      BY <3>1 DEF UsedOnce, OneUse, Entry, Codes
  <2>9. CodeFromList'
    BY <1>3, Moved DEF UseInv
  <2> QED
    BY <2>6, <2>7, <2>8, <2>9 DEF UseInv
<1> QED
  BY <1>1, <1>2, <1>3 DEF consumeTwoFactorCode, At, Count

\* An action that takes an entry and goes on anywhere but to consume.
LEMMA TakeAndMove ==
  ASSUME UseInv, NEW r \in Request, NEW entry \in cache, Take(entry), UNCHANGED <<made, factor>>,
         NEW state, state.pc # "consume", Goto(r, state)
  PROVE  UseInv'
  BY EntryTaken, Moved DEF UseInv

\* A request that touches neither entries nor codes.
LEMMA OnlyMoved ==
  ASSUME UseInv, UNCHANGED <<factor, cache, made, uses>>,
         NEW r \in Request, NEW state, state.pc # "consume", Goto(r, state)
  PROVE  UseInv'
  BY EntriesKept, CodesKept, OnceKept, Moved DEF UseInv

\* Neither do the changes of the account and of the provider.
LEMMA NothingMoved ==
  ASSUME UseInv, UNCHANGED <<factor, cache, made, uses, request>>
  PROVE  UseInv'
<1>1. CodeFromList'
  BY DEF UseInv, CodeFromList, TOTP
<1> QED
  BY <1>1, EntriesKept, CodesKept, OnceKept DEF UseInv

\* An entry is given out and its request, if it has one, ends.
LEMMA SetAndMove ==
  ASSUME UseInv, NEW kind, NEW version, Set(kind, version), UNCHANGED <<factor, uses>>,
         \/ UNCHANGED request
         \/ \E r \in Request : Done(r)
  PROVE  UseInv'
<1>1. CodeFromList'
  <2>1. CASE UNCHANGED request
    BY <2>1 DEF UseInv, CodeFromList, TOTP
  <2>2. CASE \E r \in Request : Done(r)
    BY <2>2, Moved DEF UseInv, Done, Free
  <2> QED
    BY <2>1, <2>2
<1> QED
  BY <1>1, EntrySet, CodesKept, OnceKept DEF UseInv

LEMMA UseStep == UseInv /\ [SessionNext]_sessionVars => UseInv'
<1> SUFFICES ASSUME UseInv, [SessionNext]_sessionVars
             PROVE  UseInv'
  OBVIOUS
<1>1. CASE Register \/ UpdateUser \/ DeleteUser \/ ResetPassword \/ EditConfig \/ UNCHANGED sessionVars
  <2> UNCHANGED <<factor, cache, made, uses, request>>
    BY <1>1 DEF Register, UpdateUser, DeleteUser, ResetPassword, EditConfig, sessionVars
  <2> QED
    BY NothingMoved
<1>2. CASE OAuthLogin
  BY <1>2, SetAndMove DEF OAuthLogin
<1>3. CASE Issue
  BY <1>3, SetAndMove DEF Issue
<1>4. CASE deleteExpired
  <2>1. /\ cache' \subseteq cache /\ made' = made /\ uses' = uses /\ factor' = factor
        /\ request' = request
    BY <1>4 DEF deleteExpired
  <2>2. EntriesUnused'
    BY <2>1 DEF UseInv, EntriesUnused, OneUse, Entry, Codes
  <2>3. CodeFromList'
    BY <2>1 DEF UseInv, CodeFromList, TOTP
  <2> QED
    BY <2>1, <2>2, <2>3, CodesKept, OnceKept DEF UseInv
<1>5. ASSUME NEW r \in Request, CheckOldPassword(r) \/ ChangePassword(r)
      PROVE  UseInv'
  BY <1>5, OnlyMoved DEF CheckOldPassword, ChangePassword, Done, Free
<1>6. ASSUME NEW r \in Request, Authenticate(r) \/ GenerateTokenForUser(r) \/ RequestEnds(r)
      PROVE  UseInv'
  BY <1>6, OnlyMoved DEF Authenticate, GenerateTokenForUser, RequestEnds, Done, Free
<1>7. ASSUME NEW r \in Request, Login(r)
      PROVE  UseInv'
  <2>1. CASE factor.enabled
    BY <1>7, <2>1, SetAndMove DEF Login
  <2>2. CASE ~factor.enabled
    BY <1>7, <2>2, OnlyMoved DEF Login
  <2> QED
    BY <2>1, <2>2
<1>8. ASSUME NEW r \in Request, BeginSetup(r) \/ LoginVerify(r)
      PROVE  UseInv'
  BY <1>8, OnlyMoved DEF BeginSetup, LoginVerify, Done, Free
<1>9. ASSUME NEW r \in Request, NEW on \in BOOLEAN, ReadSecret(r, on)
      PROVE  UseInv'
  BY <1>9, OnlyMoved DEF ReadSecret
<1>10. ASSUME NEW r \in Request, Setup(r)
       PROVE  UseInv'
  BY <1>10, CodesReplaced
<1>11. ASSUME NEW r \in Request, VerifyAndEnable(r)
       PROVE  UseInv'
  <2>1. /\ factor'.secret = factor.secret /\ factor'.codes = factor.codes
        /\ uses' = uses /\ cache' = cache /\ made' = made /\ Goto(r, Free)
    BY <1>11 DEF VerifyAndEnable, Done
  <2>2. CodesUnused'
    BY <2>1 DEF UseInv, CodesUnused, Codes
  <2> QED
    BY <2>1, <2>2, EntriesKept, OnceKept, Moved DEF UseInv, Free
<1>12. ASSUME NEW r \in Request, TakePending(r)
       PROVE  UseInv'
  BY <1>12, TakeAndMove DEF TakePending
<1>13. ASSUME NEW r \in Request, validateCode(r)
       PROVE  UseInv'
  <2>1. CodeFromList'
    BY <1>13 DEF validateCode, Goto, UseInv, CodeFromList, TOTP
  <2> QED
    BY <1>13, <2>1, EntriesKept, CodesKept, OnceKept DEF validateCode, UseInv
<1>14. ASSUME NEW r \in Request, consumeTwoFactorCode(r)
       PROVE  UseInv'
  BY <1>14, CodeConsumed
<1>15. ASSUME NEW r \in Request, Callback(r)
       PROVE  UseInv'
  BY <1>15, TakeAndMove DEF Callback, Done, Free
<1>16. ASSUME NEW r \in Request, findOrCreateUser(r)
       PROVE  UseInv'
  <2>1. Goto(r, [pc |-> "found"]) \/ Goto(r, Free)
    BY <1>16 DEF findOrCreateUser, Done
  <2> QED
    BY <1>16, <2>1, OnlyMoved DEF findOrCreateUser, Free
<1>17. ASSUME NEW r \in Request, FinishCallback(r)
       PROVE  UseInv'
  BY <1>17, SetAndMove, OnlyMoved DEF FinishCallback
<1>18. ASSUME NEW r \in Request, Exchange(r)
       PROVE  UseInv'
  BY <1>18, TakeAndMove DEF Exchange
<1>19. ASSUME NEW r \in Request, Consume(r)
       PROVE  UseInv'
  BY <1>19, TakeAndMove DEF Consume, Done, Free
<1> QED
  BY <1>1, <1>2, <1>3, <1>4, <1>5, <1>6, <1>7, <1>8, <1>9, <1>10, <1>11, <1>12, <1>13, <1>14,
     <1>15, <1>16, <1>17, <1>18, <1>19 DEF SessionNext

\* Take under the lock of the cache, or GETDEL, and the conditional update of the
\* backup codes let one request at most redeem a token, a ticket or a code, however
\* many present it at once.
THEOREM Once == Spec => []UsedOnce
<1>1. SessionInit => UseInv
  <2> SUFFICES ASSUME SessionInit PROVE UseInv
    OBVIOUS
  <2>1. EntriesUnused
    BY SessionsAssumption, UsesAreOnce DEF SessionInit, EntriesUnused
  <2>2. CodesUnused
    BY SessionsAssumption, UsesAreOnce DEF SessionInit, CodesUnused
  <2>3. CodeFromList
    BY DEF SessionInit, CodeFromList, Free
  <2> QED
    BY <2>1, <2>2, <2>3 DEF UseInv, UsedOnce, SessionInit
<1>2. UseInv => UsedOnce
  BY DEF UseInv
<1> QED
  BY <1>1, <1>2, UseStep, SessionsPart, PTL DEF SessionSpec

-----------------------------------------------------------------------------
(* The decision: what the effective access allows, a single row allows.    *)

LEMMA LevelsRanked == \A g \in Grants : g.level \in {"read", "write", "admin"}
  BY AccessAssumption DEF Grants

\* Among the levels of some rows there is a highest.
LEMMA HighestLevel ==
  ASSUME NEW S \in SUBSET {"read", "write", "admin"}, S # {}
  PROVE  \E level \in S : \A l \in S : rank(l) <= rank(level)
<1>1. CASE "admin" \in S
  BY <1>1 DEF rank
<1>2. CASE "admin" \notin S /\ "write" \in S
  BY <1>2 DEF rank
<1>3. CASE "admin" \notin S /\ "write" \notin S
  BY <1>3 DEF rank
<1> QED
  BY <1>1, <1>2, <1>3

\* NewEffectiveAccess keeps for each key the level of one of its rows.
LEMMA EffectiveIsRow ==
  ASSUME NEW rows \in SUBSET Grants, NEW key \in DOMAIN NewEffectiveAccess(rows)
  PROVE  \E g \in rows : GrantKey(g) = key /\ g.level = NewEffectiveAccess(rows)[key]
<1> DEFINE same == {h \in rows : GrantKey(h) = key}
           levels == {g.level : g \in same}
           Highest(level) == \A g \in rows : GrantKey(g) = key => rank(g.level) <= rank(level)
<1>1. key \in {GrantKey(g) : g \in rows}
  BY DEF NewEffectiveAccess
<1>2. same # {} /\ levels # {} /\ levels \subseteq {"read", "write", "admin"}
  BY <1>1, LevelsRanked
<1>3. \E level \in levels : Highest(level)
  <2> PICK level \in levels : \A l \in levels : rank(l) <= rank(level)
    BY <1>2, HighestLevel
  <2> QED
    OBVIOUS
<1>4. NewEffectiveAccess(rows)[key] = CHOOSE level \in levels : Highest(level)
  BY <1>1 DEF NewEffectiveAccess
<1>5. NewEffectiveAccess(rows)[key] \in levels
  <2> HIDE DEF levels, Highest
  <2> QED
    BY <1>3, <1>4
<1> QED
  BY <1>5

\* A row that gives a level on a namespace of a cluster, or on all of them.
Gives(rows, cluster, name, required) ==
  \E g \in rows : g.cluster = cluster /\ g.namespace = name /\ rank(g.level) >= rank(required)

LEMMA AllowsGives ==
  ASSUME NEW rows \in SUBSET Grants, NEW cluster, NEW name, NEW required,
         allows(NewEffectiveAccess(rows), <<cluster, name>>, required)
  PROVE  Gives(rows, cluster, name, required)
<1> PICK g \in rows : /\ GrantKey(g) = <<cluster, name>>
                      /\ g.level = NewEffectiveAccess(rows)[<<cluster, name>>]
  BY EffectiveIsRow DEF allows
<1> QED
  BY DEF allows, Gives, GrantKey

LEMMA AuthorizeGives ==
  ASSUME NEW rows \in SUBSET Grants, NEW cluster, NEW name, NEW required,
         Authorize(NewEffectiveAccess(rows), cluster, name, required)
  PROVE  Gives(rows, cluster, AnyNamespace, required)
           \/ (name # AnyNamespace /\ Gives(rows, cluster, name, required))
  BY AllowsGives DEF Authorize, CanCluster, CanNamespace

LEMMA NamespacesGive ==
  ASSUME NEW rows \in SUBSET Grants, NEW cluster, NEW required,
         NEW name \in Namespaces(NewEffectiveAccess(rows), cluster, required) \ {"", AnyNamespace}
  PROVE  Gives(rows, cluster, name, required)
<1> DEFINE effective == NewEffectiveAccess(rows)
<1>1. PICK key \in DOMAIN effective : /\ key[1] = cluster /\ key[2] = name
                                      /\ rank(effective[key]) >= rank(required)
  BY DEF Namespaces
<1>2. PICK g \in rows : GrantKey(g) = key /\ g.level = effective[key]
  BY EffectiveIsRow
<1> QED
  BY <1>1, <1>2 DEF Gives, GrantKey

-----------------------------------------------------------------------------
(* The request.                                                            *)

AccessType ==
  [pc : {"role", "direct", "inherited", "gate", "handled"}, route : Routes, asked : Question,
   rows : SUBSET Grants, listing : BOOLEAN, answer : {"none", "deny", "bypass", "allow"},
   checked : SUBSET Names]

RowsType ==
  /\ direct \in SUBSET Grants /\ assigned \in SUBSET Grants
  /\ held.grants \in SUBSET Grants
  /\ access = NoAccess \/ access \in AccessType

\* The history has what is in force now, and so all that was read.
HistoryComplete ==
  /\ role \in held.roles /\ gated \in held.gates
  /\ direct \subseteq held.grants /\ Inherited \subseteq held.grants
  /\ access.rows \subseteq held.grants

\* Only what a role permits goes on to the grants, and only lists go on to be filtered.
Permitted == access.asked.by = "reviewer" \/ \E r \in held.roles : Permitting(r)
GrantsNext ==
  /\ access.pc \in {"direct", "inherited"} => Permitted
  /\ access.listing => access.route.scope = "namespace_list"

\* What AnswerAsGranted says of the answer, from the moment it is given.
Justified ==
  /\ access.answer = "bypass" => access.route.scope = "self" \/ \E r \in held.roles : r.kind = "system"
  /\ access.answer = "allow" =>
       /\ Permitted
       /\ AsksGrants => access.checked # {} /\ \A name \in access.checked : Covered(name)
       /\ access.asked.by = "route" /\ access.route.scope = "cluster" => access.checked = {AnyNamespace}

\* What it says of the production gate, once that is passed.
GateOpen == directClusterMutation(access.route) => \E gate \in held.gates : ~gate

AccessInv ==
  /\ RowsType
  /\ access # NoAccess => HistoryComplete /\ GrantsNext
  /\ access # NoAccess /\ access.pc \in {"gate", "handled"} => Justified
  /\ access # NoAccess /\ (access.pc = "handled" \/ access.asked.by # "route") => GateOpen

LEMMA Busy == \A a \in AccessType : a # NoAccess
<1> TAKE a \in AccessType
<1>1. a.pc # "idle"
  BY DEF AccessType
<1>2. NoAccess.pc = "idle"
  BY DEF NoAccess
<1> QED
  BY <1>1, <1>2

\* What the next-state relation adds to every step.
Recorded ==
  held' = IF access'.pc = "idle" THEN NoHistory
          ELSE [roles |-> held.roles \cup {role'}, grants |-> held.grants \cup direct' \cup Inherited',
                gates |-> held.gates \cup {gated'}]

\* The rows stay as they are while the request takes a step.
Unedited == role' = role /\ direct' = direct /\ assigned' = assigned /\ gated' = gated

\* The history of a request that goes on.
LEMMA HistoryGrows ==
  ASSUME AccessInv, Recorded, access' \in AccessType,
         direct' \in SUBSET Grants, assigned' \in SUBSET Grants
  PROVE  /\ held.roles \subseteq held'.roles /\ role' \in held'.roles
         /\ held.gates \subseteq held'.gates /\ gated' \in held'.gates
         /\ held.grants \subseteq held'.grants /\ held'.grants \in SUBSET Grants
         /\ direct' \subseteq held'.grants /\ Inherited' \subseteq held'.grants
<1>1. access'.pc # "idle"
  BY DEF AccessType
<1>2. held' = [roles |-> held.roles \cup {role'}, grants |-> held.grants \cup direct' \cup Inherited',
               gates |-> held.gates \cup {gated'}]
  BY <1>1 DEF Recorded
<1>3. Inherited' \in SUBSET Grants
  BY DEF Inherited
<1> QED
  BY <1>2, <1>3 DEF AccessInv, RowsType

\* A request that goes on keeps the invariant if its new place does.
LEMMA GoesOn ==
  ASSUME AccessInv, Recorded, access' \in AccessType,
         direct' \in SUBSET Grants, assigned' \in SUBSET Grants,
         access'.rows \subseteq held'.grants, GrantsNext',
         access'.pc \in {"gate", "handled"} => Justified',
         access'.pc = "handled" \/ access'.asked.by # "route" => GateOpen'
  PROVE  AccessInv'
<1>1. /\ role' \in held'.roles /\ gated' \in held'.gates
      /\ held'.grants \in SUBSET Grants
      /\ direct' \subseteq held'.grants /\ Inherited' \subseteq held'.grants
  BY HistoryGrows
<1>2. RowsType'
  BY <1>1 DEF RowsType, AccessType, Grants, Question, Names, AnyNamespace, NoCluster, NoAccess
<1>3. HistoryComplete'
  BY <1>1 DEF HistoryComplete
<1> QED
  BY <1>2, <1>3 DEF AccessInv

\* The same question stays justified, and the gate passed, while the history grows.
LEMMA StaysTrue ==
  ASSUME access'.route = access.route,
         held.roles \subseteq held'.roles, held.grants \subseteq held'.grants, held.gates \subseteq held'.gates
  PROVE  /\ GateOpen => GateOpen'
         /\ access'.asked = access.asked /\ Permitted => Permitted'
         /\ /\ access'.asked = access.asked /\ access'.answer = access.answer
            /\ access'.checked = access.checked /\ Justified
            => Justified'
<1>1. GateOpen => GateOpen'
  BY DEF GateOpen, directClusterMutation
<1>2. access'.asked = access.asked /\ Permitted => Permitted'
  BY DEF Permitted, Permitting
<1>3. ASSUME access'.asked = access.asked, access'.answer = access.answer,
             access'.checked = access.checked, Justified
      PROVE  Justified'
  <2>1. \A name : Covered(name) => Covered(name)'
    BY <1>3 DEF Covered, AnyNamespace
  <2>2. AsksGrants' = AsksGrants
    BY <1>3 DEF AsksGrants, NoCluster
  <2> QED
    BY <1>2, <1>3, <2>1, <2>2 DEF Justified, AnyNamespace
<1> QED
  BY <1>1, <1>2, <1>3

\* A request that ends leaves nothing to show.
LEMMA Ends ==
  ASSUME AccessInv, Recorded, access' = NoAccess, Unedited
  PROVE  AccessInv'
<1>1. access'.pc = "idle" /\ held'.grants = {}
  BY DEF NoAccess, NoHistory, Recorded
<1> QED
  BY <1>1 DEF AccessInv, RowsType, Unedited, NoAccess, Grants, AccessType, Question, Names, AnyNamespace,
     NoCluster

\* An administrator changes rows: the request is where it was.
LEMMA Administered ==
  ASSUME AccessInv, Recorded, Administration
  PROVE  AccessInv'
<1>1. access' = access
  BY DEF Administration, Administer, UpdateRole, DeleteRole, ReplaceUserClusters,
     CreateUserGroup, UpdateUserGroup, DeleteUserGroup, ReplaceUserGroupMembers,
     ReplaceUserGroupClusters, ChangeProductionPolicy
<1>2. direct' \in SUBSET Grants /\ assigned' \in SUBSET Grants
  BY DEF Administration, AccessInv, RowsType, UpdateRole, DeleteRole, ReplaceUserClusters,
     CreateUserGroup, UpdateUserGroup, DeleteUserGroup, ReplaceUserGroupMembers,
     ReplaceUserGroupClusters, ChangeProductionPolicy, Assignments
<1>3. CASE access = NoAccess
  <2>1. held'.grants = {}
    BY <1>1, <1>3 DEF Recorded, NoAccess, NoHistory
  <2> QED
    BY <1>1, <1>2, <1>3, <2>1 DEF AccessInv, RowsType, NoAccess, Grants, AccessType, Question, Names,
       AnyNamespace, NoCluster
<1>4. CASE access \in AccessType
  <2>1. access' \in AccessType /\ access # NoAccess
    BY <1>1, <1>4, Busy
  <2>2. /\ held.roles \subseteq held'.roles /\ held.gates \subseteq held'.gates
        /\ held.grants \subseteq held'.grants
    BY <1>2, <2>1, HistoryGrows
  <2>3. /\ GateOpen => GateOpen'
        /\ Permitted => Permitted'
        /\ Justified => Justified'
    BY <1>1, <2>2, StaysTrue
  <2>4. GrantsNext' /\ access'.rows \subseteq held'.grants
    BY <1>1, <2>1, <2>2, <2>3 DEF AccessInv, GrantsNext, HistoryComplete
  <2> QED
    BY <1>1, <1>2, <2>1, <2>3, <2>4, GoesOn DEF AccessInv
<1> QED
  BY <1>3, <1>4 DEF AccessInv, RowsType

LEMMA Begins ==
  ASSUME AccessInv, Recorded, NEW route \in Routes, NEW cluster \in Cluster \cup {NoCluster},
         NEW name \in {firstNonEmpty(given) : given \in Given}, Begin(route, cluster, name)
  PROVE  AccessInv'
<1>1. name \in Names /\ route.action \in Action
  BY AccessAssumption DEF firstNonEmpty, Given, Policy
<1>2. [by |-> "route", cluster |-> cluster, namespace |-> name, action |-> route.action]
        \in Question
  BY <1>1 DEF Question
<1>3. PICK question \in Question :
        /\ question.by = "route"
        /\ access' = [pc |-> "role", route |-> route, rows |-> {}, listing |-> FALSE, answer |-> "none",
                      checked |-> {}, asked |-> question]
  BY <1>2 DEF Begin
<1>4. /\ access' \in AccessType /\ access'.pc = "role" /\ access'.rows = {} /\ access'.listing = FALSE
      /\ access'.asked.by = "route"
  BY <1>3 DEF AccessType
<1>5. direct' \in SUBSET Grants /\ assigned' \in SUBSET Grants
  BY DEF Begin, Keep, AccessInv, RowsType
<1> QED
  BY <1>4, <1>5, GoesOn DEF GrantsNext

\* The fields that an answer sets.
LEMMA Answered ==
  ASSUME access \in AccessType, NEW names \in SUBSET Names, NEW verdict \in {"deny", "bypass", "allow"},
         Answer(verdict, names)
  PROVE  /\ access' \in AccessType
         /\ access'.pc = IF access.asked.by = "route" THEN "gate" ELSE "handled"
         /\ access'.route = access.route /\ access'.asked = access.asked
         /\ access'.rows = {} /\ access'.listing = FALSE
         /\ access'.answer = verdict /\ access'.checked = names
  BY DEF Answer, AccessType

\* An answer that rows in force justify.
LEMMA Answers ==
  ASSUME AccessInv, Recorded, access \in AccessType, Unedited,
         NEW names \in SUBSET Names, NEW verdict \in {"deny", "bypass", "allow"}, Answer(verdict, names),
         Justified'
  PROVE  AccessInv'
<1>1. /\ access' \in AccessType /\ access'.route = access.route /\ access'.asked = access.asked
      /\ access'.pc = IF access.asked.by = "route" THEN "gate" ELSE "handled"
      /\ access'.rows = {} /\ access'.listing = FALSE
  BY Answered
<1>2. direct' \in SUBSET Grants /\ assigned' \in SUBSET Grants
  BY DEF Unedited, AccessInv, RowsType
<1>3. /\ held.roles \subseteq held'.roles /\ held.gates \subseteq held'.gates
      /\ held.grants \subseteq held'.grants
  BY <1>1, <1>2, HistoryGrows
<1>4. access.asked.by # "route" => GateOpen'
  BY <1>1, <1>3, StaysTrue, Busy DEF AccessInv
<1> QED
  BY <1>1, <1>2, <1>4, GoesOn DEF GrantsNext

LEMMA Denies ==
  ASSUME AccessInv, Recorded, access \in AccessType, Unedited, Deny
  PROVE  AccessInv'
<1>1. CASE access' = NoAccess
  BY <1>1, Ends
<1>2. CASE Answer("deny", {})
  <2>1. access'.answer = "deny"
    BY <1>2, Answered
  <2>2. Justified'
    BY <2>1 DEF Justified
  <2> QED
    BY <1>2, <2>2, Answers
<1> QED
  BY <1>1, <1>2 DEF Deny

LEMMA Bypasses ==
  ASSUME AccessInv, Recorded, access \in AccessType, Unedited, Answer("bypass", {}),
         access.route.scope = "self" \/ role.kind = "system"
  PROVE  AccessInv'
<1>1. access' \in AccessType /\ access'.answer = "bypass" /\ access'.route = access.route
  BY Answered
<1>2. role \in held'.roles
  BY <1>1, HistoryGrows DEF Unedited, AccessInv, RowsType
<1>3. Justified'
  BY <1>1, <1>2 DEF Justified
<1> QED
  BY <1>3, Answers

\* The role alone says yes, where no grant is asked for.
LEMMA RoleAllows ==
  ASSUME AccessInv, Recorded, access \in AccessType, Unedited, Answer("allow", {}),
         access.asked.action \in role.permits, ~AsksGrants
  PROVE  AccessInv'
<1>1. /\ access' \in AccessType /\ access'.answer = "allow" /\ access'.route = access.route
      /\ access'.asked = access.asked
  BY Answered
<1>2. role \in held'.roles
  BY <1>1, HistoryGrows DEF Unedited, AccessInv, RowsType
<1>3. ~AsksGrants' /\ ~(access.asked.by = "route" /\ access.route.scope = "cluster")
  BY <1>1 DEF AsksGrants, NoCluster
<1>4. Permitted'
  BY <1>1, <1>2 DEF Permitted, Permitting
<1>5. Justified'
  BY <1>1, <1>3, <1>4 DEF Justified
<1> QED
  BY <1>5, Answers

\* A question that goes on to the grants.
LEMMA ToGrants ==
  ASSUME AccessInv, Recorded, access \in AccessType, Unedited, GoOn("direct"),
         access.asked.by = "reviewer" \/ Permitting(role)
  PROVE  AccessInv'
<1>1. /\ access' \in AccessType /\ access'.pc = "direct" /\ access'.rows = access.rows
      /\ access'.route = access.route /\ access'.listing = access.listing /\ access'.asked = access.asked
  BY DEF GoOn, AccessType
<1>2. direct' \in SUBSET Grants /\ assigned' \in SUBSET Grants
  BY DEF Unedited, AccessInv, RowsType
<1>3. /\ role \in held'.roles /\ held.roles \subseteq held'.roles /\ held.gates \subseteq held'.gates
      /\ held.grants \subseteq held'.grants
  BY <1>1, <1>2, HistoryGrows DEF Unedited
<1>4. Permitted'
  BY <1>1, <1>3 DEF Permitted, Permitting
<1>5. GrantsNext' /\ access'.rows \subseteq held'.grants
  BY <1>1, <1>3, <1>4, Busy DEF AccessInv, GrantsNext, HistoryComplete
<1>6. access'.asked.by # "route" => GateOpen'
  BY <1>1, <1>3, StaysTrue, Busy DEF AccessInv
<1> QED
  BY <1>1, <1>2, <1>5, <1>6, GoesOn

LEMMA RoleChecked ==
  ASSUME AccessInv, Recorded, access \in AccessType,
         CheckRole \/ RequireScope \/ ensureToolAccess \/ canReviewChange
  PROVE  AccessInv'
<1>1. Unedited
  BY DEF CheckRole, RequireScope, ensureToolAccess, canReviewChange, Keep, Unedited
<1>2. CASE CheckRole
  <2>1. CASE access.route.scope = "self" \/ role.kind = "system"
    <3>1. Answer("bypass", {})
      BY <1>2, <2>1 DEF CheckRole
    <3> QED
      BY <1>1, <2>1, <3>1, Bypasses
  <2>2. CASE access.route.scope # "self" /\ role.kind # "system" /\ access.asked.action \notin role.permits
    <3>1. Deny
      BY <1>2, <2>2 DEF CheckRole
    <3> QED
      BY <1>1, <3>1, Denies
  <2>3. CASE /\ access.route.scope \in {"platform", "handler"} /\ role.kind # "system"
             /\ access.asked.action \in role.permits
    <3>1. Answer("allow", {}) /\ access.asked.by = "route"
      BY <1>2, <2>3 DEF CheckRole
    <3>2. ~AsksGrants
      BY <2>3, <3>1 DEF AsksGrants
    <3> QED
      BY <1>1, <2>3, <3>1, <3>2, RoleAllows
  <2>4. CASE /\ access.route.scope \notin {"self", "platform", "handler"} /\ role.kind # "system"
             /\ access.asked.action \in role.permits
    <3>1. GoOn("direct") \/ Deny
      BY <1>2, <2>4 DEF CheckRole
    <3> QED
      BY <1>1, <2>4, <3>1, ToGrants, Denies DEF Permitting
  <2> QED
    BY <2>1, <2>2, <2>3, <2>4
<1>3. CASE RequireScope
  <2>1. CASE role.kind = "system"
    BY <1>1, <1>3, <2>1, Bypasses DEF RequireScope
  <2>2. CASE role.kind # "system" /\ access.asked.action \notin role.permits
    BY <1>1, <1>3, <2>2, Denies DEF RequireScope
  <2>3. CASE role.kind # "system" /\ access.asked.action \in role.permits
    <3>1. CASE access.asked.cluster = NoCluster
      <4>1. Answer("allow", {}) /\ access.asked.by = "handler"
        BY <1>3, <2>3, <3>1 DEF RequireScope
      <4>2. ~AsksGrants
        BY <3>1, <4>1 DEF AsksGrants
      <4> QED
        BY <1>1, <2>3, <4>1, <4>2, RoleAllows
    <3>2. CASE access.asked.cluster # NoCluster
      BY <1>1, <1>3, <2>3, <3>2, ToGrants DEF RequireScope, Permitting
    <3> QED
      BY <3>1, <3>2
  <2> QED
    BY <2>1, <2>2, <2>3
<1>4. CASE ensureToolAccess
  <2>1. CASE Deny
    BY <1>1, <2>1, Denies
  <2>2. CASE role.kind = "system" /\ Answer("bypass", {})
    BY <1>1, <2>2, Bypasses
  <2>3. CASE {access.asked.action, "execute"} \cap role.permits # {} /\ GoOn("direct")
    <3>1. Permitting(role)
      BY <1>4, <2>3 DEF ensureToolAccess, Permitting
    <3> QED
      BY <1>1, <2>3, <3>1, ToGrants
  <2> QED
    BY <1>4, <2>1, <2>2, <2>3 DEF ensureToolAccess
<1>5. CASE canReviewChange
  <2>1. CASE role.kind = "missing"
    BY <1>1, <1>5, <2>1, Denies DEF canReviewChange
  <2>2. CASE role.kind = "system"
    BY <1>1, <1>5, <2>2, Bypasses DEF canReviewChange
  <2>3. CASE role.kind \notin {"missing", "system"}
    BY <1>1, <1>5, <2>3, ToGrants DEF canReviewChange
  <2> QED
    BY <2>1, <2>2, <2>3
<1> QED
  BY <1>2, <1>3, <1>4, <1>5

\* A handler or an agent asks, once the gate is passed.
LEMMA Asked ==
  ASSUME AccessInv, Recorded, access \in AccessType, NEW question \in Questions,
         EnsureScope(question) \/ AgentAsks(question)
  PROVE  AccessInv'
<1>1. access.pc = "handled" /\ direct' = direct /\ assigned' = assigned
  BY DEF EnsureScope, AgentAsks, Keep
<1>2. Ask(question, "role")
  BY DEF EnsureScope, AgentAsks
<1>3. question \in Question
  BY AccessAssumption
<1>4. /\ access' \in AccessType /\ access'.pc = "role" /\ access'.rows = access.rows
      /\ access'.route = access.route /\ access'.listing = access.listing /\ access'.asked = question
  BY <1>2, <1>3 DEF Ask, AccessType
<1>5. direct' \in SUBSET Grants /\ assigned' \in SUBSET Grants
  BY <1>1 DEF AccessInv, RowsType
<1>6. /\ held.roles \subseteq held'.roles /\ held.gates \subseteq held'.gates
      /\ held.grants \subseteq held'.grants
  BY <1>4, <1>5, HistoryGrows
<1>7. GateOpen'
  BY <1>1, <1>4, <1>6, StaysTrue, Busy DEF AccessInv
<1>8. GrantsNext' /\ access'.rows \subseteq held'.grants
  BY <1>4, <1>6, Busy DEF AccessInv, GrantsNext, HistoryComplete
<1> QED
  BY <1>4, <1>5, <1>7, <1>8, GoesOn

\* A yes about namespaces each of which a row that was read covers.
LEMMA GrantsAllow ==
  ASSUME AccessInv, Recorded, access \in AccessType, Unedited, access.pc \in {"direct", "inherited"},
         NEW names \in SUBSET Names, names # {}, Answer("allow", names),
         \A name \in names : Covered(name),
         access.asked.by = "route" /\ access.route.scope = "cluster" => names = {AnyNamespace}
  PROVE  AccessInv'
<1>1. /\ access' \in AccessType /\ access'.answer = "allow" /\ access'.checked = names
      /\ access'.route = access.route /\ access'.asked = access.asked
  BY Answered
<1>2. /\ held.roles \subseteq held'.roles /\ held.gates \subseteq held'.gates
      /\ held.grants \subseteq held'.grants
  BY <1>1, HistoryGrows DEF Unedited, AccessInv, RowsType
<1>3. \A name \in names : Covered(name)'
  BY <1>1, <1>2 DEF Covered, AnyNamespace
<1>4. Permitted'
  BY <1>1, <1>2, StaysTrue, Busy DEF AccessInv, GrantsNext
<1>5. Justified'
  BY <1>1, <1>3, <1>4 DEF Justified, AnyNamespace
<1> QED
  BY <1>5, Answers

\* authorizeScope says yes to what one of the rows it has read covers.
LEMMA ScopeAuthorized ==
  ASSUME AccessInv, Recorded, access \in AccessType, Unedited,
         access.pc \in {"direct", "inherited"},
         NEW rows \in SUBSET Grants, rows \subseteq held.grants, authorizeScope(rows)
  PROVE  AccessInv'
<1> DEFINE level == RequiredLevel(access.asked.action)
<1>1. CASE Authorize(NewEffectiveAccess(rows), access.asked.cluster, Wanted, level) /\ Answer("allow", {Wanted})
  <2>1. Wanted \in Names
    BY DEF Wanted, AccessType, Question, Names
  <2>2. \/ Gives(rows, access.asked.cluster, AnyNamespace, level)
        \/ Gives(rows, access.asked.cluster, Wanted, level)
    BY <1>1, AuthorizeGives
  <2>3. Covered(Wanted)
    BY <2>2 DEF Gives, Covered
  <2>4. access.asked.by = "route" /\ access.route.scope = "cluster" => Wanted = AnyNamespace
    BY DEF Wanted
  <2> QED
    BY <1>1, <2>1, <2>3, <2>4, GrantsAllow
<1>2. CASE /\ access.asked.by = "route" /\ access.route.scope = "namespace_list"
           /\ access' = [access EXCEPT !.pc = "direct", !.rows = {}, !.listing = TRUE]
  <2>1. /\ access' \in AccessType /\ access'.pc = "direct" /\ access'.rows = {}
        /\ access'.route = access.route /\ access'.asked = access.asked
    BY <1>2 DEF AccessType
  <2>2. direct' \in SUBSET Grants /\ assigned' \in SUBSET Grants
    BY DEF Unedited, AccessInv, RowsType
  <2>3. /\ held.roles \subseteq held'.roles /\ held.gates \subseteq held'.gates
        /\ held.grants \subseteq held'.grants
    BY <2>1, <2>2, HistoryGrows
  <2>4. Permitted'
    BY <2>1, <2>3, StaysTrue, Busy DEF AccessInv, GrantsNext
  <2>5. GrantsNext'
    BY <1>2, <2>1, <2>4 DEF GrantsNext
  <2> QED
    BY <1>2, <2>1, <2>2, <2>5, GoesOn
<1>3. CASE Deny
  BY <1>3, Denies
<1> QED
  BY <1>1, <1>2, <1>3 DEF authorizeScope

\* A list is filtered by namespaces that rows name, and denied without any.
LEMMA ListFiltered ==
  ASSUME AccessInv, Recorded, access \in AccessType, Unedited, access.listing,
         access.pc = "inherited",
         NEW rows \in SUBSET Grants, rows \subseteq held.grants, AllowedNamespaces(rows)
  PROVE  AccessInv'
<1> DEFINE level == RequiredLevel(access.asked.action)
           names == Namespaces(NewEffectiveAccess(rows), access.asked.cluster, level) \ {"", AnyNamespace}
<1>1. CASE names # {} /\ Answer("allow", AllowedNamespaceSet(names))
  <2>1. AllowedNamespaceSet(names) = names
    BY <1>1 DEF AllowedNamespaceSet
  <2>2. \A name \in names : Gives(rows, access.asked.cluster, name, level)
    BY NamespacesGive
  <2>3. names \in SUBSET Names
    BY <2>2 DEF Gives, Grants, Names
  <2>4. \A name \in names : Covered(name)
    BY <2>2 DEF Gives, Covered
  <2>5. access.route.scope # "cluster"
    BY Busy DEF AccessInv, GrantsNext
  <2> HIDE DEF names
  <2> QED
    BY <1>1, <2>1, <2>3, <2>4, <2>5, GrantsAllow
<1>2. CASE Deny
  BY <1>2, Denies
<1> QED
  BY <1>1, <1>2 DEF AllowedNamespaces

LEMMA GrantsRead ==
  ASSUME AccessInv, Recorded, access \in AccessType,
         AgentAuthorize \/ EffectiveDirect \/ EffectiveInherited
  PROVE  AccessInv'
<1>0. /\ Unedited /\ HistoryComplete /\ GrantsNext /\ held.grants \in SUBSET Grants
      /\ direct \in SUBSET Grants /\ assigned \in SUBSET Grants
  BY Busy DEF AgentAuthorize, EffectiveDirect, EffectiveInherited, Keep, Unedited, AccessInv, RowsType
<1>1. CASE AgentAuthorize
  BY <1>0, <1>1, ScopeAuthorized DEF AgentAuthorize, HistoryComplete
<1>2. CASE EffectiveDirect
  <2>1. /\ access' \in AccessType /\ access'.pc = "inherited" /\ access'.rows = direct
        /\ access'.route = access.route /\ access'.listing = access.listing
        /\ access'.asked = access.asked /\ access.pc = "direct"
    BY <1>0, <1>2 DEF EffectiveDirect, AccessType
  <2>2. direct' \in SUBSET Grants /\ assigned' \in SUBSET Grants
    BY <1>0 DEF Unedited
  <2>3. /\ held.roles \subseteq held'.roles /\ held.gates \subseteq held'.gates
        /\ held.grants \subseteq held'.grants
    BY <2>1, <2>2, HistoryGrows
  <2>4. /\ Permitted => Permitted'
        /\ GateOpen => GateOpen'
    BY <2>1, <2>3, StaysTrue
  <2>5. GrantsNext' /\ access'.rows \subseteq held'.grants
    BY <1>0, <2>1, <2>3, <2>4 DEF GrantsNext, HistoryComplete
  <2>6. access'.asked.by # "route" => GateOpen'
    BY <2>1, <2>4, Busy DEF AccessInv
  <2> QED
    BY <2>1, <2>2, <2>5, <2>6, GoesOn
<1>3. CASE EffectiveInherited
  <2>1. access.rows \cup Inherited \subseteq held.grants /\ access.rows \cup Inherited \in SUBSET Grants
    BY <1>0 DEF HistoryComplete
  <2>2. access.pc = "inherited"
    BY <1>3 DEF EffectiveInherited
  <2>3. CASE access.listing
    BY <1>0, <1>3, <2>1, <2>2, <2>3, ListFiltered DEF EffectiveInherited
  <2>4. CASE ~access.listing
    BY <1>0, <1>3, <2>1, <2>2, <2>4, ScopeAuthorized DEF EffectiveInherited
  <2> QED
    BY <2>3, <2>4
<1> QED
  BY <1>1, <1>2, <1>3

LEMMA GatePassed ==
  ASSUME AccessInv, Recorded, access \in AccessType, ProductionWriteGate
  PROVE  AccessInv'
<1>0. Unedited /\ access.pc = "gate"
  BY DEF ProductionWriteGate, Keep, Unedited
<1>1. CASE Deny
  BY <1>0, <1>1, Denies
<1>2. CASE GoOn("handled") /\ (directClusterMutation(access.route) => ~gated)
  <2>1. /\ access' \in AccessType /\ access'.pc = "handled" /\ access'.rows = access.rows
        /\ access'.route = access.route /\ access'.listing = access.listing
        /\ access'.asked = access.asked /\ access'.answer = access.answer
        /\ access'.checked = access.checked
    BY <1>2 DEF GoOn, AccessType
  <2>2. direct' \in SUBSET Grants /\ assigned' \in SUBSET Grants
    BY <1>0 DEF Unedited, AccessInv, RowsType
  <2>3. /\ held.roles \subseteq held'.roles /\ held.gates \subseteq held'.gates
        /\ held.grants \subseteq held'.grants /\ gated \in held'.gates
    BY <1>0, <2>1, <2>2, HistoryGrows DEF Unedited
  <2>4. Justified'
    BY <1>0, <2>1, <2>3, StaysTrue, Busy DEF AccessInv
  <2>5. GateOpen'
    BY <1>2, <2>1, <2>3 DEF GateOpen, directClusterMutation
  <2>6. GrantsNext' /\ access'.rows \subseteq held'.grants
    BY <2>1, <2>3, Busy DEF AccessInv, HistoryComplete, GrantsNext
  <2> QED
    BY <2>1, <2>2, <2>4, <2>5, <2>6, GoesOn
<1> QED
  BY <1>1, <1>2 DEF ProductionWriteGate

LEMMA AccessStep == AccessInv /\ [AccessNext]_accessVars => AccessInv'
<1> SUFFICES ASSUME AccessInv, [AccessNext]_accessVars
             PROVE  AccessInv'
  OBVIOUS
<1>1. CASE UNCHANGED accessVars
  <2>1. RowsType'
    BY <1>1 DEF accessVars, AccessInv, RowsType, Grants, AccessType, Question, Names, NoCluster,
       AnyNamespace, NoAccess
  <2>2. (access # NoAccess => HistoryComplete /\ GrantsNext)'
    BY <1>1 DEF accessVars, AccessInv, HistoryComplete, GrantsNext, Permitted, Permitting, Inherited
  <2>3. (access # NoAccess /\ access.pc \in {"gate", "handled"} => Justified)'
    BY <1>1 DEF accessVars, AccessInv, Justified, Permitted, Permitting, AsksGrants, Covered
  <2>4. (access # NoAccess /\ (access.pc = "handled" \/ access.asked.by # "route") => GateOpen)'
    BY <1>1 DEF accessVars, AccessInv, GateOpen, directClusterMutation
  <2> QED
    BY <2>1, <2>2, <2>3, <2>4 DEF AccessInv
<1>2. CASE AccessNext
  <2>0. Recorded
    BY <1>2 DEF AccessNext, Recorded
  <2>1. CASE Administration
    BY <2>0, <2>1, Administered
  <2>2. CASE \E route \in Routes, cluster \in Cluster \cup {NoCluster},
                name \in {firstNonEmpty(given) : given \in Given} : Begin(route, cluster, name)
    BY <2>0, <2>2, Begins
  <2>3. CASE \/ CheckRole \/ RequireScope \/ ensureToolAccess \/ canReviewChange
             \/ AgentAuthorize \/ EffectiveDirect \/ EffectiveInherited
             \/ ProductionWriteGate \/ RequestHandled \/ Handlers
    <3>1. access.pc # "idle"
      BY <2>3 DEF CheckRole, RequireScope, ensureToolAccess, canReviewChange, AgentAuthorize,
         EffectiveDirect, EffectiveInherited,
         ProductionWriteGate, RequestHandled, Handlers, EnsureScope, AgentAsks
    <3>2. access \in AccessType
      BY <3>1 DEF AccessInv, RowsType, NoAccess
    <3>3. RequestHandled => AccessInv'
      BY <2>0, Ends DEF RequestHandled, Keep, Unedited
    <3>4. Handlers => AccessInv'
      BY <2>0, <3>2, Asked DEF Handlers
    <3> QED
      BY <2>0, <2>3, <3>2, <3>3, <3>4, RoleChecked, GrantsRead, GatePassed
  <2> QED
    BY <1>2, <2>1, <2>2, <2>3 DEF AccessNext, Middleware
<1> QED
  BY <1>1, <1>2

\* Whatever administrators do between the reads of a request, no answer about what it
\* may do rests on a role, a grant or a gate that was not in force since it began.
THEOREM AsGranted == Spec => []AnswerAsGranted
<1>1. AccessInit => AccessInv
  BY DEF AccessInit, AccessInv, RowsType, Assignments, NoHistory
<1>2. AccessInv => AnswerAsGranted
  <2> SUFFICES ASSUME AccessInv, access.pc = "handled" PROVE AnswerAsGranted
    BY DEF AnswerAsGranted
  <2>1. access # NoAccess
    BY DEF NoAccess
  <2> QED
    BY <2>1 DEF AccessInv, Justified, GateOpen, Permitted, AnswerAsGranted
<1> QED
  BY <1>1, <1>2, AccessStep, AccessPart, PTL DEF AccessSpec
=============================================================================
