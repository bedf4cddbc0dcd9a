---------------------------- MODULE AuthProofs ----------------------------
(***************************************************************************)
(* Proofs about Auth, for every value of its constants.                    *)
(***************************************************************************)
EXTENDS Auth, TLAPS

\* Once loaded, the secret in memory is the stored one, and so is the secret of
\* every cookie a browser holds; only the running process handles requests.
SecretInv ==
    /\ proc \in {"username", "hash", "log", "up"} =>
          memory.secret # None /\ memory.secret = settings.secret
    /\ \A c \in Clients :
          jar[c] # None => settings.secret # None /\ jar[c].secret = settings.secret
    /\ \A c \in Clients : req[c].pc # "idle" => proc = "up"

\* A request that is to store a password has one.
NextInv == \A c \in Clients : req[c].pc \in {"check", "store"} => req[c].next \in Passwords

\* Where the stored password is known: always, but for the step in which it has
\* been generated and not yet logged.
KnownInv ==
    /\ conf.password \in known \cup {""}
    /\ settings.hash # None /\ proc # "log" => settings.hash \in known \/ unread
    /\ proc \in {"log", "up"} => settings.hash # None
    /\ proc = "log" =>
          settings.hash \in known \/ settings.hash = memory.GeneratedPassword \/ unread

\* A cookie ends sessionDuration after the login it was issued for.
LoginInv ==
    /\ \A c \in Clients : jar[c] # None =>
          loggedIn[c] # None /\ jar[c].exp = loggedIn[c] + sessionDuration
    /\ AdmittedAfterLogin

AuthInv == TypeOK /\ SecretInv /\ NextInv /\ KnownInv /\ LoginInv
---------------------------------------------------------------------------

\* The values variables are reset to have their types.
LEMMA Resets ==
    /\ NoRequest \in Request
    /\ NotConfigured \in Account
    /\ NoMemory \in Authenticator
<1>1. 0 \in 0..MaxTime
  BY TimeAssumption
<1>2. QED BY <1>1 DEF NoRequest, NotConfigured, NoMemory, Request, Account, Authenticator, Names

\* Every step keeps the types.
LEMMA TypeStep ==
    ASSUME TypeOK, SecretInv, NextInv, [Next]_vars PROVE TypeOK'
<1>1. CASE \E user \in Users \cup {""}, password \in Passwords \cup {""} : Start(user, password)
  <2>1. PICK user \in Users \cup {""}, password \in Passwords \cup {""} : Start(user, password)
    BY <1>1
  <2>2. conf' \in Account
    BY <2>1 DEF Start, Account, Names
  <2>3. known' \subseteq AllPasswords
    BY <2>1 DEF TypeOK, Start, AllPasswords
  <2>4. QED BY <2>1, <2>2, <2>3 DEF TypeOK, Start
<1>2. CASE loadOrCreateSecret
  <2>1. settings' \in Settings
    BY <1>2 DEF TypeOK, loadOrCreateSecret, SecretLoaded, Settings
  <2>2. memory' \in Authenticator
    BY <1>2 DEF TypeOK, loadOrCreateSecret, Authenticator
  <2>3. QED BY <1>2, <2>1, <2>2 DEF TypeOK, loadOrCreateSecret, Proceed
<1>3. CASE StoreUsername
  <2>1. UsernameReads \subseteq Names
    BY <1>3 DEF TypeOK, UsernameReads, Settings, Names
  <2>2. conf.user \in Names
    BY <1>3 DEF TypeOK, Account
  <2>3. \E name \in Names : settings' = [settings EXCEPT !.username = name]
    BY <1>3, <2>1, <2>2 DEF StoreUsername, Names
  <2>4. settings' \in Settings
    BY <1>3, <2>3 DEF TypeOK, Settings
  <2>5. QED BY <1>3, <2>1, <2>2, <2>3, <2>4 DEF TypeOK, StoreUsername, Proceed
<1>4. CASE StorePassword
  <2>1. PICK pw \in PasswordToSet :
               /\ settings' = [settings EXCEPT !.hash = pw]
               /\ memory' = [memory EXCEPT !.GeneratedPassword = Generated(pw)]
    BY <1>4 DEF StorePassword
  <2>2. pw \in AllPasswords
    BY DEF TypeOK, PasswordToSet, Settings, Account, AllPasswords
  <2>3. Generated(pw) \in RandomPasswords \cup {None}
    BY DEF Generated, PasswordToSet
  <2>4. settings' \in Settings
    BY <2>1, <2>2 DEF TypeOK, Settings
  <2>5. memory' \in Authenticator
    BY <2>1, <2>3 DEF TypeOK, Authenticator
  <2>6. QED BY <1>4, <2>4, <2>5 DEF TypeOK, StorePassword, Proceed
<1>5. CASE LogPassword
  <2>1. known' \subseteq AllPasswords
    BY <1>5 DEF TypeOK, LogPassword, Authenticator, AllPasswords
  <2>2. QED BY <1>5, <2>1, Resets DEF TypeOK, LogPassword, Proceed
<1>6. CASE StartFails
  BY <1>6, Resets DEF TypeOK, StartFails
<1>7. CASE Crash
  <2>1. unread' \in BOOLEAN
    BY <1>7 DEF TypeOK, Crash
  <2>2. req' \in [Clients -> Request]
    BY <1>7, Resets DEF Crash
  <2>3. QED BY <1>7, <2>1, <2>2, Resets DEF TypeOK, Crash
<1>8. CASE Tick
  BY <1>8, TimeAssumption DEF TypeOK, Tick
<1>9. ASSUME NEW c \in Clients,
               \/ \E user \in Names, password \in AllPasswords : Login(c, user, password)
               \/ IssueCookie(c)
               \/ Logout(c)
               \/ Me(c)
               \/ \E current \in AllPasswords, next \in Passwords : ChangePassword(c, current, next)
               \/ Answer(c)
               \/ CheckCurrent(c)
               \/ setPassword(c)
      PROVE TypeOK'
  <2>1. CASE \E user \in Names, password \in AllPasswords : Login(c, user, password)
    <3>1. PICK user \in Names, password \in AllPasswords : Login(c, user, password)
      BY <2>1
    <3>2. [NoRequest EXCEPT !.pc = "issue", !.user = user] \in Request
      BY <3>1, Resets DEF Request
    <3>3. QED BY <3>1, <3>2 DEF TypeOK, Login
  <2>2. CASE IssueCookie(c)
    <3>1. memory.secret \in Secrets
      BY <2>2 DEF TypeOK, SecretInv, IssueCookie, Authenticator
    <3>2. req[c].user \in Names
      BY <2>2 DEF TypeOK, Request
    <3>3. now + sessionDuration \in 0..(MaxTime + sessionDuration)
      BY <2>2, TimeAssumption DEF TypeOK
    <3>4. [user |-> req[c].user, exp |-> now + sessionDuration, secret |-> memory.secret] \in Cookie
      BY <2>2, <3>1, <3>2, <3>3 DEF Cookie
    <3>5. QED BY <2>2, <3>1, <3>2, <3>3, <3>4, Resets DEF TypeOK, IssueCookie
  <2>3. CASE Logout(c)
    BY <2>3 DEF TypeOK, Logout
  <2>4. CASE Me(c)
    <3>1. jar[c].user \in Names
      BY <2>4 DEF TypeOK, Me, Middleware, verify, Cookie
    <3>2. req' = [req EXCEPT ![c] = [NoRequest EXCEPT !.pc = "me", !.user = jar[c].user, !.at = now]]
      BY <2>4 DEF Me, Middleware, NoRequest
    <3>3. [NoRequest EXCEPT !.pc = "me", !.user = jar[c].user, !.at = now] \in Request
      BY <2>4, Resets, <3>1 DEF TypeOK, Request
    <3>4. QED BY <2>4, <3>1, <3>2, <3>3 DEF TypeOK, Me, Middleware
  <2>5. CASE \E current \in AllPasswords, next \in Passwords : ChangePassword(c, current, next)
    <3>1. PICK current \in AllPasswords, next \in Passwords : ChangePassword(c, current, next)
      BY <2>5
    <3> DEFINE r == [NoRequest EXCEPT !.pc = "check", !.current = current, !.next = next]
    <3>2. jar[c].user \in Names
      BY <3>1 DEF TypeOK, ChangePassword, Middleware, verify, Cookie
    <3>3. r \in Request
      BY Resets DEF Request
    <3>4. [r EXCEPT !.user = jar[c].user, !.at = now] \in Request
      BY <3>2, <3>3 DEF TypeOK, Request
    <3>5. QED BY <3>1, <3>4 DEF TypeOK, ChangePassword, Middleware
  <2>6. CASE Answer(c)
    BY <2>6, Resets DEF TypeOK, Answer
  <2>7. CASE CheckCurrent(c)
    <3>1. [req[c] EXCEPT !.pc = "store"] \in Request
      BY <2>7 DEF TypeOK, Request
    <3>2. req' = [req EXCEPT ![c] = [req[c] EXCEPT !.pc = "store"]]
      BY <2>7 DEF CheckCurrent
    <3>3. QED BY <2>7, <3>1, <3>2 DEF TypeOK, CheckCurrent
  <2>8. CASE setPassword(c)
    <3>1. req[c].next \in Passwords
      BY <2>8 DEF TypeOK, NextInv, setPassword, Request
    <3>2. settings' \in Settings
      BY <2>8, <3>1 DEF TypeOK, setPassword, Settings, AllPasswords
    <3>3. known' \subseteq AllPasswords
      BY <2>8, <3>1 DEF TypeOK, setPassword, AllPasswords
    <3>4. QED BY <2>8, <3>1, <3>2, <3>3, Resets DEF TypeOK, setPassword
  <2>9. QED BY <1>9, <2>1, <2>2, <2>3, <2>4, <2>5, <2>6, <2>7, <2>8
<1>10. CASE UNCHANGED vars
  BY <1>10 DEF TypeOK, vars
<1>11. QED BY <1>1, <1>2, <1>3, <1>4, <1>5, <1>6, <1>7, <1>8, <1>9, <1>10 DEF Next

\* Every step keeps the secrets in memory, in the table and in the cookies equal.
LEMMA SecretStep ==
    ASSUME TypeOK, SecretInv, [Next]_vars PROVE SecretInv'
<1>1. CASE \E user \in Users \cup {""}, password \in Passwords \cup {""} : Start(user, password)
  BY <1>1 DEF SecretInv, Start
<1>2. CASE loadOrCreateSecret
  <2>1. memory'.secret = settings'.secret /\ memory'.secret \in Secrets
    BY <1>2 DEF TypeOK, Settings, Authenticator, loadOrCreateSecret, SecretLoaded
  <2>2. settings.secret # None => settings'.secret = settings.secret
    BY <1>2 DEF loadOrCreateSecret, SecretLoaded
  <2>3. QED BY <1>2, <2>1, <2>2, DistinctAssumption DEF SecretInv, loadOrCreateSecret, Proceed
<1>3. CASE StoreUsername
  <2>1. settings'.secret = settings.secret /\ settings'.hash = settings.hash
    BY <1>3 DEF TypeOK, StoreUsername, Settings
  <2>2. QED BY <1>3, <2>1 DEF SecretInv, StoreUsername, Proceed
<1>4. CASE StorePassword
  <2>1. /\ settings'.secret = settings.secret
        /\ memory'.secret = memory.secret
    BY <1>4 DEF TypeOK, StorePassword, Settings, Authenticator
  <2>2. QED BY <1>4, <2>1 DEF SecretInv, StorePassword, Proceed
<1>5. CASE LogPassword
  BY <1>5 DEF SecretInv, LogPassword, Proceed
<1>6. CASE StartFails
  BY <1>6 DEF SecretInv, StartFails
<1>7. CASE Crash
  BY <1>7 DEF SecretInv, Crash, NoRequest
<1>8. CASE Tick
  BY <1>8 DEF SecretInv, Tick
<1>9. ASSUME NEW c \in Clients,
               \/ \E user \in Names, password \in AllPasswords : Login(c, user, password)
               \/ IssueCookie(c)
               \/ Logout(c)
               \/ Me(c)
               \/ \E current \in AllPasswords, next \in Passwords : ChangePassword(c, current, next)
               \/ Answer(c)
               \/ CheckCurrent(c)
               \/ setPassword(c)
      PROVE SecretInv'
  <2>1. CASE \E user \in Names, password \in AllPasswords : Login(c, user, password)
    BY <2>1 DEF TypeOK, SecretInv, Login, Idle
  <2>2. CASE IssueCookie(c)
    <3>1. proc = "up"
      BY <2>2 DEF SecretInv, IssueCookie
    <3>2. memory.secret # None /\ memory.secret = settings.secret
      BY <2>2, <3>1 DEF SecretInv
    <3>3. jar'[c].secret = memory.secret /\ \A d \in Clients \ {c} : jar'[d] = jar[d]
      BY <2>2 DEF TypeOK, IssueCookie
    <3>4. QED BY <2>2, <3>1, <3>2, <3>3 DEF TypeOK, SecretInv, IssueCookie
  <2>3. CASE Logout(c)
    BY <2>3 DEF TypeOK, SecretInv, Logout
  <2>4. CASE Me(c)
    BY <2>4 DEF TypeOK, SecretInv, Me, Middleware, Idle
  <2>5. CASE \E current \in AllPasswords, next \in Passwords : ChangePassword(c, current, next)
    BY <2>5 DEF TypeOK, SecretInv, ChangePassword, Middleware, Idle
  <2>6. CASE Answer(c)
    BY <2>6 DEF TypeOK, SecretInv, Answer, NoRequest
  <2>7. CASE CheckCurrent(c)
    <3>1. /\ req'[c].pc = "store"
          /\ \A d \in Clients \ {c} : req'[d] = req[d]
      BY <2>7, Resets DEF TypeOK, CheckCurrent, NoRequest, Request
    <3>2. proc = "up"
      BY <2>7 DEF SecretInv, CheckCurrent
    <3>3. QED BY <2>7, <3>1, <3>2 DEF SecretInv, CheckCurrent
  <2>8. CASE setPassword(c)
    <3>1. settings'.secret = settings.secret
      BY <2>8 DEF TypeOK, setPassword, Settings
    <3>2. proc = "up"
      BY <2>8 DEF SecretInv, setPassword
    <3>3. QED BY <2>8, <3>1, <3>2 DEF TypeOK, SecretInv, setPassword
  <2>9. QED BY <1>9, <2>1, <2>2, <2>3, <2>4, <2>5, <2>6, <2>7, <2>8
<1>10. CASE UNCHANGED vars
  BY <1>10 DEF SecretInv, vars
<1>11. QED BY <1>1, <1>2, <1>3, <1>4, <1>5, <1>6, <1>7, <1>8, <1>9, <1>10 DEF Next

\* Every step keeps a password in the requests that are to store one.
LEMMA NextStep ==
    ASSUME TypeOK, NextInv, [Next]_vars PROVE NextInv'
<1>1. CASE \E user \in Users \cup {""}, password \in Passwords \cup {""} : Start(user, password)
  BY <1>1 DEF NextInv, Start
<1>2. CASE loadOrCreateSecret
  BY <1>2 DEF NextInv, loadOrCreateSecret
<1>3. CASE StoreUsername
  BY <1>3 DEF NextInv, StoreUsername
<1>4. CASE StorePassword
  BY <1>4 DEF NextInv, StorePassword
<1>5. CASE LogPassword
  BY <1>5 DEF NextInv, LogPassword
<1>6. CASE StartFails
  BY <1>6 DEF NextInv, StartFails
<1>7. CASE Crash
  BY <1>7 DEF NextInv, Crash, NoRequest
<1>8. CASE Tick
  BY <1>8 DEF NextInv, Tick
<1>9. ASSUME NEW c \in Clients,
               \/ \E user \in Names, password \in AllPasswords : Login(c, user, password)
               \/ IssueCookie(c)
               \/ Logout(c)
               \/ Me(c)
               \/ \E current \in AllPasswords, next \in Passwords : ChangePassword(c, current, next)
               \/ Answer(c)
               \/ CheckCurrent(c)
               \/ setPassword(c)
      PROVE NextInv'
  <2>1. CASE \E user \in Names, password \in AllPasswords : Login(c, user, password)
    <3>1. PICK user \in Names, password \in AllPasswords : Login(c, user, password)
      BY <2>1
    <3>2. /\ req'[c].pc = "issue"
          /\ \A d \in Clients \ {c} : req'[d] = req[d]
      BY <3>1, Resets DEF TypeOK, Login, NoRequest, Request
    <3>3. QED BY <3>1, <3>2 DEF NextInv
  <2>2. CASE IssueCookie(c)
    <3>1. /\ req'[c].pc = "idle"
          /\ \A d \in Clients \ {c} : req'[d] = req[d]
      BY <2>2, Resets DEF TypeOK, IssueCookie, NoRequest, Request
    <3>2. QED BY <2>2, <3>1 DEF NextInv, IssueCookie
  <2>3. CASE Logout(c)
    BY <2>3 DEF NextInv, Logout
  <2>4. CASE Me(c)
    <3>1. /\ req'[c].pc = "me"
          /\ \A d \in Clients \ {c} : req'[d] = req[d]
      BY <2>4, Resets DEF TypeOK, Me, Middleware, NoRequest, Request
    <3>2. QED BY <2>4, <3>1 DEF NextInv
  <2>5. CASE \E current \in AllPasswords, next \in Passwords : ChangePassword(c, current, next)
    <3>1. PICK current \in AllPasswords, next \in Passwords : ChangePassword(c, current, next)
      BY <2>5
    <3>2. /\ req'[c].next \in Passwords
          /\ \A d \in Clients \ {c} : req'[d] = req[d]
      BY <3>1, Resets DEF TypeOK, ChangePassword, Middleware, NoRequest, Request
    <3>3. QED BY <3>1, <3>2 DEF NextInv
  <2>6. CASE Answer(c)
    <3>1. /\ req'[c].pc = "idle"
          /\ \A d \in Clients \ {c} : req'[d] = req[d]
      BY <2>6, Resets DEF TypeOK, Answer, NoRequest, Request
    <3>2. QED BY <2>6, <3>1 DEF NextInv, Answer
  <2>7. CASE CheckCurrent(c)
    <3>1. /\ req'[c].next = req[c].next
          /\ \A d \in Clients \ {c} : req'[d] = req[d]
      BY <2>7 DEF TypeOK, CheckCurrent, Request
    <3>2. QED BY <2>7, <3>1 DEF NextInv, CheckCurrent
  <2>8. CASE setPassword(c)
    <3>1. /\ req'[c].pc = "idle"
          /\ \A d \in Clients \ {c} : req'[d] = req[d]
      BY <2>8, Resets DEF TypeOK, setPassword, NoRequest, Request
    <3>2. QED BY <2>8, <3>1 DEF NextInv, setPassword
  <2>9. QED BY <1>9, <2>1, <2>2, <2>3, <2>4, <2>5, <2>6, <2>7, <2>8
<1>10. CASE UNCHANGED vars
  BY <1>10 DEF NextInv, vars
<1>11. QED BY <1>1, <1>2, <1>3, <1>4, <1>5, <1>6, <1>7, <1>8, <1>9, <1>10 DEF Next

\* Every step keeps the stored password known, but for the one just generated.
LEMMA KnownStep ==
    ASSUME TypeOK, SecretInv, NextInv, KnownInv, [Next]_vars PROVE KnownInv'
<1>1. CASE \E user \in Users \cup {""}, password \in Passwords \cup {""} : Start(user, password)
  <2>1. PICK user \in Users \cup {""}, password \in Passwords \cup {""} : Start(user, password)
    BY <1>1
  <2>2. conf'.password \in known' \cup {""} /\ known \subseteq known'
    BY <2>1 DEF Start
  <2>3. QED BY <2>1, <2>2 DEF KnownInv, Start
<1>2. CASE loadOrCreateSecret
  <2>1. settings'.hash = settings.hash
    BY <1>2 DEF TypeOK, Settings, loadOrCreateSecret, SecretLoaded
  <2>2. QED BY <1>2, <2>1 DEF KnownInv, loadOrCreateSecret, Proceed
<1>3. CASE StoreUsername
  <2>1. settings'.secret = settings.secret /\ settings'.hash = settings.hash
    BY <1>3 DEF TypeOK, StoreUsername, Settings
  <2>2. QED BY <1>3, <2>1 DEF KnownInv, StoreUsername, Proceed
<1>4. CASE StorePassword
  <2>1. PICK pw \in PasswordToSet :
               /\ settings' = [settings EXCEPT !.hash = pw]
               /\ memory' = [memory EXCEPT !.GeneratedPassword = Generated(pw)]
    BY <1>4 DEF StorePassword
  <2>2. settings'.hash = pw /\ memory'.GeneratedPassword = Generated(pw)
    BY <2>1 DEF TypeOK, Settings, Authenticator
  <2>3. pw # None
    BY DistinctAssumption DEF PasswordToSet, AllPasswords, TypeOK, Account
  <2>4. pw \in known \/ pw = Generated(pw) \/ unread
    BY <1>4 DEF PasswordToSet, Generated, KnownInv, StorePassword, Proceed
  <2>5. QED BY <1>4, <2>2, <2>3, <2>4 DEF KnownInv, StorePassword, Proceed
<1>5. CASE LogPassword
  BY <1>5 DEF KnownInv, LogPassword, Proceed, NotConfigured
<1>6. CASE StartFails
  BY <1>6 DEF KnownInv, StartFails, NotConfigured
<1>7. CASE Crash
  BY <1>7 DEF KnownInv, Crash, NotConfigured
<1>8. CASE Tick
  BY <1>8 DEF KnownInv, Tick
<1>9. ASSUME NEW c \in Clients,
               \/ \E user \in Names, password \in AllPasswords : Login(c, user, password)
               \/ IssueCookie(c)
               \/ Logout(c)
               \/ Me(c)
               \/ \E current \in AllPasswords, next \in Passwords : ChangePassword(c, current, next)
               \/ Answer(c)
               \/ CheckCurrent(c)
               \/ setPassword(c)
      PROVE KnownInv'
  <2>1. CASE \E user \in Names, password \in AllPasswords : Login(c, user, password)
    <3>1. PICK user \in Names, password \in AllPasswords : Login(c, user, password)
      BY <2>1
    <3>2. QED BY <3>1 DEF KnownInv, Login
  <2>2. CASE IssueCookie(c)
    BY <2>2 DEF KnownInv, IssueCookie
  <2>3. CASE Logout(c)
    BY <2>3 DEF KnownInv, Logout
  <2>4. CASE Me(c)
    BY <2>4 DEF KnownInv, Me, Middleware
  <2>5. CASE \E current \in AllPasswords, next \in Passwords : ChangePassword(c, current, next)
    <3>1. PICK current \in AllPasswords, next \in Passwords : ChangePassword(c, current, next)
      BY <2>5
    <3>2. QED BY <3>1 DEF KnownInv, ChangePassword, Middleware
  <2>6. CASE Answer(c)
    BY <2>6 DEF KnownInv, Answer
  <2>7. CASE CheckCurrent(c)
    BY <2>7 DEF KnownInv, CheckCurrent
  <2>8. CASE setPassword(c)
    <3>1. proc = "up"
      BY <2>8 DEF SecretInv, setPassword
    <3>2. settings'.hash = req[c].next /\ settings'.hash \in known'
      BY <2>8 DEF TypeOK, Settings, setPassword
    <3>3. req[c].next # None
      BY <2>8, DistinctAssumption DEF NextInv, setPassword, AllPasswords
    <3>4. QED BY <2>8, <3>1, <3>2, <3>3 DEF KnownInv, setPassword
  <2>9. QED BY <1>9, <2>1, <2>2, <2>3, <2>4, <2>5, <2>6, <2>7, <2>8
<1>10. CASE UNCHANGED vars
  BY <1>10 DEF KnownInv, vars
<1>11. QED BY <1>1, <1>2, <1>3, <1>4, <1>5, <1>6, <1>7, <1>8, <1>9, <1>10 DEF Next

\* Every step keeps cookies and admitted requests within their login's duration.
LEMMA LoginStep ==
    ASSUME TypeOK, LoginInv, [Next]_vars PROVE LoginInv'
<1>1. CASE \E user \in Users \cup {""}, password \in Passwords \cup {""} : Start(user, password)
  BY <1>1 DEF LoginInv, AdmittedAfterLogin, Start
<1>2. CASE loadOrCreateSecret
  BY <1>2 DEF LoginInv, AdmittedAfterLogin, loadOrCreateSecret
<1>3. CASE StoreUsername
  BY <1>3 DEF LoginInv, AdmittedAfterLogin, StoreUsername
<1>4. CASE StorePassword
  BY <1>4 DEF LoginInv, AdmittedAfterLogin, StorePassword
<1>5. CASE LogPassword
  BY <1>5 DEF LoginInv, AdmittedAfterLogin, LogPassword
<1>6. CASE StartFails
  BY <1>6 DEF LoginInv, AdmittedAfterLogin, StartFails
<1>7. CASE Crash
  BY <1>7 DEF LoginInv, AdmittedAfterLogin, Crash, NoRequest
<1>8. CASE Tick
  BY <1>8 DEF LoginInv, AdmittedAfterLogin, Tick
<1>9. ASSUME NEW c \in Clients,
               \/ \E user \in Names, password \in AllPasswords : Login(c, user, password)
               \/ IssueCookie(c)
               \/ Logout(c)
               \/ Me(c)
               \/ \E current \in AllPasswords, next \in Passwords : ChangePassword(c, current, next)
               \/ Answer(c)
               \/ CheckCurrent(c)
               \/ setPassword(c)
      PROVE LoginInv'
  <2>1. CASE \E user \in Names, password \in AllPasswords : Login(c, user, password)
    <3>1. PICK user \in Names, password \in AllPasswords : Login(c, user, password)
      BY <2>1
    <3>2. /\ req'[c].pc = "issue"
          /\ \A d \in Clients \ {c} : req'[d] = req[d]
      BY <3>1, Resets DEF TypeOK, Login, NoRequest, Request
    <3>3. QED BY <3>1, <3>2 DEF LoginInv, AdmittedAfterLogin, Login
  <2>2. CASE IssueCookie(c)
    <3>1. /\ req'[c].pc = "idle"
          /\ \A d \in Clients \ {c} : req'[d] = req[d]
      BY <2>2, Resets DEF TypeOK, IssueCookie, NoRequest, Request
    <3>2. /\ jar'[c].exp = now + sessionDuration /\ loggedIn'[c] = now /\ now # None
          /\ \A d \in Clients \ {c} : jar'[d] = jar[d] /\ loggedIn'[d] = loggedIn[d]
      BY <2>2, TimeAssumption DEF TypeOK, IssueCookie
    <3>3. QED BY <2>2, <3>1, <3>2 DEF LoginInv, AdmittedAfterLogin, IssueCookie
  <2>3. CASE Logout(c)
    <3>1. /\ jar'[c] = None /\ req'[c].pc = "idle"
          /\ \A d \in Clients \ {c} : jar'[d] = jar[d] /\ loggedIn'[d] = loggedIn[d]
      BY <2>3 DEF TypeOK, Logout, Idle
    <3>2. QED BY <2>3, <3>1 DEF LoginInv, AdmittedAfterLogin, Logout
  <2>4. CASE Me(c)
    <3>1. /\ req'[c].at = now
          /\ \A d \in Clients \ {c} : req'[d] = req[d]
      BY <2>4, Resets DEF TypeOK, Me, Middleware, NoRequest, Request
    <3>2. loggedIn[c] # None /\ now <= loggedIn[c] + sessionDuration
      BY <2>4 DEF LoginInv, verify, Me, Middleware
    <3>3. QED BY <2>4, <3>1, <3>2 DEF LoginInv, AdmittedAfterLogin, Me, Middleware
  <2>5. CASE \E current \in AllPasswords, next \in Passwords : ChangePassword(c, current, next)
    <3>1. PICK current \in AllPasswords, next \in Passwords : ChangePassword(c, current, next)
      BY <2>5
    <3>2. /\ req'[c].at = now
          /\ \A d \in Clients \ {c} : req'[d] = req[d]
      BY <3>1, Resets DEF TypeOK, ChangePassword, Middleware, NoRequest, Request
    <3>3. loggedIn[c] # None /\ now <= loggedIn[c] + sessionDuration
      BY <3>1 DEF LoginInv, verify, ChangePassword, Middleware
    <3>4. QED BY <3>1, <3>2, <3>3 DEF LoginInv, AdmittedAfterLogin, ChangePassword, Middleware
  <2>6. CASE Answer(c)
    <3>1. /\ req'[c].pc = "idle"
          /\ \A d \in Clients \ {c} : req'[d] = req[d]
      BY <2>6, Resets DEF TypeOK, Answer, NoRequest, Request
    <3>2. QED BY <2>6, <3>1 DEF LoginInv, AdmittedAfterLogin, Answer
  <2>7. CASE CheckCurrent(c)
    <3>1. /\ req'[c].at = req[c].at
          /\ \A d \in Clients \ {c} : req'[d] = req[d]
      BY <2>7 DEF TypeOK, CheckCurrent, Request
    <3>2. QED BY <2>7, <3>1 DEF LoginInv, AdmittedAfterLogin, CheckCurrent
  <2>8. CASE setPassword(c)
    <3>1. /\ req'[c].pc = "idle"
          /\ \A d \in Clients \ {c} : req'[d] = req[d]
      BY <2>8, Resets DEF TypeOK, setPassword, NoRequest, Request
    <3>2. QED BY <2>8, <3>1 DEF LoginInv, AdmittedAfterLogin, setPassword
  <2>9. QED BY <1>9, <2>1, <2>2, <2>3, <2>4, <2>5, <2>6, <2>7, <2>8
<1>10. CASE UNCHANGED vars
  BY <1>10 DEF LoginInv, AdmittedAfterLogin, vars
<1>11. QED BY <1>1, <1>2, <1>3, <1>4, <1>5, <1>6, <1>7, <1>8, <1>9, <1>10 DEF Next

\* AuthInv is inductive.
LEMMA Inductive == Spec => []AuthInv
<1>1. Init => AuthInv
  <2> SUFFICES ASSUME Init PROVE AuthInv
    OBVIOUS
  <2>1. settings \in Settings
    BY DEF Init, Settings
  <2>2. TypeOK
    <3>1. now \in 0..MaxTime
      BY TimeAssumption DEF Init
    <3>2. known \subseteq AllPasswords /\ unread \in BOOLEAN
      BY DEF Init
    <3>3. QED BY <2>1, <3>1, <3>2, Resets DEF Init, TypeOK
  <2>3. SecretInv /\ NextInv
    BY DEF Init, SecretInv, NextInv, NoRequest
  <2>4. KnownInv /\ LoginInv
    BY DEF Init, KnownInv, LoginInv, AdmittedAfterLogin, NoRequest, NotConfigured
  <2>5. QED BY <2>2, <2>3, <2>4 DEF AuthInv
<1>2. AuthInv /\ [Next]_vars => AuthInv'
  BY TypeStep, SecretStep, NextStep, KnownStep, LoginStep DEF AuthInv
<1>3. QED BY <1>1, <1>2, PTL DEF Spec

\* What RestartKeepsPassword says of one step.
PasswordKept ==
    settings.hash # None /\ settings'.hash # settings.hash =>
        \/ settings'.hash = conf.password
        \/ \E c \in Clients : req[c].pc = "store" /\ settings'.hash = req[c].next

\* A step replaces a stored password by the configured or the requested one.
LEMMA PasswordKeptStep ==
    ASSUME TypeOK, [Next]_vars PROVE PasswordKept
<1>1. CASE \E user \in Users \cup {""}, password \in Passwords \cup {""} : Start(user, password)
  BY <1>1 DEF PasswordKept, Start
<1>2. CASE loadOrCreateSecret
  <2>1. settings'.hash = settings.hash
    BY <1>2 DEF TypeOK, Settings, loadOrCreateSecret, SecretLoaded
  <2>2. QED BY <1>2, <2>1 DEF PasswordKept
<1>3. CASE StoreUsername
  <2>1. settings'.secret = settings.secret /\ settings'.hash = settings.hash
    BY <1>3 DEF TypeOK, StoreUsername, Settings
  <2>2. QED BY <1>3, <2>1 DEF PasswordKept
<1>4. CASE StorePassword
  <2>1. PICK pw \in PasswordToSet : settings' = [settings EXCEPT !.hash = pw]
    BY <1>4 DEF StorePassword
  <2>2. settings'.hash = pw
    BY <2>1 DEF TypeOK, Settings
  <2>3. QED BY <2>2 DEF PasswordKept, PasswordToSet
<1>5. CASE LogPassword
  BY <1>5 DEF PasswordKept, LogPassword
<1>6. CASE StartFails
  BY <1>6 DEF PasswordKept, StartFails
<1>7. CASE Crash
  BY <1>7 DEF PasswordKept, Crash
<1>8. CASE Tick
  BY <1>8 DEF PasswordKept, Tick
<1>9. ASSUME NEW c \in Clients,
               \/ \E user \in Names, password \in AllPasswords : Login(c, user, password)
               \/ IssueCookie(c)
               \/ Logout(c)
               \/ Me(c)
               \/ \E current \in AllPasswords, next \in Passwords : ChangePassword(c, current, next)
               \/ Answer(c)
               \/ CheckCurrent(c)
               \/ setPassword(c)
      PROVE PasswordKept
  <2>1. CASE \E user \in Names, password \in AllPasswords : Login(c, user, password)
    BY <2>1 DEF PasswordKept, Login
  <2>2. CASE IssueCookie(c)
    BY <2>2 DEF PasswordKept, IssueCookie
  <2>3. CASE Logout(c)
    BY <2>3 DEF PasswordKept, Logout
  <2>4. CASE Me(c)
    BY <2>4 DEF PasswordKept, Me, Middleware
  <2>5. CASE \E current \in AllPasswords, next \in Passwords : ChangePassword(c, current, next)
    BY <2>5 DEF PasswordKept, ChangePassword, Middleware
  <2>6. CASE Answer(c)
    BY <2>6 DEF PasswordKept, Answer
  <2>7. CASE CheckCurrent(c)
    BY <2>7 DEF PasswordKept, CheckCurrent
  <2>8. CASE setPassword(c)
    <3>1. settings'.hash = req[c].next
      BY <2>8 DEF TypeOK, Settings, setPassword
    <3>2. QED BY <2>8, <3>1 DEF PasswordKept, setPassword
  <2>9. QED BY <1>9, <2>1, <2>2, <2>3, <2>4, <2>5, <2>6, <2>7, <2>8
<1>10. CASE UNCHANGED vars
  BY <1>10 DEF PasswordKept, vars
<1>11. QED BY <1>1, <1>2, <1>3, <1>4, <1>5, <1>6, <1>7, <1>8, <1>9, <1>10 DEF Next

(***************************************************************************)
(* The variables of Auth keep their types.                                 *)
(***************************************************************************)
THEOREM AuthTypeCorrect == Spec => []TypeOK
<1>1. AuthInv => TypeOK BY DEF AuthInv
<1>2. QED BY Inductive, <1>1, PTL

(***************************************************************************)
(* Cookies signed before any number of crashes, failed starts and changes  *)
(* of configuration are accepted by the running process until they expire  *)
(* (loadOrCreateSecret, verify).                                           *)
(***************************************************************************)
THEOREM SessionsKept == Spec => []SessionsSurvive
<1>1. AuthInv => SessionsSurvive
  BY DEF AuthInv, SecretInv, SessionsSurvive, verify
<1>2. QED BY Inductive, <1>1, PTL

(***************************************************************************)
(* The password of a served portal is known, unless the process died       *)
(* between storing a generated one and logging it (New, main).             *)
(***************************************************************************)
THEOREM NobodyLockedOut == Spec => []PasswordKnown
<1>1. AuthInv => PasswordKnown
  BY DEF AuthInv, KnownInv, PasswordKnown
<1>2. QED BY Inductive, <1>1, PTL

(***************************************************************************)
(* What Middleware lets pass comes from a browser that logged in at most   *)
(* sessionDuration before and has not logged out.                          *)
(***************************************************************************)
THEOREM OnlyAfterLogin == Spec => []AdmittedAfterLogin
<1>1. AuthInv => AdmittedAfterLogin
  BY DEF AuthInv, LoginInv
<1>2. QED BY Inductive, <1>1, PTL

(***************************************************************************)
(* A restart without a configured password keeps the stored one (New).     *)
(***************************************************************************)
THEOREM PasswordSurvivesRestart == Spec => RestartKeepsPassword
<1>1. TypeOK /\ [Next]_vars => [PasswordKept]_vars
  BY PasswordKeptStep
<1>2. QED BY <1>1, AuthTypeCorrect, PTL DEF Spec, RestartKeepsPassword, PasswordKept

=============================================================================
