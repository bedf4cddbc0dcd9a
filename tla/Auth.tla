------------------------------- MODULE Auth -------------------------------
(***************************************************************************)
(* The administrator account and its sessions: internal/auth/auth.go, the  *)
(* part of main that starts it and logs the generated password             *)
(* (cmd/wafportal/main.go), and the handlers login, logout, me and         *)
(* changePassword (internal/api/api.go).                                   *)
(*                                                                         *)
(* The settings table outlives the process; the secret in memory and the   *)
(* requests in flight do not; the cookies are in the browsers.  A step is  *)
(* at most one statement that writes: until the servers are started the    *)
(* main goroutine is alone, and afterwards only the password hash is       *)
(* written.  A hash is represented by its password (bcrypt is external).   *)
(***************************************************************************)
EXTENDS Naturals

CONSTANTS
    None,              \* no row, no cookie
    Clients,           \* browsers that use the portal, one request at a time
    Users,             \* usernames typed or configured (trimmed, as New does)
    BarUsers,          \* those that contain the separator "|" of a cookie
    Passwords,         \* passwords typed or configured
    ShortPasswords,    \* those of fewer than 8 bytes, which ChangePassword refuses
    LongPasswords,     \* those of more than 72 bytes, which bcrypt refuses
    RandomPasswords,   \* what randomPassword returns
    Secrets,           \* session secrets
    sessionDuration,   \* lifetime of a cookie, in ticks
    MaxTime,           \* bound on the clock
    StoreFaults        \* whether statements may fail

Names == Users \cup {"", "admin"}
AllPasswords == Passwords \cup RandomPasswords

ASSUME DistinctAssumption ==
    /\ None \notin Names \cup AllPasswords \cup Secrets
    /\ "" \notin AllPasswords
    /\ RandomPasswords \cap (Passwords \cup ShortPasswords \cup LongPasswords) = {}

ASSUME TimeAssumption ==
    /\ sessionDuration \in Nat
    /\ MaxTime \in Nat
    /\ None \notin Nat

ASSUME FaultsAssumption == StoreFaults \in BOOLEAN

VARIABLES
    settings,    \* the settings table: username, hash and secret, or None
    proc,        \* where the process is: down, a step of New, or up
    conf,        \* the account configured for this start; "" is not set
    memory,      \* Authenticator: secret and GeneratedPassword
    now,         \* the clock
    jar,         \* the session cookie each browser holds, or None
    req,         \* the request each browser has in flight
    known,       \* history: passwords that somebody configured, typed or read in the log
    unread,      \* history: the process died between storing and logging a password
    loggedIn     \* history: when each browser last logged in and has not logged out

vars == <<settings, proc, conf, memory, now, jar, req, known, unread, loggedIn>>

Settings == [username : Names \cup {None}, hash : AllPasswords \cup {None},
             secret : Secrets \cup {None}]
Account == [user : Names, password : Passwords \cup {""}]
Authenticator == [secret : Secrets \cup {None}, GeneratedPassword : RandomPasswords \cup {None}]
Cookie == [user : Names, exp : 0..(MaxTime + sessionDuration), secret : Secrets]
Request == [pc : {"idle", "issue", "me", "check", "store"}, user : Names,
            current : AllPasswords \cup {""}, next : Passwords \cup {""}, at : 0..MaxTime]

NoRequest == [pc |-> "idle", user |-> "", current |-> "", next |-> "", at |-> 0]
NotConfigured == [user |-> "", password |-> ""]
NoMemory == [secret |-> None, GeneratedPassword |-> None]

TypeOK ==
    /\ settings \in Settings
    /\ proc \in {"down", "secret", "username", "hash", "log", "up"}
    /\ conf \in Account
    /\ memory \in Authenticator
    /\ now \in 0..MaxTime
    /\ jar \in [Clients -> Cookie \cup {None}]
    /\ req \in [Clients -> Request]
    /\ known \subseteq AllPasswords
    /\ unread \in BOOLEAN
    /\ loggedIn \in [Clients -> (0..MaxTime) \cup {None}]

Init ==
    /\ settings = [username |-> None, hash |-> None, secret |-> None]
    /\ proc = "down"
    /\ conf = NotConfigured
    /\ memory = NoMemory
    /\ now = 0
    /\ jar = [c \in Clients |-> None]
    /\ req = [c \in Clients |-> NoRequest]
    /\ known = {}
    /\ unread = FALSE
    /\ loggedIn = [c \in Clients |-> None]

---------------------------------------------------------------------------
(***************************************************************************)
(* Starting: main hands auth.New the configured account, which may differ  *)
(* from one start to the next, and every error ends the process.           *)
(***************************************************************************)
Start(user, password) ==
    /\ proc = "down"
    /\ proc' = "secret"
    /\ conf' = [user |-> user, password |-> password]
    /\ known' = known \cup ({password} \ {""})
    /\ UNCHANGED <<settings, memory, now, jar, req, unread, loggedIn>>

\* The next step of New, after one that succeeded.
Proceed(from, to) == proc = from /\ proc' = to

\* Mutant: a new secret that is never stored.
SecretForgotten(s) ==
    \/ settings.secret # None /\ s = settings.secret /\ UNCHANGED settings
    \/ settings.secret = None /\ s \in Secrets /\ UNCHANGED settings

\* What reading the secret leaves in the table and in memory.
SecretLoaded(s) ==
    \/ settings.secret # None /\ s = settings.secret /\ UNCHANGED settings
    \/ settings.secret = None /\ s \in Secrets /\ settings' = [settings EXCEPT !.secret = s]

loadOrCreateSecret ==
    /\ Proceed("secret", "username")
    /\ \E s \in Secrets : SecretLoaded(s) /\ memory' = [memory EXCEPT !.secret = s]
    /\ UNCHANGED <<conf, now, jar, req, known, unread, loggedIn>>

\* What a read of the username may return: New, Username and Check ignore an
\* error, which reads as the empty string.
UsernameReads ==
    {IF settings.username = None THEN "" ELSE settings.username}
        \cup (IF StoreFaults THEN {""} ELSE {})

StoreUsername ==
    /\ Proceed("username", "hash")
    /\ \E stored \in UsernameReads :
          settings' = [settings EXCEPT !.username =
              IF conf.user # "" THEN conf.user ELSE IF stored # "" THEN stored ELSE "admin"]
    /\ UNCHANGED <<conf, memory, now, jar, req, known, unread, loggedIn>>

\* Mutant: hasHash is not looked at.
PasswordAlwaysSet ==
    IF conf.password # "" THEN {conf.password} \ LongPasswords ELSE RandomPasswords

\* A configured password replaces the stored one; otherwise one is generated,
\* unless one is stored.  bcrypt refuses a long one.
PasswordToSet ==
    CASE conf.password # "" -> {conf.password} \ LongPasswords
      [] conf.password = "" /\ settings.hash = None -> RandomPasswords
      [] OTHER -> {settings.hash}

\* Mutant: GeneratedPassword is not filled in.
GeneratedForgotten(pw) == None

\* Mutant: GeneratedPassword is filled in, and so logged, for any password.
GeneratedAlways(pw) == pw

Generated(pw) == IF conf.password = "" /\ settings.hash = None THEN pw ELSE None

StorePassword ==
    /\ Proceed("hash", "log")
    /\ \E pw \in PasswordToSet :
          /\ settings' = [settings EXCEPT !.hash = pw]
          /\ memory' = [memory EXCEPT !.GeneratedPassword = Generated(pw)]
    /\ UNCHANGED <<conf, now, jar, req, known, unread, loggedIn>>

\* main logs the generated password, if there is one, and starts the servers;
\* the configured account is not read again.
LogPassword ==
    /\ Proceed("log", "up")
    /\ known' = known \cup ({memory.GeneratedPassword} \ {None})
    /\ conf' = NotConfigured
    /\ UNCHANGED <<settings, memory, now, jar, req, unread, loggedIn>>

\* New returns an error: a statement failed, or bcrypt refused the password.
StartFails ==
    /\ \/ StoreFaults /\ proc \in {"secret", "username", "hash"}
       \/ proc = "hash" /\ conf.password \in LongPasswords
    /\ proc' = "down"
    /\ conf' = NotConfigured
    /\ memory' = NoMemory
    /\ UNCHANGED <<settings, now, jar, req, known, unread, loggedIn>>

\* The process is stopped or dies; answers it had not sent are lost.
Crash ==
    /\ proc # "down"
    /\ proc' = "down"
    /\ conf' = NotConfigured
    /\ memory' = NoMemory
    /\ req' = [c \in Clients |-> NoRequest]
    /\ unread' = (unread \/ (proc = "log" /\ memory.GeneratedPassword # None))
    /\ UNCHANGED <<settings, now, jar, known, loggedIn>>

---------------------------------------------------------------------------
(***************************************************************************)
(* Serving.                                                                *)
(***************************************************************************)
\* Whether Check may accept: the names are compared with the username as read,
\* the password with the stored hash.  A failed read of the hash refuses.
Check(names, password) ==
    /\ settings.hash # None /\ password = settings.hash
    /\ \E stored \in UsernameReads : stored \in names

\* Whether Check may refuse.
CheckRefuses(names, password) ==
    \/ StoreFaults
    \/ password # settings.hash
    \/ \E stored \in UsernameReads, name \in names : stored # name

\* Mutant: the expiry is not looked at.
verifyNoExpiry(cookie) ==
    /\ cookie # None
    /\ cookie.secret = memory.secret
    /\ cookie.user \notin BarUsers

verify(cookie) ==
    /\ cookie # None
    /\ cookie.secret = memory.secret
    /\ cookie.user \notin BarUsers
    /\ now <= cookie.exp

Idle(c) == proc = "up" /\ req[c].pc = "idle"

\* A refused login is answered 401 and changes nothing.
Login(c, user, password) ==
    /\ Idle(c)
    /\ Check({user}, password)
    /\ req' = [req EXCEPT ![c] = [NoRequest EXCEPT !.pc = "issue", !.user = user]]
    /\ UNCHANGED <<settings, proc, conf, memory, now, jar, known, unread, loggedIn>>

IssueCookie(c) ==
    /\ req[c].pc = "issue"
    /\ jar' = [jar EXCEPT ![c] = [user |-> req[c].user, exp |-> now + sessionDuration,
                                  secret |-> memory.secret]]
    /\ req' = [req EXCEPT ![c] = NoRequest]
    /\ loggedIn' = [loggedIn EXCEPT ![c] = now]
    /\ UNCHANGED <<settings, proc, conf, memory, now, known, unread>>

\* The route is public: the cookie is cleared whatever it is.
Logout(c) ==
    /\ Idle(c)
    /\ jar' = [jar EXCEPT ![c] = None]
    /\ loggedIn' = [loggedIn EXCEPT ![c] = None]
    /\ UNCHANGED <<settings, proc, conf, memory, now, req, known, unread>>

\* Middleware lets a request pass, or answers 401.
Middleware(c, request) ==
    /\ Idle(c)
    /\ verify(jar[c])
    /\ req' = [req EXCEPT ![c] = [request EXCEPT !.user = jar[c].user, !.at = now]]
    /\ UNCHANGED <<settings, proc, conf, memory, now, jar, known, unread, loggedIn>>

Me(c) == Middleware(c, [NoRequest EXCEPT !.pc = "me"])

ChangePassword(c, current, next) ==
    Middleware(c, [NoRequest EXCEPT !.pc = "check", !.current = current, !.next = next])

\* me has answered, with the name in the cookie, or with the empty name if the
\* cookie has expired since; or changePassword has answered 400.
Answer(c) ==
    /\ \/ req[c].pc = "me"
       \/ /\ req[c].pc = "check"
          /\ CheckRefuses(UsernameReads, req[c].current) \/ req[c].next \in ShortPasswords
       \/ req[c].pc = "store" /\ (StoreFaults \/ req[c].next \in LongPasswords)
    /\ req' = [req EXCEPT ![c] = NoRequest]
    /\ UNCHANGED <<settings, proc, conf, memory, now, jar, known, unread, loggedIn>>

\* The current password was right when it was read; the hash of the new one is
\* computed next, which takes long.
CheckCurrent(c) ==
    /\ req[c].pc = "check"
    /\ Check(UsernameReads, req[c].current)
    /\ req[c].next \notin ShortPasswords
    /\ req' = [req EXCEPT ![c].pc = "store"]
    /\ UNCHANGED <<settings, proc, conf, memory, now, jar, known, unread, loggedIn>>

setPassword(c) ==
    /\ req[c].pc = "store"
    /\ req[c].next \notin LongPasswords
    /\ settings' = [settings EXCEPT !.hash = req[c].next]
    /\ known' = known \cup {req[c].next}
    /\ req' = [req EXCEPT ![c] = NoRequest]
    /\ UNCHANGED <<proc, conf, memory, now, jar, unread, loggedIn>>

Tick ==
    /\ now < MaxTime
    /\ now' = now + 1
    /\ UNCHANGED <<settings, proc, conf, memory, jar, req, known, unread, loggedIn>>

Next ==
    \/ \E user \in Users \cup {""}, password \in Passwords \cup {""} : Start(user, password)
    \/ loadOrCreateSecret \/ StoreUsername \/ StorePassword \/ LogPassword
    \/ StartFails \/ Crash \/ Tick
    \/ \E c \in Clients :
          \/ \E user \in Names, password \in AllPasswords : Login(c, user, password)
          \/ IssueCookie(c) \/ Logout(c) \/ Me(c)
          \/ \E current \in AllPasswords, next \in Passwords : ChangePassword(c, current, next)
          \/ Answer(c) \/ CheckCurrent(c) \/ setPassword(c)

Spec == Init /\ [][Next]_vars

---------------------------------------------------------------------------
(***************************************************************************)
(* A session survives restarts: whatever crashes, failing statements and   *)
(* changes of configuration came since the login, the running process      *)
(* accepts the cookie until it expires (loadOrCreateSecret stores the      *)
(* secret before any cookie is signed with it, and never replaces it).     *)
(* Usernames with a "|" are excepted: verify cuts their cookies at the     *)
(* wrong place.                                                            *)
(***************************************************************************)
SessionsSurvive ==
    \A c \in Clients :
        /\ proc = "up" /\ jar[c] # None
        /\ jar[c].user \notin BarUsers /\ now <= jar[c].exp
        => verify(jar[c])

(***************************************************************************)
(* Nobody is locked out: while the portal is served, the stored password   *)
(* is one that somebody configured, typed or could read in the log, unless *)
(* the process once died between storing a generated password and logging  *)
(* it (New and main's use of GeneratedPassword).                           *)
(***************************************************************************)
PasswordKnown == proc = "up" => settings.hash \in known \/ unread

(***************************************************************************)
(* Only a request that Middleware lets pass, whose browser logged in and   *)
(* has not logged out, at most sessionDuration before, is being handled.   *)
(***************************************************************************)
AdmittedAfterLogin ==
    \A c \in Clients :
        req[c].pc \in {"me", "check", "store"} =>
            /\ loggedIn[c] # None
            /\ req[c].at <= loggedIn[c] + sessionDuration

(***************************************************************************)
(* A stored password is replaced only by one configured for this start or  *)
(* by the one a request to change it asked for: starting again without a   *)
(* configured password keeps it (the switch at the end of New).            *)
(***************************************************************************)
RestartKeepsPassword ==
    [][settings.hash # None /\ settings'.hash # settings.hash =>
          \/ settings'.hash = conf.password
          \/ \E c \in Clients : req[c].pc = "store" /\ settings'.hash = req[c].next]_vars
=============================================================================
