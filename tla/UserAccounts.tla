----------------------------- MODULE UserAccounts -----------------------------
(***************************************************************************)
(* zusers: the handlers of UsersCalls over the tables zusers and           *)
(* zuser_sessions.  One Exec or QueryRow is one step, and may fail; two    *)
(* handlers may be at work at the same time.  A password hash is the       *)
(* password it was made from.                                              *)
(***************************************************************************)
EXTENDS Naturals, FiniteSets

CONSTANTS
    AccountCallers, \* handlers that are at work at the same time
    UserNames, Passwords,
    MaxUserID,      \* users that are added (a bound)
    MaxToken        \* sessions that are added (a bound)

ASSUME AccountAssumption == MaxUserID \in Nat \ {0} /\ MaxToken \in Nat \ {0} /\ Passwords # {}

NoID == 0

VARIABLES
    users,      \* rows of zusers, by id
    added,      \* ids that were given
    sessions,   \* rows of zuser_sessions
    handlers,   \* what each handler is doing
    tokens,     \* tokens that have been made
    reset,      \* the name in resetCache and how often its token was used, or NoReset
    temporary,  \* the id in temporaryTokens, and how often it was popped
    crossed,    \* two handlers were at work at the same time
    sqlFailed   \* a statement has failed

accountVars == <<users, added, sessions, handlers, tokens, reset, temporary, crossed, sqlFailed>>

NoReset == [name |-> "none", used |-> 0]
NoTemporary == [id |-> NoID, popped |-> 0]
Free == [does |-> "nothing"]

AccountsInit ==
    /\ users = [id \in {} |-> NoID] /\ added = 0
    /\ sessions = {} /\ tokens = 0
    /\ handlers = [h \in AccountCallers |-> Free]
    /\ reset = NoReset /\ temporary = NoTemporary
    /\ crossed = FALSE /\ sqlFailed = FALSE

\* Which password a user begins with, or changes to, makes no difference; only changes do.
FirstPassword == CHOOSE p \in Passwords : TRUE
OtherPasswords(id) == Passwords \ {users[id].password}

Named(name) == { id \in DOMAIN users : users[id].name = name }
SessionsOf(id) == { s \in sessions : s.id = id }
PasswordOf(id) == IF id \in DOMAIN users THEN users[id].password ELSE NoID
PermissionsOf(id) == IF id \in DOMAIN users THEN users[id].admin ELSE FALSE

Does(h, what) == handlers[h].does = what
Turns(h, what) == handlers' = [handlers EXCEPT ![h].does = what]
Ends(h) == handlers' = [handlers EXCEPT ![h] = Free]
Starting(h, work) ==
    /\ handlers[h] = Free
    /\ handlers' = [handlers EXCEPT ![h] = work]
    /\ crossed' = (crossed \/ \E o \in AccountCallers \ {h} : handlers[o] # Free)

\* The password and permissions that a new session goes by are what the handler has read.
Task(does, id, name, password, admin) ==
    [does |-> does, id |-> id, name |-> name, password |-> password, admin |-> admin]

\* Login: GetUserForUserName, and the hashes are the same.
baseLogin(h) ==
    /\ \E name \in UserNames : \E id \in Named(name) :
        Starting(h, Task("adds session", id, name, users[id].password, users[id].admin))
    /\ UNCHANGED <<users, added, sessions, tokens, reset, temporary, sqlFailed>>

\* AddNewSession; an update of `login` follows, which no query looks at.
AddNewSession(h) ==
    /\ Does(h, "adds session") /\ tokens < MaxToken
    /\ tokens' = tokens + 1
    /\ sessions' = sessions \cup
            {[token |-> tokens', id |-> handlers[h].id, password |-> handlers[h].password,
              admin |-> handlers[h].admin]}
    /\ Ends(h)
    /\ UNCHANGED <<users, added, reset, temporary, crossed, sqlFailed>>

\* RegisterUser, with AllowRegistration or by an admin: only then is there no session.
RegisterUser(h, makeToken) ==
    /\ makeToken \/ \E s \in sessions : s.id \in DOMAIN users /\ users[s.id].admin
    /\ \E name \in UserNames :
        /\ Named(name) = {}
        /\ Starting(h, Task(IF makeToken THEN "registers" ELSE "adds user", NoID, name,
                            FirstPassword, FALSE))
    /\ UNCHANGED <<users, added, sessions, tokens, reset, temporary, sqlFailed>>

\* The INSERT fails if there is such a name by now; the error is then overwritten by that of
\* AddNewSession, whose session is of no user.
AddNewUser(h, fails) ==
    /\ Does(h, "registers") \/ Does(h, "adds user")
    /\ added < MaxUserID
    /\ LET refused == fails \/ Named(handlers[h].name) # {}
           new == added + 1
       IN /\ added' = IF refused THEN added ELSE new
          /\ users' = IF refused THEN users
                      ELSE [id \in DOMAIN users \cup {new} |->
                              IF id \in DOMAIN users THEN users[id]
                              ELSE [name |-> handlers[h].name, password |-> handlers[h].password,
                                    admin |-> FALSE]]
          /\ IF Does(h, "registers")
             THEN handlers' = [handlers EXCEPT ![h].does = "adds session",
                                               ![h].id = IF refused THEN NoID ELSE new]
             ELSE Ends(h)
    /\ sqlFailed' = (sqlFailed \/ fails)
    /\ UNCHANGED <<sessions, tokens, reset, temporary, crossed>>

\* SetAdminForUser, of RegisterDefaultAdminUserIfNone: a transaction of a SELECT and an UPDATE,
\* when there is no admin
SetAdminForUser(h) ==
    /\ ~\E id \in DOMAIN users : users[id].admin
    /\ \A o \in AccountCallers : handlers[o] = Free
    /\ \E id \in DOMAIN users :
        /\ SessionsOf(id) = {}
        /\ users' = [users EXCEPT ![id].admin = TRUE]
    /\ UNCHANGED <<added, sessions, handlers, tokens, reset, temporary, crossed, sqlFailed>>

\* ChangePasswordForSelf: for a user that has a session
ChangePasswordForSelf(h) ==
    /\ \E s \in sessions :
        /\ s.id \in DOMAIN users
        /\ \E p \in OtherPasswords(s.id) : Starting(h, Task("changes password", s.id, users[s.id].name, p, users[s.id].admin))
    /\ UNCHANGED <<users, added, sessions, tokens, reset, temporary, sqlFailed>>

\* An UPDATE of no row is no error.
ChangePasswordForUser(h, fails) ==
    /\ Does(h, "changes password")
    /\ LET t == handlers[h] IN
       IF fails THEN Ends(h) /\ UNCHANGED users
       ELSE /\ users' = IF t.id \in DOMAIN users THEN [users EXCEPT ![t.id].password = t.password]
                        ELSE users
            /\ Turns(h, "ends sessions, adds session")
    /\ sqlFailed' = (sqlFailed \/ fails)
    /\ UNCHANGED <<added, sessions, tokens, reset, temporary, crossed>>

\* Mutant: the new password's own session is all that is thought of.
EndedSessionsNone(id) == {}

EndedSessions(id) == SessionsOf(id)

\* UnauthenticateUser, on its own by an admin, or last but one in a change of the password, whose
\* error is only logged, or last in a change of permissions or a delete
UnauthenticateUser(h, fails) ==
    /\ handlers[h].does \in {"ends sessions", "ends sessions, adds session"}
    /\ sessions' = IF fails THEN sessions ELSE sessions \ EndedSessions(handlers[h].id)
    /\ IF Does(h, "ends sessions") THEN Ends(h) ELSE Turns(h, "adds session")
    /\ sqlFailed' = (sqlFailed \/ fails)
    /\ UNCHANGED <<users, added, tokens, reset, temporary, crossed>>

\* DeleteUserForID
BeginDelete(h) ==
    /\ \E id \in DOMAIN users : Starting(h, Task("deletes", id, users[id].name, NoID, FALSE))
    /\ UNCHANGED <<users, added, sessions, tokens, reset, temporary, sqlFailed>>

DeleteUserForID(h, fails) ==
    /\ Does(h, "deletes")
    /\ IF fails THEN Ends(h) /\ UNCHANGED users
       ELSE /\ users' = [id \in DOMAIN users \ {handlers[h].id} |-> users[id]]
            /\ Turns(h, "ends sessions")
    /\ sqlFailed' = (sqlFailed \/ fails)
    /\ UNCHANGED <<added, sessions, tokens, reset, temporary, crossed>>

\* ChangeUsersUserNameAndPermissions: the admin's session and the user that is to change are read,
BeginChange(h) ==
    /\ \E s \in sessions : s.id \in DOMAIN users /\ users[s.id].admin
    /\ \E id \in DOMAIN users, admin \in BOOLEAN :
        Starting(h, Task(IF admin = users[id].admin THEN "renames" ELSE "permits", id,
                         users[id].name, NoID, admin))
    /\ UNCHANGED <<users, added, sessions, tokens, reset, temporary, sqlFailed>>

\* then the row is written, and the user's sessions end if permissions differ from those read.
ChangeUsersUserNameAndPermissions(h, fails) ==
    /\ Does(h, "renames") \/ Does(h, "permits")
    /\ LET t == handlers[h] IN
       IF fails THEN Ends(h) /\ UNCHANGED users
       ELSE /\ users' = IF t.id \in DOMAIN users THEN [users EXCEPT ![t.id].admin = t.admin]
                        ELSE users
            /\ IF Does(h, "permits") THEN Turns(h, "ends sessions") ELSE Ends(h)
    /\ sqlFailed' = (sqlFailed \/ fails)
    /\ UNCHANGED <<added, sessions, tokens, reset, temporary, crossed>>

\* Logout
UnauthenticateToken ==
    /\ \E s \in sessions : sessions' = sessions \ {s}
    /\ UNCHANGED <<users, added, handlers, tokens, reset, temporary, crossed, sqlFailed>>

\* GetOrCreateSessionForUserIDAndClientID: looks for one, and adds one if there was none; the
\* user is not looked at.
GetOrCreateSession(h) ==
    /\ \E id \in DOMAIN users :
        /\ SessionsOf(id) = {}
        /\ Starting(h, Task("adds session", id, users[id].name, users[id].password, users[id].admin))
    /\ UNCHANGED <<users, added, sessions, tokens, reset, temporary, sqlFailed>>

\* SendForgotPasswordPasswordMail: the token's mail has been sent.
PutReset ==
    /\ reset = NoReset
    /\ \E name \in UserNames : reset' = [name |-> name, used |-> 0]
    /\ UNCHANGED <<users, added, sessions, handlers, tokens, temporary, crossed, sqlFailed>>

\* SetNewPasswordFromForgotPassword: Get and the SELECT, then Remove.
FindReset(h) ==
    /\ reset # NoReset /\ reset.used = 0
    /\ \E id \in Named(reset.name) : \E p \in OtherPasswords(id) :
        Starting(h, Task("removes reset", id, reset.name, p, users[id].admin))
    /\ UNCHANGED <<users, added, sessions, tokens, reset, temporary, sqlFailed>>

RemoveReset(h) ==
    /\ Does(h, "removes reset")
    /\ reset' = [reset EXCEPT !.used = @ + 1]
    /\ Turns(h, "changes password")
    /\ UNCHANGED <<users, added, sessions, tokens, temporary, crossed, sqlFailed>>

\* AddTemporatyToken
AddTemporaryToken ==
    /\ temporary = NoTemporary
    /\ \E id \in 1..MaxUserID : temporary' = [id |-> id, popped |-> 0]
    /\ UNCHANGED <<users, added, sessions, handlers, tokens, reset, crossed, sqlFailed>>

\* PopTemporaryToken: Get, then Remove
BeginPop(h) ==
    /\ temporary # NoTemporary /\ temporary.popped = 0
    /\ Starting(h, Task("pops", temporary.id, "", NoID, FALSE))
    /\ UNCHANGED <<users, added, sessions, tokens, reset, temporary, sqlFailed>>

EndPop(h) ==
    /\ Does(h, "pops")
    /\ temporary' = [temporary EXCEPT !.popped = @ + 1]
    /\ Ends(h)
    /\ UNCHANGED <<users, added, sessions, tokens, reset, crossed, sqlFailed>>

AccountsNext ==
    \/ \E h \in AccountCallers :
        \/ baseLogin(h) \/ AddNewSession(h) \/ SetAdminForUser(h) \/ ChangePasswordForSelf(h)
        \/ BeginDelete(h) \/ BeginChange(h) \/ GetOrCreateSession(h)
        \/ FindReset(h) \/ RemoveReset(h)
        \/ \E makeToken \in BOOLEAN : RegisterUser(h, makeToken)
        \/ \E fails \in BOOLEAN :
            \/ AddNewUser(h, fails) \/ ChangePasswordForUser(h, fails)
            \/ UnauthenticateUser(h, fails) \/ DeleteUserForID(h, fails)
            \/ ChangeUsersUserNameAndPermissions(h, fails)
    \/ UnauthenticateToken \/ PutReset

\* The map of temporary tokens has nothing to do with the tables.
TemporaryNext == AddTemporaryToken \/ \E h \in AccountCallers : BeginPop(h) \/ EndPop(h)

------------------------------------------------------------------------------
(* Properties *)

AllFree == \A h \in AccountCallers : handlers[h] = Free
InTurn == AllFree /\ ~crossed /\ ~sqlFailed

\* Handlers that come one at a time, and whose statements succeed, leave no session behind that
\* is of no user, of a password that was changed, or of permissions that were changed.
SessionsAreOfUsers ==
    InTurn => \A s \in sessions :
        /\ s.id \in DOMAIN users
        /\ s.password = PasswordOf(s.id) /\ s.admin = PermissionsOf(s.id)

\* Whatever runs at the same time, two users never have one name.
NamesAreUnique == \A name \in UserNames : Cardinality(Named(name)) <= 1

\* zusers_server.go:38, "granting that token access as that user for 60 seconds": a reset token and a temporary one are
\* used once, by handlers that come one at a time.
TokensAreUsedOnce == ~crossed => reset.used <= 1 /\ temporary.popped <= 1

AccountsAreKept == SessionsAreOfUsers /\ NamesAreUnique /\ TokensAreUsedOnce
==============================================================================
