------------------------------- MODULE Sessions -------------------------------
(***************************************************************************)
(* Who gets in: the API's logins, tokens and sessions, and the commands of  *)
(* binctl-manage, each in a process or thread of its own on one database.   *)
(*                                                                         *)
(* A task goes from one statement to the next (at); everything another task  *)
(* does may happen in between.  Only a login keeps a transaction open over   *)
(* several statements: SQLite lets nobody else write meanwhile, PostgreSQL    *)
(* keeps its row of users locked.  last_login_at and last_used_at are left    *)
(* out, the locks that their UPDATEs need are not.                          *)
(***************************************************************************)
EXTENDS Naturals, FiniteSets

CONSTANTS
    Users,      \* usernames
    Passwords,  \* what may be typed as a password; "!" is one of them, and too short for set-password
    Tokens,     \* the tokens generate_token will ever draw (a bound)
    Actors,     \* request threads and manage processes
    Lifetime,   \* SESSION_LIFETIME_DAYS
    Never,      \* no expires_at
    Engines     \* the engines to look at

ASSUME SessionsAssumption ==
    /\ Lifetime \in Nat \ {0} /\ Never \notin Nat
    /\ Engines \subseteq {"sqlite", "postgres"}
    /\ "!" \in Passwords
    /\ "none" \notin Users

VARIABLES
    engine,     \* what the server runs on
    password,   \* the password_hash of a user, <<>> when there is no such user
    tokens,     \* what became of each token
    task,       \* what an actor does, or did last
    at,         \* its next statement, or how its last task ended: "ok" or "no"
    entitled,   \* (history) whether its credentials were right at some time since it began
    late,       \* (history) whether its user's tokens were revoked since it began
    swept       \* (history) users whose tokens were revoked since their last set-password

vars == <<engine, password, tokens, task, at, entitled, late, swept>>
-----------------------------------------------------------------------------
NoUser == <<>>
NoPassword == <<"!">>
Hash(p) == <<"scrypt", p>>

(* verify_password: a malformed hash raises, which is a refusal.                *)
ComparesText(p, stored) == stored \in {<<p>>, Hash(p)}
Verifies(p, stored) == stored = Hash(p)

Unused == [row |-> FALSE, user |-> "none", left |-> 0, proof |-> NoUser, late |-> FALSE]

(* A row that is deleted leaves nothing but a token nobody will draw again.      *)
Deleted(k) == [tokens[k] EXCEPT !.row = FALSE, !.left = 0, !.proof = NoUser, !.late = FALSE]

(* The WHERE of the lookup.  left is the time to expires_at, 0 when it is over. *)
Live(k) == tokens[k].row /\ tokens[k].left # 0

NewToken(u, left, proof, a) ==
    [row |-> TRUE, user |-> u, left |-> left, proof |-> proof, late |-> late[a]]

Tasks ==
    [op : {"call", "logout", "stream"}, token : Tokens]
        \cup [op : {"login", "command", "create-user"}, user : Users, word : Passwords]
        \cup [op : {"set-password"}, user : Users, word : Passwords \ {"!"}]
        \cup [op : {"create-user --token", "revoke-tokens"}, user : Users]

NoTask == [op |-> "none"]

FirstStatement(op) ==
    CASE op \in {"call", "logout", "stream"} -> "look up"
      [] op \in {"login", "command"} -> "verify"
      [] op \in {"create-user", "create-user --token"} -> "insert user"
      [] op = "set-password" -> "update password"
      [] op = "revoke-tokens" -> "find user"

Running(a) == at[a] \notin {"ok", "no"}
InTransaction(a) == at[a] = "insert session"

(* What a statement that writes waits for.                                      *)
Writing(a) ==
    at[a] \in {"touch", "delete token", "record login", "insert user", "issue token",
               "update password", "delete tokens"}
Blocked(a) ==
    /\ Writing(a)
    /\ \E b \in Actors \ {a} :
          /\ InTransaction(b)
          /\ \/ engine = "sqlite"
             \/ at[a] \in {"record login", "update password"} /\ task[a].user = task[b].user
-----------------------------------------------------------------------------
Goto(a, statement) ==
    /\ at' = [at EXCEPT ![a] = statement]
    /\ UNCHANGED <<engine, task>>

End(a, how) ==
    /\ at' = [at EXCEPT ![a] = how]
    /\ task' = [task EXCEPT ![a] = NoTask]
    /\ UNCHANGED engine

At(a, statement) == at[a] = statement /\ ~Blocked(a)
NothingStored == UNCHANGED <<password, tokens>>

Start(a) ==
    /\ ~Running(a)
    /\ \E t \in Tasks :
          /\ task' = [task EXCEPT ![a] = t]
          /\ at' = [at EXCEPT ![a] = FirstStatement(t.op)]
    /\ UNCHANGED <<engine, password, tokens>>

(* An authenticated request: fetch_token_and_touch, then the handler.            *)
LookUp(a) ==
    /\ At(a, "look up")
    /\ IF Live(task[a].token) THEN Goto(a, "touch") ELSE End(a, "no")
    /\ NothingStored

Renews(a) ==
    /\ At(a, "touch")
    /\ tokens' = [tokens EXCEPT ![task[a].token] = [@ EXCEPT !.left = Lifetime]]
    /\ Goto(a, IF task[a].op = "logout" THEN "delete token" ELSE "serve")
    /\ UNCHANGED password
Touch(a) ==
    /\ At(a, "touch")
    /\ Goto(a, IF task[a].op = "logout" THEN "delete token" ELSE "serve")
    /\ NothingStored

Serve(a) ==
    /\ At(a, "serve") /\ task[a].op # "stream"
    /\ End(a, "ok")
    /\ NothingStored

(* A stream is answered when it opens, and never looks at its token again.       *)
OpenStream(a) ==
    /\ At(a, "serve") /\ task[a].op = "stream"
    /\ at' = [at EXCEPT ![a] = "streaming"]
    /\ UNCHANGED <<engine, task>>
    /\ NothingStored

CloseStream(a) ==
    /\ At(a, "streaming")
    /\ End(a, "ok")
    /\ NothingStored

RevokeToken(a) ==
    /\ At(a, "delete token")
    /\ tokens' = [tokens EXCEPT ![task[a].token] = Deleted(task[a].token)]
    /\ End(a, "ok")
    /\ UNCHANGED password

(* A login, alone or as the first thing a client given a password does.          *)
VerifyPassword(a) ==
    /\ At(a, "verify")
    /\ IF Verifies(task[a].word, password[task[a].user])
       THEN Goto(a, "record login") ELSE End(a, "no")
    /\ NothingStored

UpdateLastLogin(a) ==
    /\ At(a, "record login")
    /\ Goto(a, "insert session")
    /\ NothingStored

(* The session is there when the transaction commits; a client goes on with it.  *)
InsertSession(a) == \E k \in Tokens :
    /\ At(a, "insert session")
    /\ tokens[k] = Unused
    /\ tokens' = [tokens EXCEPT ![k] = NewToken(task[a].user, Lifetime, Hash(task[a].word), a)]
    /\ IF task[a].op = "login" THEN End(a, "ok")
       ELSE /\ task' = [task EXCEPT ![a] = [op |-> "call", token |-> k]]
            /\ at' = [at EXCEPT ![a] = "look up"]
            /\ UNCHANGED engine
    /\ UNCHANGED password

(* binctl-manage.  create-user --token inserts user and token in a transaction    *)
(* each.                                                                          *)
Upsert(a) ==
    /\ At(a, "insert user")
    /\ password' = [password EXCEPT ![task[a].user] =
                       IF task[a].op = "create-user" THEN Hash(task[a].word) ELSE NoPassword]
    /\ IF task[a].op = "create-user" THEN End(a, "ok") ELSE Goto(a, "issue token")
    /\ UNCHANGED tokens
InsertUser(a) ==
    LET u == task[a].user
        withToken == task[a].op = "create-user --token"
    IN  /\ At(a, "insert user")
        /\ IF password[u] # NoUser THEN End(a, "no") /\ UNCHANGED password
           ELSE /\ password' = [password EXCEPT ![u] =
                                   IF withToken THEN NoPassword ELSE Hash(task[a].word)]
                /\ IF withToken THEN Goto(a, "issue token") ELSE End(a, "ok")
        /\ UNCHANGED tokens

IssueToken(a) == \E k \in Tokens :
    /\ At(a, "issue token")
    /\ tokens[k] = Unused
    /\ tokens' = [tokens EXCEPT ![k] = NewToken(task[a].user, Never, NoPassword, a)]
    /\ End(a, "ok")
    /\ UNCHANGED password

UpdatePassword(a) ==
    LET u == task[a].user
    IN  /\ At(a, "update password")
        /\ IF password[u] = NoUser
           THEN End(a, "no") /\ UNCHANGED password
           ELSE /\ password' = [password EXCEPT ![u] = Hash(task[a].word)]
                /\ End(a, "ok")
        /\ UNCHANGED tokens

FindUser(a) ==
    /\ At(a, "find user")
    /\ IF password[task[a].user] = NoUser THEN End(a, "no") ELSE Goto(a, "delete tokens")
    /\ NothingStored

OnlyLastingOnes(a) ==
    /\ At(a, "delete tokens")
    /\ tokens' = [k \in Tokens |-> IF tokens[k].user = task[a].user /\ tokens[k].left = Never
                                   THEN Deleted(k) ELSE tokens[k]]
    /\ End(a, "ok")
    /\ UNCHANGED password
DeleteTokens(a) ==
    LET u == task[a].user
    IN  /\ At(a, "delete tokens")
        /\ tokens' = [k \in Tokens |-> IF tokens[k].user = u THEN Deleted(k) ELSE tokens[k]]
        /\ End(a, "ok")
        /\ UNCHANGED password

(* A process is killed, a connection is lost, or a wait on SQLite times out: an   *)
(* open transaction is rolled back.                                               *)
Fail(a) ==
    /\ Running(a)
    /\ End(a, IF at[a] = "streaming" THEN "ok" ELSE "no")
    /\ NothingStored

Step(a) ==
    \/ Start(a) \/ LookUp(a) \/ Touch(a) \/ Serve(a) \/ OpenStream(a) \/ CloseStream(a)
    \/ RevokeToken(a) \/ VerifyPassword(a) \/ UpdateLastLogin(a) \/ InsertSession(a)
    \/ InsertUser(a) \/ IssueToken(a) \/ UpdatePassword(a) \/ FindUser(a) \/ DeleteTokens(a)
    \/ Fail(a)

Tick ==
    /\ \E k \in Tokens : tokens[k].left \notin {0, Never}
    /\ tokens' = [k \in Tokens |->
                     [tokens[k] EXCEPT !.left = IF @ \in {0, Never} THEN @ ELSE @ - 1]]
    /\ UNCHANGED <<engine, password, task, at>>

(* What the caller would have to show for itself.  The handlers do not read this. *)
Right(a) ==
    CASE task[a].op \in {"call", "logout", "stream"} ->
            tokens[task[a].token].row /\ tokens[task[a].token].left # 0
      [] task[a].op \in {"login", "command"} -> password[task[a].user] = Hash(task[a].word)
      [] OTHER -> TRUE

Init ==
    /\ engine \in Engines
    /\ password = [u \in Users |-> NoUser]
    /\ tokens = [k \in Tokens |-> Unused]
    /\ task = [a \in Actors |-> NoTask]
    /\ at = [a \in Actors |-> "no"]
    /\ entitled = [a \in Actors |-> FALSE]
    /\ late = [a \in Actors |-> FALSE]
    /\ swept = {}

(* The history variables.                                                       *)
Observe ==
    LET revoking(u) == \E b \in Actors :
            at[b] = "delete tokens" /\ at'[b] = "ok" /\ task[b].user = u
        stillRunning(a) == Running(a) /\ Running(a)'
    IN  /\ entitled' = [a \in Actors |->
                           CASE at'[a] = "no" -> FALSE
                             [] at'[a] = "ok" -> entitled[a]
                             [] stillRunning(a) -> entitled[a] \/ Right(a)'
                             [] OTHER -> Right(a)']
        /\ late' = [a \in Actors |->
                       /\ stillRunning(a)
                       /\ late[a] \/ ("user" \in DOMAIN task[a] /\ revoking(task[a].user))]
        /\ swept' = {u \in Users : (u \in swept \/ revoking(u)) /\ password'[u] = password[u]}

Next == (Tick \/ \E a \in Actors : Step(a)) /\ Observe

Spec == Init /\ [][Next]_vars /\ WF_vars(Tick /\ Observe)
-----------------------------------------------------------------------------
(* Properties.                                                                 *)

(* Whatever overlaps - a lookup and a logout, a login and a new password, the SELECT *)
(* and the UPDATE of fetch_token_and_touch - a request is served, a stream opened or  *)
(* a session given only for a token that was valid, or a password that was the        *)
(* user's, at some time since the request arrived; and "!" is no password.            *)
OnlyTheEntitledGetIn == \A a \in Actors : at[a] \in {"ok", "streaming"} => entitled[a]

(* set-password revokes nothing, and revoke-tokens sees only what has been committed;  *)
(* but set-password and then revoke-tokens shuts out everyone who knows only an older   *)
(* password, except a login, client or create-user that was under way meanwhile.        *)
OldPasswordsAreSwept ==
    \A k \in Tokens : /\ tokens[k].row /\ tokens[k].user \in swept
                      /\ tokens[k].proof # password[tokens[k].user]
                      => tokens[k].late

(* create-user --token is killed between its two transactions: the user is there, with  *)
(* neither password nor token, and creating it again is refused.  Only set-password       *)
(* helps: no other command, in whatever order, gives such a user a token.                *)
HalfMade(u) ==
    /\ password[u] = NoPassword
    /\ ~ \E k \in Tokens : tokens[k].user = u
    /\ ~ \E a \in Actors : at[a] = "issue token" /\ task[a].user = u
HalfMadeUsersNeedAPassword ==
    [][\A u \in Users : HalfMade(u) => HalfMade(u)' \/ password'[u] # NoPassword]_vars

(* A token ends by its time, a logout or a revocation, and then for good: nothing that   *)
(* overlaps with its end, the UPDATE after a lookup included, brings it back or gives it   *)
(* more time.                                                                            *)
Drawn(k) == tokens[k].user # "none"
TokensEndForGood ==
    [][\A k \in Tokens : Drawn(k) =>
        /\ ~Live(k) => ~Live(k)'
        /\ tokens[k].left # Never => tokens'[k].left \in 0..tokens[k].left]_vars
=============================================================================
