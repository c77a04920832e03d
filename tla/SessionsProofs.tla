---------------------------- MODULE SessionsProofs ----------------------------
(***************************************************************************)
(* What holds of Sessions for any number of users, passwords, tokens and    *)
(* tasks at a time, any session lifetime and either engine.                 *)
(***************************************************************************)
EXTENDS Sessions, TLAPS

Stored == {NoUser, NoPassword} \cup {Hash(p) : p \in Passwords}
Rows == [row : BOOLEAN, user : Users \cup {"none"}, left : Nat \cup {Never},
         proof : Stored, late : BOOLEAN]

TokenTasks == [op : {"call", "logout", "stream"}, token : Tokens]
LoginTasks == [op : {"login", "command"}, user : Users, word : Passwords]
UserTasks == [op : {"create-user"}, user : Users, word : Passwords]
                \cup [op : {"create-user --token"}, user : Users]

Statements ==
    {"look up", "touch", "serve", "streaming", "delete token", "verify", "record login",
     "insert session", "insert user", "issue token", "update password", "find user",
     "delete tokens", "ok", "no"}

(* What may be at a statement.                                                  *)
Fits(s, t) ==
    \/ s \in {"ok", "no"} /\ t = NoTask
    \/ s \in {"look up", "touch", "serve", "delete token", "streaming"} /\ t \in TokenTasks
    \/ s \in {"verify", "record login", "insert session"} /\ t \in LoginTasks
    \/ s = "insert user" /\ t \in UserTasks
    \/ s = "issue token" /\ t \in [op : {"create-user --token"}, user : Users]
    \/ s = "update password" /\ t \in [op : {"set-password"}, user : Users, word : Passwords \ {"!"}]
    \/ s \in {"find user", "delete tokens"} /\ t \in [op : {"revoke-tokens"}, user : Users]

TypeOK ==
    /\ password \in [Users -> Stored]
    /\ tokens \in [Tokens -> Rows]
    /\ task \in [Actors -> Tasks \cup {NoTask}] /\ at \in [Actors -> Statements]
    /\ \A a \in Actors : Fits(at[a], task[a])
    /\ entitled \in [Actors -> BOOLEAN] /\ late \in [Actors -> BOOLEAN]
    /\ engine \in Engines /\ swept \subseteq Users

(* Past the statement that checks its credentials, a task is entitled; and the   *)
(* password that a login was checked against is the user's, if it has been swept  *)
(* since, or the login was under way then.                                       *)
LoggingIn == {"record login", "insert session"}
ActorIsInStep(a) ==
    /\ at[a] \notin {"look up", "verify", "no"} => entitled[a]
    /\ at[a] \in LoggingIn =>
          /\ password[task[a].user] \notin {NoUser, NoPassword}
          /\ task[a].user \in swept => password[task[a].user] = Hash(task[a].word) \/ late[a]
    /\ at[a] = "issue token" /\ task[a].user \in swept =>
          password[task[a].user] = NoPassword \/ late[a]

TokenIsInStep(k) ==
    /\ tokens[k].row => tokens[k].user \in Users
    /\ /\ tokens[k].row /\ tokens[k].user \in swept
       /\ tokens[k].proof # password[tokens[k].user]
       => tokens[k].late

IInv ==
    /\ TypeOK
    /\ \A a \in Actors : ActorIsInStep(a)
    /\ \A k \in Tokens : TokenIsInStep(k)
-----------------------------------------------------------------------------
LEMMA HashesAreNotMarks ==
    ASSUME NEW p
    PROVE  Hash(p) \notin {NoUser, NoPassword} /\ NoUser # NoPassword
BY DEF Hash, NoUser, NoPassword

LEMMA FirstStatementsFit ==
    ASSUME NEW t \in Tasks
    PROVE  /\ Fits(FirstStatement(t.op), t)
           /\ FirstStatement(t.op) \notin LoggingIn \cup {"ok", "no", "issue token"}
           /\ FirstStatement(t.op) \notin {"look up", "verify"} =>
                 t.op \notin {"call", "logout", "stream", "login", "command"}
BY DEF Tasks, Fits, FirstStatement, TokenTasks, LoginTasks, UserTasks, LoggingIn

LEMMA FittingTasks ==
    ASSUME NEW s, NEW t, Fits(s, t)
    PROVE  /\ t \in Tasks \cup {NoTask}
           /\ s \in Statements
           /\ s \notin {"ok", "no"} => t \in Tasks
           /\ s \in LoggingIn \cup {"verify"} => t \in LoginTasks
           /\ s \in {"look up", "touch", "serve", "delete token", "streaming"} => t \in TokenTasks
<1>1. /\ TokenTasks \subseteq Tasks /\ LoginTasks \subseteq Tasks /\ UserTasks \subseteq Tasks
      /\ [op : {"create-user --token"}, user : Users] \subseteq Tasks
      /\ [op : {"set-password"}, user : Users, word : Passwords \ {"!"}] \subseteq Tasks
      /\ [op : {"revoke-tokens"}, user : Users] \subseteq Tasks
  BY DEF TokenTasks, LoginTasks, UserTasks, Tasks
<1>2. t \in Tasks \cup {NoTask} /\ (s \notin {"ok", "no"} => t \in Tasks)
  BY <1>1 DEF Fits
<1>3. s \in Statements
  BY DEF Fits, Statements
<1> QED BY <1>2, <1>3 DEF Fits, LoggingIn

(* The history variables, for one actor.                                        *)
Revokes(b) == at[b] = "delete tokens" /\ at'[b] = "ok"

LEMMA Observed ==
    ASSUME TypeOK, Observe
    PROVE  /\ entitled' \in [Actors -> BOOLEAN] /\ late' \in [Actors -> BOOLEAN]
           /\ \A a \in Actors :
                 /\ at'[a] = "ok" => entitled'[a] = entitled[a]
                 /\ at'[a] \notin {"ok", "no"} /\ Right(a)' => entitled'[a]
                 /\ at'[a] \notin {"ok", "no"} /\ Running(a) /\ entitled[a] => entitled'[a]
                 /\ Running(a) /\ at'[a] \notin {"ok", "no"} /\ late[a] => late'[a]
                 /\ Running(a) /\ at'[a] \notin {"ok", "no"} /\ "user" \in DOMAIN task[a] =>
                       \A b \in Actors : Revokes(b) /\ task[b].user = task[a].user => late'[a]
           /\ swept' \subseteq Users
           /\ \A u \in swept' :
                 /\ password'[u] = password[u]
                 /\ u \in swept \/ \E b \in Actors : Revokes(b) /\ task[b].user = u
<1>1. entitled' \in [Actors -> BOOLEAN]
  <2>1. ASSUME NEW a \in Actors PROVE Right(a)' \in BOOLEAN
    BY DEF Right
  <2> QED BY <2>1 DEF Observe, TypeOK, Running
<1>2. late' \in [Actors -> BOOLEAN]
  BY DEF Observe, TypeOK
<1>3. ASSUME NEW a \in Actors
      PROVE  /\ at'[a] = "ok" => entitled'[a] = entitled[a]
             /\ at'[a] \notin {"ok", "no"} /\ Right(a)' => entitled'[a]
             /\ at'[a] \notin {"ok", "no"} /\ Running(a) /\ entitled[a] => entitled'[a]
  BY DEF Observe, Running
<1>4. ASSUME NEW a \in Actors, Running(a), at'[a] \notin {"ok", "no"}
      PROVE  /\ late[a] => late'[a]
             /\ "user" \in DOMAIN task[a] =>
                   \A b \in Actors : Revokes(b) /\ task[b].user = task[a].user => late'[a]
  BY <1>4 DEF Observe, Running, Revokes
<1>5. /\ swept' \subseteq Users
      /\ \A u \in swept' :
            /\ password'[u] = password[u]
            /\ u \in swept \/ \E b \in Actors : Revokes(b) /\ task[b].user = u
  BY DEF Observe, Revokes
<1> QED BY <1>1, <1>2, <1>3, <1>4, <1>5
-----------------------------------------------------------------------------
(* A step of one actor: it goes to a statement with a task, and the tokens that  *)
(* are there afterwards were there before, with the same user and proof, or are  *)
(* the one it draws.                                                            *)
Moves(a, s, t) ==
    /\ at' = [at EXCEPT ![a] = s] /\ task' = [task EXCEPT ![a] = t]
    /\ Fits(s, t)
    /\ engine' = engine

Kept(k) ==
    tokens[k].row /\ \E left \in Nat \cup {Never} : tokens'[k] = [tokens[k] EXCEPT !.left = left]

Draws(a, k) ==
    \E left \in Nat \cup {Never} :
        \/ at[a] = "issue token" /\ tokens'[k] = NewToken(task[a].user, left, NoPassword, a)
        \/ /\ at[a] = "insert session"
           /\ tokens'[k] = NewToken(task[a].user, left, Hash(task[a].word), a)

Gone(k) == tokens'[k] \in Rows /\ ~tokens'[k].row

LEMMA NewTokenFields ==
    ASSUME NEW u, NEW left, NEW proof, NEW a
    PROVE  LET new == NewToken(u, left, proof, a)
           IN  /\ new.row /\ new.user = u /\ new.left = left
               /\ new.proof = proof /\ new.late = late[a]
BY DEF NewToken

LEMMA StepKeepsIInv ==
    ASSUME IInv, Observe, NEW a \in Actors, NEW s, NEW t, Moves(a, s, t),
           password' \in [Users -> Stored],
           \A u \in Users : password'[u] = password[u] \/ password[u] = NoUser
                               \/ password'[u] \notin {NoUser, NoPassword},
           tokens' \in [Tokens -> Rows],
           \A k \in Tokens : Kept(k) \/ Gone(k) \/ Draws(a, k),
           s \notin {"look up", "verify", "no"} =>
              (Running(a) /\ entitled[a]) \/ (s # "ok" /\ Right(a)'),
           s \in LoggingIn => \/ at[a] \in LoggingIn /\ t = task[a]
                              \/ password'[t.user] = Hash(t.word),
           s = "issue token" => password'[t.user] # password[t.user],
           Revokes(a) => \A k \in Tokens : tokens'[k].row => tokens'[k].user # task[a].user
    PROVE  IInv'
<1>1. /\ at'[a] = s /\ task'[a] = t
      /\ \A b \in Actors \ {a} : at'[b] = at[b] /\ task'[b] = task[b]
      /\ \A b \in Actors : Revokes(b) => b = a
  BY DEF IInv, TypeOK, Moves, Revokes
<1>2. TypeOK'
  <2>1. \A b \in Actors : Fits(at[b], task[b])'
    <3>1. \A b \in Actors : Fits(at'[b], task'[b])
      BY <1>1 DEF IInv, TypeOK, Moves
    <3> QED BY <3>1 DEF Fits
  <2>2. task' \in [Actors -> Tasks \cup {NoTask}] /\ at' \in [Actors -> Statements]
    BY FittingTasks DEF IInv, TypeOK, Moves
  <2> QED BY <2>1, <2>2, Observed DEF IInv, TypeOK, Moves
<1>3. ASSUME NEW b \in Actors PROVE ActorIsInStep(b)'
  <2>1. at'[b] \notin {"look up", "verify", "no"} => entitled'[b]
    <3>1. CASE b = a
      BY <1>1, <3>1, Observed DEF IInv
    <3>2. CASE b # a
      BY <1>1, <3>2, Observed DEF IInv, ActorIsInStep, Running
    <3> QED BY <3>1, <3>2
  <2>2. CASE at'[b] \in LoggingIn
    <3>1. task'[b] \in LoginTasks
      BY <1>2, <2>2, FittingTasks DEF TypeOK
    <3> DEFINE u == task'[b].user
               word == task'[b].word
    <3>2. u \in Users /\ word \in Passwords /\ "user" \in DOMAIN task'[b]
      BY <3>1 DEF LoginTasks
    <3>3. CASE at[b] \in LoggingIn /\ task'[b] = task[b]
      <4>1. /\ password[u] \notin {NoUser, NoPassword} /\ Running(b) /\ at'[b] \notin {"ok", "no"}
            /\ u \in swept => password[u] = Hash(word) \/ late[b]
        BY <2>2, <3>3 DEF IInv, ActorIsInStep, LoggingIn, Running
      <4>2. password'[u] \notin {NoUser, NoPassword}
        BY <4>1, <3>2
      <4>3. u \in swept' => password'[u] = Hash(word) \/ late'[b]
        BY <4>1, <3>2, <3>3, Observed DEF IInv
      <4> QED BY <2>1, <2>2, <4>2, <4>3 DEF ActorIsInStep, LoggingIn
    <3>4. CASE password'[u] = Hash(word)
      BY <2>1, <2>2, <3>4, HashesAreNotMarks DEF ActorIsInStep, LoggingIn
    <3> QED BY <1>1, <2>2, <3>3, <3>4
  <2>3. CASE at'[b] = "issue token"
    <3>1. task'[b] \in [op : {"create-user --token"}, user : Users]
      BY <1>2, <2>3 DEF TypeOK, Fits
    <3> DEFINE u == task'[b].user
    <3>2. u \in Users /\ "user" \in DOMAIN task'[b]
      BY <3>1
    <3>3. CASE b = a
      <4>1. u \notin swept'
        BY <1>1, <2>3, <3>2, <3>3, Observed DEF IInv
      <4> QED BY <2>1, <2>3, <4>1 DEF ActorIsInStep, LoggingIn
    <3>4. CASE b # a
      <4>1. at[b] = "issue token" /\ task'[b] = task[b] /\ Running(b)
        BY <1>1, <2>3, <3>4 DEF Running
      <4>2. u \in swept => password[u] = NoPassword \/ late[b]
        BY <4>1 DEF IInv, ActorIsInStep
      <4>3. at'[b] \notin {"ok", "no"}
        BY <2>3
      <4>4. u \in swept' => \/ u \in swept /\ password'[u] = password[u] /\ (late[b] => late'[b])
                            \/ late'[b]
        BY <3>2, <4>1, <4>3, Observed DEF IInv
      <4> QED BY <2>1, <2>3, <4>2, <4>4 DEF ActorIsInStep, LoggingIn
    <3> QED BY <3>3, <3>4
  <2> QED BY <2>1, <2>2, <2>3 DEF ActorIsInStep
<1>4. ASSUME NEW k \in Tokens PROVE TokenIsInStep(k)'
  <2>1. CASE Gone(k)
    BY <2>1 DEF Gone, TokenIsInStep
  <2>2. CASE Kept(k) /\ tokens'[k].row
    <3> DEFINE u == tokens[k].user
    <3>1. /\ tokens'[k].user = u /\ tokens'[k].proof = tokens[k].proof
          /\ tokens'[k].late = tokens[k].late /\ tokens[k].row /\ u \in Users
      <4>1. PICK left : tokens'[k] = [tokens[k] EXCEPT !.left = left]
        BY <2>2 DEF Kept
      <4>2. tokens[k] \in Rows /\ tokens[k].row
        BY <2>2 DEF Kept, IInv, TypeOK
      <4>3. u \in Users
        BY <4>2 DEF IInv, TokenIsInStep
      <4> QED BY <4>1, <4>2, <4>3 DEF Rows
    <3>2. u \in swept' => u \in swept /\ password'[u] = password[u]
      <4>1. \A b \in Actors : Revokes(b) => task[b].user # u
        BY <1>1, <2>2, <3>1
      <4>2. TypeOK
        BY DEF IInv
      <4> HIDE DEF u
      <4> QED BY <4>1, <4>2, Observed
    <3> QED BY <3>1, <3>2 DEF IInv, TokenIsInStep
  <2>3. CASE Draws(a, k)
    <3> DEFINE u == task[a].user
    <3>1. u \in Users
      BY <2>3 DEF Draws, IInv, TypeOK, Fits, LoginTasks
    <3>2. PICK left, proof : /\ tokens'[k] = NewToken(u, left, proof, a)
                             /\ u \in swept => password[u] = proof \/ late[a]
      BY <2>3 DEF Draws, IInv, ActorIsInStep, LoggingIn
    <3>3. tokens'[k].user = u /\ tokens'[k].late = late[a] /\ tokens'[k].proof = proof
      BY ONLY <3>2, NewTokenFields
    <3>4. ~Revokes(a)
      BY <2>3 DEF Draws, Revokes
    <3>5. u \in swept' => u \in swept /\ password'[u] = password[u]
      BY <1>1, <3>4, Observed DEF IInv
    <3> QED BY <3>1, <3>2, <3>3, <3>5 DEF TokenIsInStep
  <2> QED BY <2>1, <2>2, <2>3 DEF Gone, TokenIsInStep
<1> QED BY <1>2, <1>3, <1>4 DEF IInv

LEMMA TokensStay ==
    ASSUME TypeOK, NEW k \in Tokens, tokens'[k] = tokens[k]
    PROVE  Kept(k) \/ Gone(k)
<1>1. tokens[k] \in Rows
  BY DEF TypeOK
<1>2. tokens[k] = [tokens[k] EXCEPT !.left = tokens[k].left] /\ tokens[k].left \in Nat \cup {Never}
  BY <1>1 DEF Rows
<1> QED BY <1>1, <1>2 DEF Kept, Gone

LEMMA QuietStepKeepsIInv ==
    ASSUME IInv, Observe, NEW a \in Actors, NEW s, NEW t, Moves(a, s, t),
           UNCHANGED <<password, tokens>>,
           s \notin {"look up", "verify", "no"} =>
              (Running(a) /\ entitled[a]) \/ (s # "ok" /\ Right(a)'),
           s \in LoggingIn => \/ at[a] \in LoggingIn /\ t = task[a]
                              \/ password[t.user] = Hash(t.word),
           s # "issue token", at[a] = "delete tokens" => s # "ok"
    PROVE  IInv'
<1>1. password' \in [Users -> Stored] /\ tokens' \in [Tokens -> Rows]
  BY DEF IInv, TypeOK
<1>2. \A k \in Tokens : Kept(k) \/ Gone(k) \/ Draws(a, k)
  BY TokensStay DEF IInv
<1>3. ~Revokes(a)
  BY DEF Revokes, Moves, IInv, TypeOK
<1> QED BY <1>1, <1>2, <1>3, StepKeepsIInv

(* What is known of an actor at a statement.                                    *)
LEMMA AtStatement ==
    ASSUME IInv, NEW a \in Actors
    PROVE  /\ at[a] \in Statements /\ Fits(at[a], task[a])
           /\ at[a] \notin {"look up", "verify", "no"} => entitled[a]
           /\ \A s : Goto(a, s) /\ Fits(s, task[a]) => Moves(a, s, task[a])
           /\ \A s \in {"ok", "no"} : End(a, s) => Moves(a, s, NoTask)
<1>1. /\ at[a] \in Statements /\ Fits(at[a], task[a])
      /\ at[a] \notin {"look up", "verify", "no"} => entitled[a]
  BY DEF IInv, TypeOK, ActorIsInStep
<1>2. task = [task EXCEPT ![a] = task[a]]
  BY DEF IInv, TypeOK
<1> QED BY <1>1, <1>2 DEF Goto, End, Moves, Fits

LEMMA StartKeeps == ASSUME IInv, Observe, NEW a \in Actors, Start(a) PROVE IInv'
<1>1. PICK t \in Tasks : /\ task' = [task EXCEPT ![a] = t]
                         /\ at' = [at EXCEPT ![a] = FirstStatement(t.op)]
  BY DEF Start
<1> DEFINE s == FirstStatement(t.op)
<1>2. /\ Fits(s, t) /\ s \notin LoggingIn \cup {"ok", "no", "issue token"}
      /\ s \notin {"look up", "verify"} => t.op \notin {"call", "logout", "stream", "login", "command"}
  BY FirstStatementsFit
<1>3. Moves(a, s, t) /\ UNCHANGED <<password, tokens>>
  BY <1>1, <1>2 DEF Moves, Start
<1>4. s \notin {"look up", "verify"} => Right(a)'
  BY <1>1, <1>2 DEF Right, IInv, TypeOK
<1> HIDE DEF s
<1> QED BY <1>2, <1>3, <1>4, QuietStepKeepsIInv

LEMMA LookUpKeeps == ASSUME IInv, Observe, NEW a \in Actors, LookUp(a) PROVE IInv'
<1>1. at[a] = "look up" /\ Running(a) /\ UNCHANGED <<password, tokens>>
  BY DEF LookUp, At, Running, NothingStored
<1>2. task[a] \in TokenTasks
  BY <1>1, AtStatement DEF Fits
<1>3. CASE Live(task[a].token) /\ Goto(a, "touch")
  <2>1. Moves(a, "touch", task[a])
    BY <1>2, <1>3, AtStatement DEF Fits
  <2>2. Right(a)'
    BY <1>1, <1>2, <1>3 DEF Right, Goto, Live, TokenTasks
  <2> QED BY <1>1, <2>1, <2>2, QuietStepKeepsIInv DEF LoggingIn
<1>4. CASE End(a, "no")
  <2>1. Moves(a, "no", NoTask)
    BY <1>4, AtStatement
  <2> QED BY <1>1, <2>1, QuietStepKeepsIInv DEF LoggingIn
<1> QED BY <1>3, <1>4 DEF LookUp

LEMMA TouchKeeps == ASSUME IInv, Observe, NEW a \in Actors, Touch(a) PROVE IInv'
<1> DEFINE s == IF task[a].op = "logout" THEN "delete token" ELSE "serve"
<1>1. at[a] = "touch" /\ Running(a) /\ UNCHANGED <<password, tokens>> /\ Goto(a, s)
  BY DEF Touch, At, Running, NothingStored
<1>2. task[a] \in TokenTasks /\ entitled[a]
  BY <1>1, AtStatement DEF Fits
<1>3. Moves(a, s, task[a])
  BY <1>1, <1>2, AtStatement DEF Fits
<1> QED BY <1>1, <1>2, <1>3, QuietStepKeepsIInv DEF LoggingIn

LEMMA ServingKeeps ==
    ASSUME IInv, Observe, NEW a \in Actors, Serve(a) \/ OpenStream(a) \/ CloseStream(a)
    PROVE  IInv'
<1>1. at[a] \in {"serve", "streaming"} /\ Running(a) /\ UNCHANGED <<password, tokens>>
  BY DEF Serve, OpenStream, CloseStream, At, Running, NothingStored
<1>2. task[a] \in TokenTasks /\ entitled[a]
  BY <1>1, AtStatement DEF Fits
<1>3. CASE End(a, "ok")
  <2>1. Moves(a, "ok", NoTask)
    BY <1>3, AtStatement
  <2> QED BY <1>1, <1>2, <2>1, QuietStepKeepsIInv DEF LoggingIn
<1>4. CASE OpenStream(a)
  <2>1. Goto(a, "streaming")
    BY <1>4 DEF OpenStream, Goto
  <2>2. Moves(a, "streaming", task[a])
    BY <1>2, <2>1, AtStatement DEF Fits
  <2> QED BY <1>1, <1>2, <2>2, QuietStepKeepsIInv DEF LoggingIn
<1> QED BY <1>3, <1>4 DEF Serve, CloseStream

LEMMA VerifyPasswordKeeps ==
    ASSUME IInv, Observe, NEW a \in Actors, VerifyPassword(a) PROVE IInv'
<1>1. at[a] = "verify" /\ Running(a) /\ UNCHANGED <<password, tokens>>
  BY DEF VerifyPassword, At, Running, NothingStored
<1>2. task[a] \in LoginTasks
  BY <1>1, AtStatement DEF Fits
<1>3. CASE Verifies(task[a].word, password[task[a].user]) /\ Goto(a, "record login")
  <2>1. Moves(a, "record login", task[a])
    BY <1>2, <1>3, AtStatement DEF Fits
  <2>2. password[task[a].user] = Hash(task[a].word)
    BY <1>3 DEF Verifies
  <2>3. Right(a)'
    BY <1>1, <1>2, <1>3, <2>2 DEF Right, Goto, LoginTasks
  <2> QED BY <1>1, <2>1, <2>2, <2>3, QuietStepKeepsIInv
<1>4. CASE End(a, "no")
  <2>1. Moves(a, "no", NoTask)
    BY <1>4, AtStatement
  <2> QED BY <1>1, <2>1, QuietStepKeepsIInv DEF LoggingIn
<1> QED BY <1>3, <1>4 DEF VerifyPassword

LEMMA UpdateLastLoginKeeps ==
    ASSUME IInv, Observe, NEW a \in Actors, UpdateLastLogin(a) PROVE IInv'
<1>1. at[a] = "record login" /\ Running(a) /\ UNCHANGED <<password, tokens>>
      /\ Goto(a, "insert session")
  BY DEF UpdateLastLogin, At, Running, NothingStored
<1>2. task[a] \in LoginTasks /\ entitled[a]
  BY <1>1, AtStatement DEF Fits
<1>3. Moves(a, "insert session", task[a])
  BY <1>1, <1>2, AtStatement DEF Fits
<1> QED BY <1>1, <1>2, <1>3, QuietStepKeepsIInv DEF LoggingIn

LEMMA FindUserKeeps == ASSUME IInv, Observe, NEW a \in Actors, FindUser(a) PROVE IInv'
<1>1. at[a] = "find user" /\ Running(a) /\ UNCHANGED <<password, tokens>>
  BY DEF FindUser, At, Running, NothingStored
<1>2. task[a] \in [op : {"revoke-tokens"}, user : Users] /\ entitled[a]
  BY <1>1, AtStatement DEF Fits
<1>3. CASE Goto(a, "delete tokens")
  <2>1. Moves(a, "delete tokens", task[a])
    BY <1>2, <1>3, AtStatement DEF Fits
  <2> QED BY <1>1, <1>2, <2>1, QuietStepKeepsIInv DEF LoggingIn
<1>4. CASE End(a, "no")
  <2>1. Moves(a, "no", NoTask)
    BY <1>4, AtStatement
  <2> QED BY <1>1, <2>1, QuietStepKeepsIInv DEF LoggingIn
<1> QED BY <1>3, <1>4 DEF FindUser

LEMMA FailKeeps == ASSUME IInv, Observe, NEW a \in Actors, Fail(a) PROVE IInv'
<1> DEFINE s == IF at[a] = "streaming" THEN "ok" ELSE "no"
<1>1. Running(a) /\ UNCHANGED <<password, tokens>> /\ End(a, s)
  BY DEF Fail, NothingStored
<1>2. Moves(a, s, NoTask) /\ (s = "ok" => entitled[a])
  BY <1>1, AtStatement
<1> QED BY <1>1, <1>2, QuietStepKeepsIInv DEF LoggingIn
-----------------------------------------------------------------------------
(* The steps that write.                                                        *)

LEMMA TypesOfRows ==
    ASSUME TypeOK
    PROVE  /\ \A a \in Actors, u \in Users, left \in Nat \cup {Never}, proof \in Stored :
                 NewToken(u, left, proof, a) \in Rows
           /\ \A k \in Tokens : Deleted(k) \in Rows /\ ~Deleted(k).row
<1>1. \A a \in Actors : late[a] \in BOOLEAN
  BY DEF TypeOK
<1>2. ASSUME NEW k \in Tokens PROVE Deleted(k) \in Rows /\ ~Deleted(k).row
  <2>1. tokens[k] \in Rows
    BY DEF TypeOK
  <2> QED BY <2>1 DEF Deleted, Rows, Stored
<1> QED BY <1>1, <1>2 DEF NewToken, Rows

(* One token is drawn.                                                          *)
LEMMA DrawingIsTyped ==
    ASSUME IInv, NEW a \in Actors, NEW k \in Tokens, NEW left \in Nat \cup {Never},
           NEW proof, task[a].user \in Users,
           \/ at[a] = "issue token" /\ proof = NoPassword
           \/ at[a] = "insert session" /\ proof = Hash(task[a].word) /\ task[a].word \in Passwords,
           tokens' = [tokens EXCEPT ![k] = NewToken(task[a].user, left, proof, a)]
    PROVE  tokens' \in [Tokens -> Rows] /\ \A j \in Tokens : Kept(j) \/ Gone(j) \/ Draws(a, j)
<1>1. TypeOK /\ proof \in Stored
  BY DEF IInv, Stored
<1>2. NewToken(task[a].user, left, proof, a) \in Rows
  BY <1>1, TypesOfRows
<1>3. tokens \in [Tokens -> Rows]
  BY <1>1 DEF TypeOK
<1>4. tokens'[k] = NewToken(task[a].user, left, proof, a) /\ \A j \in Tokens \ {k} : tokens'[j] = tokens[j]
  BY <1>3
<1>5. Draws(a, k)
  BY <1>4 DEF Draws
<1>6. \A j \in Tokens \ {k} : Kept(j) \/ Gone(j)
  BY <1>1, <1>4, TokensStay
<1> QED BY <1>2, <1>3, <1>5, <1>6

LEMMA InsertSessionKeeps ==
    ASSUME IInv, Observe, NEW a \in Actors, InsertSession(a) PROVE IInv'
<1>1. PICK k \in Tokens :
        /\ tokens' = [tokens EXCEPT ![k] = NewToken(task[a].user, Lifetime, Hash(task[a].word), a)]
        /\ \/ End(a, "ok")
           \/ /\ task' = [task EXCEPT ![a] = [op |-> "call", token |-> k]]
              /\ at' = [at EXCEPT ![a] = "look up"]
              /\ UNCHANGED engine
  BY DEF InsertSession
<1>2. at[a] = "insert session" /\ Running(a) /\ password' = password
  BY DEF InsertSession, At, Running
<1>3. task[a] \in LoginTasks /\ entitled[a]
  BY <1>2, AtStatement DEF Fits
<1>4. task[a].user \in Users /\ task[a].word \in Passwords /\ Lifetime \in Nat \cup {Never}
  BY <1>3, SessionsAssumption DEF LoginTasks
<1>5. tokens' \in [Tokens -> Rows] /\ \A j \in Tokens : Kept(j) \/ Gone(j) \/ Draws(a, j)
  BY <1>1, <1>2, <1>4, DrawingIsTyped
<1>6. password' \in [Users -> Stored] /\ ~Revokes(a)
  BY <1>2 DEF IInv, TypeOK, Revokes
<1>7. CASE End(a, "ok")
  <2>1. Moves(a, "ok", NoTask)
    BY <1>7, AtStatement
  <2> QED BY <1>2, <1>3, <1>5, <1>6, <2>1, StepKeepsIInv DEF LoggingIn
<1>8. CASE /\ task' = [task EXCEPT ![a] = [op |-> "call", token |-> k]]
           /\ at' = [at EXCEPT ![a] = "look up"]
           /\ UNCHANGED engine
  <2>1. Moves(a, "look up", [op |-> "call", token |-> k])
    BY <1>8 DEF Moves, Fits, TokenTasks
  <2> QED BY <1>2, <1>5, <1>6, <2>1, StepKeepsIInv DEF LoggingIn
<1> QED BY <1>1, <1>7, <1>8

LEMMA IssueTokenKeeps ==
    ASSUME IInv, Observe, NEW a \in Actors, IssueToken(a) PROVE IInv'
<1>1. PICK k \in Tokens :
        tokens' = [tokens EXCEPT ![k] = NewToken(task[a].user, Never, NoPassword, a)]
  BY DEF IssueToken
<1>2. at[a] = "issue token" /\ Running(a) /\ password' = password /\ End(a, "ok")
  BY DEF IssueToken, At, Running
<1>3. task[a].user \in Users /\ entitled[a]
  BY <1>2, AtStatement DEF Fits
<1>4. tokens' \in [Tokens -> Rows] /\ \A j \in Tokens : Kept(j) \/ Gone(j) \/ Draws(a, j)
  BY <1>1, <1>2, <1>3, DrawingIsTyped
<1>5. password' \in [Users -> Stored] /\ ~Revokes(a)
  BY <1>2 DEF IInv, TypeOK, Revokes
<1>6. Moves(a, "ok", NoTask)
  BY <1>2, AtStatement
<1> QED BY <1>2, <1>3, <1>4, <1>5, <1>6, StepKeepsIInv DEF LoggingIn

LEMMA RevokeTokenKeeps ==
    ASSUME IInv, Observe, NEW a \in Actors, RevokeToken(a) PROVE IInv'
<1>1. at[a] = "delete token" /\ Running(a) /\ password' = password /\ End(a, "ok")
      /\ tokens' = [tokens EXCEPT ![task[a].token] = Deleted(task[a].token)]
  BY DEF RevokeToken, At, Running
<1>2. PICK k \in Tokens : k = task[a].token
  BY <1>1, AtStatement DEF Fits, TokenTasks
<1>3. Deleted(k) \in Rows /\ ~Deleted(k).row /\ tokens \in [Tokens -> Rows] /\ TypeOK
  BY TypesOfRows DEF IInv, TypeOK
<1>4. tokens' \in [Tokens -> Rows] /\ tokens'[k] = Deleted(k) /\ \A j \in Tokens \ {k} : tokens'[j] = tokens[j]
  BY <1>1, <1>2, <1>3
<1>5. \A j \in Tokens : Kept(j) \/ Gone(j) \/ Draws(a, j)
  BY <1>3, <1>4, TokensStay DEF Gone
<1>6. password' \in [Users -> Stored] /\ ~Revokes(a)
  BY <1>1 DEF IInv, TypeOK, Revokes
<1>7. Moves(a, "ok", NoTask) /\ entitled[a]
  BY <1>1, AtStatement
<1> QED BY <1>1, <1>4, <1>5, <1>6, <1>7, StepKeepsIInv DEF LoggingIn

LEMMA InsertUserKeeps ==
    ASSUME IInv, Observe, NEW a \in Actors, InsertUser(a) PROVE IInv'
<1>1. at[a] = "insert user" /\ Running(a) /\ tokens' = tokens
  BY DEF InsertUser, At, Running
<1>2. task[a] \in UserTasks /\ entitled[a]
  BY <1>1, AtStatement DEF Fits
<1>3. tokens' \in [Tokens -> Rows] /\ \A k \in Tokens : Kept(k) \/ Gone(k) \/ Draws(a, k)
  BY <1>1, TokensStay DEF IInv, TypeOK
<1>4. ~Revokes(a) /\ password \in [Users -> Stored]
  BY <1>1 DEF Revokes, IInv, TypeOK
<1>5. CASE End(a, "no") /\ UNCHANGED password
  <2>1. Moves(a, "no", NoTask)
    BY <1>5, AtStatement
  <2> QED BY <1>1, <1>5, <2>1, QuietStepKeepsIInv DEF LoggingIn
<1>6. CASE /\ password[task[a].user] = NoUser /\ task[a].op = "create-user --token"
           /\ password' = [password EXCEPT ![task[a].user] = NoPassword]
           /\ Goto(a, "issue token")
  <2>1. task[a] \in [op : {"create-user --token"}, user : Users]
    BY <1>2, <1>6 DEF UserTasks
  <2>2. Moves(a, "issue token", task[a])
    BY <1>6, <2>1, AtStatement DEF Fits
  <2>3. /\ password' \in [Users -> Stored] /\ password'[task[a].user] # password[task[a].user]
        /\ \A u \in Users : password'[u] = password[u] \/ password[u] = NoUser
    BY <1>4, <1>6, <2>1, HashesAreNotMarks DEF Stored
  <2> QED BY <1>1, <1>2, <1>3, <1>4, <2>2, <2>3, StepKeepsIInv DEF LoggingIn
<1>7. CASE /\ password[task[a].user] = NoUser /\ task[a].op # "create-user --token"
           /\ password' = [password EXCEPT ![task[a].user] = Hash(task[a].word)]
           /\ End(a, "ok")
  <2>1. task[a].user \in Users /\ task[a].word \in Passwords
    BY <1>2, <1>7 DEF UserTasks
  <2>2. Moves(a, "ok", NoTask)
    BY <1>7, AtStatement
  <2>3. /\ password' \in [Users -> Stored]
        /\ \A u \in Users : password'[u] = password[u] \/ password[u] = NoUser
    BY <1>4, <1>7, <2>1 DEF Stored
  <2> QED BY <1>1, <1>2, <1>3, <1>4, <2>2, <2>3, StepKeepsIInv DEF LoggingIn
<1> QED BY <1>5, <1>6, <1>7 DEF InsertUser

LEMMA UpdatePasswordKeeps ==
    ASSUME IInv, Observe, NEW a \in Actors, UpdatePassword(a) PROVE IInv'
<1>1. at[a] = "update password" /\ Running(a) /\ tokens' = tokens
  BY DEF UpdatePassword, At, Running
<1>2. task[a].user \in Users /\ task[a].word \in Passwords /\ entitled[a]
  BY <1>1, AtStatement DEF Fits
<1>3. CASE End(a, "no") /\ UNCHANGED password
  <2>1. Moves(a, "no", NoTask)
    BY <1>3, AtStatement
  <2> QED BY <1>1, <1>3, <2>1, QuietStepKeepsIInv DEF LoggingIn
<1>4. CASE password' = [password EXCEPT ![task[a].user] = Hash(task[a].word)] /\ End(a, "ok")
  <2>1. Moves(a, "ok", NoTask)
    BY <1>4, AtStatement
  <2>2. /\ password' \in [Users -> Stored]
        /\ \A u \in Users : password'[u] = password[u] \/ password'[u] \notin {NoUser, NoPassword}
    BY <1>2, <1>4, HashesAreNotMarks DEF IInv, TypeOK, Stored
  <2>3. tokens' \in [Tokens -> Rows] /\ \A k \in Tokens : Kept(k) \/ Gone(k) \/ Draws(a, k)
    BY <1>1, TokensStay DEF IInv, TypeOK
  <2>4. ~Revokes(a)
    BY <1>1 DEF Revokes
  <2> QED BY <1>1, <1>2, <2>1, <2>2, <2>3, <2>4, StepKeepsIInv DEF LoggingIn
<1> QED BY <1>3, <1>4 DEF UpdatePassword

LEMMA DeleteTokensKeeps ==
    ASSUME IInv, Observe, NEW a \in Actors, DeleteTokens(a) PROVE IInv'
<1> DEFINE u == task[a].user
<1>1. /\ at[a] = "delete tokens" /\ Running(a) /\ password' = password /\ End(a, "ok")
      /\ tokens' = [k \in Tokens |-> IF tokens[k].user = u THEN Deleted(k) ELSE tokens[k]]
  BY DEF DeleteTokens, At, Running
<1>2. Moves(a, "ok", NoTask) /\ entitled[a] /\ TypeOK
  BY <1>1, AtStatement DEF IInv
<1>3. /\ tokens' \in [Tokens -> Rows]
      /\ \A k \in Tokens : IF tokens[k].user = u THEN tokens'[k] = Deleted(k) ELSE tokens'[k] = tokens[k]
  <2>1. \A k \in Tokens : Deleted(k) \in Rows /\ tokens[k] \in Rows
    BY <1>2, TypesOfRows DEF TypeOK
  <2> QED BY <1>1, <2>1
<1>4. \A k \in Tokens : Kept(k) \/ Gone(k) \/ Draws(a, k)
  BY <1>2, <1>3, TypesOfRows, TokensStay DEF Gone
<1>5. \A k \in Tokens : tokens'[k].row => tokens'[k].user # u
  BY <1>2, <1>3, TypesOfRows
<1>6. password' \in [Users -> Stored]
  BY <1>1 DEF IInv, TypeOK
<1> QED BY <1>1, <1>2, <1>3, <1>4, <1>5, <1>6, StepKeepsIInv DEF LoggingIn

LEMMA TickKeeps == ASSUME IInv, Observe, Tick PROVE IInv'
<1>1. /\ UNCHANGED <<engine, password, task, at>>
      /\ tokens' = [k \in Tokens |->
                       [tokens[k] EXCEPT !.left = IF @ \in {0, Never} THEN @ ELSE @ - 1]]
      /\ TypeOK
  BY DEF Tick, IInv
<1>2. ASSUME NEW k \in Tokens
      PROVE  /\ tokens'[k] \in Rows /\ tokens'[k].row = tokens[k].row
             /\ tokens'[k].user = tokens[k].user /\ tokens'[k].proof = tokens[k].proof
             /\ tokens'[k].late = tokens[k].late
  <2>1. tokens[k] \in Rows
    BY <1>1 DEF TypeOK
  <2> QED BY <1>1, <2>1, SessionsAssumption DEF Rows
<1>3. \A b \in Actors : ~Revokes(b)
  BY <1>1 DEF Revokes
<1>4. swept' \subseteq swept
  BY <1>1, <1>3, Observed
<1>5. TypeOK'
  <2>1. tokens' \in [Tokens -> Rows]
    BY <1>1, <1>2
  <2>2. \A b \in Actors : Fits(at[b], task[b])'
    BY <1>1 DEF TypeOK, Fits
  <2> QED BY <1>1, <2>1, <2>2, Observed DEF TypeOK
<1>6. ASSUME NEW b \in Actors PROVE ActorIsInStep(b)'
  <2>1. Running(b) /\ late[b] => late'[b]
    BY <1>1, Observed DEF Running
  <2>2. at'[b] \notin {"look up", "verify", "no"} => entitled'[b]
    BY <1>1, Observed DEF IInv, ActorIsInStep, Running
  <2> QED BY <1>1, <1>4, <2>1, <2>2 DEF IInv, ActorIsInStep, LoggingIn, Running
<1>7. ASSUME NEW k \in Tokens PROVE TokenIsInStep(k)'
  BY <1>1, <1>2, <1>4 DEF IInv, TokenIsInStep
<1> QED BY <1>5, <1>6, <1>7 DEF IInv

LEMMA InitHasIInv == Init => IInv
<1> SUFFICES ASSUME Init PROVE IInv
  OBVIOUS
<1>1. Unused \in Rows /\ ~Unused.row
  BY DEF Unused, Rows, Stored
<1>2. \A a \in Actors : Fits(at[a], task[a]) /\ at[a] = "no"
  BY DEF Init, Fits
<1>3. TypeOK
  BY <1>1, <1>2 DEF Init, TypeOK, Stored, Statements
<1>4. \A a \in Actors : ActorIsInStep(a)
  BY <1>2 DEF ActorIsInStep, LoggingIn
<1>5. \A k \in Tokens : TokenIsInStep(k)
  BY <1>1 DEF Init, TokenIsInStep
<1> QED BY <1>3, <1>4, <1>5 DEF IInv

LEMMA NextKeepsIInv == IInv /\ [Next]_vars => IInv'
<1> SUFFICES ASSUME IInv, [Next]_vars PROVE IInv'
  OBVIOUS
<1>1. ASSUME Observe, NEW a \in Actors, Step(a) PROVE IInv'
  BY <1>1, StartKeeps, LookUpKeeps, TouchKeeps, ServingKeeps, RevokeTokenKeeps,
     VerifyPasswordKeeps, UpdateLastLoginKeeps, InsertSessionKeeps, InsertUserKeeps,
     IssueTokenKeeps, UpdatePasswordKeeps, FindUserKeeps, DeleteTokensKeeps, FailKeeps
  DEF Step
<1>2. CASE Tick /\ Observe
  BY <1>2, TickKeeps
<1>3. CASE UNCHANGED vars
  BY <1>3 DEF vars, IInv, TypeOK, Fits, ActorIsInStep, TokenIsInStep
<1> QED BY <1>1, <1>2, <1>3 DEF Next

LEMMA Invariance == Spec => []IInv
BY InitHasIInv, NextKeepsIInv, PTL DEF Spec

(* A request is served, a stream opened or a session given only for a token that   *)
(* was valid, or a password that was the user's, at some time since the request     *)
(* arrived, whatever else happens between its statements.                          *)
THEOREM OnlyEntitled == Spec => []OnlyTheEntitledGetIn
<1>1. IInv => OnlyTheEntitledGetIn
  BY DEF IInv, ActorIsInStep, OnlyTheEntitledGetIn
<1> QED BY <1>1, Invariance, PTL

(* set-password and then revoke-tokens leave no token to anybody who knows only an  *)
(* older password, unless it comes from a task that was under way meanwhile.         *)
THEOREM SweptForGood == Spec => []OldPasswordsAreSwept
<1>1. IInv => OldPasswordsAreSwept
  BY DEF IInv, TokenIsInStep, OldPasswordsAreSwept
<1> QED BY <1>1, Invariance, PTL
-----------------------------------------------------------------------------
(* What a step can do to a token.                                                *)
LEMMA StepsOfTokens ==
    ASSUME TypeOK, Next, NEW k \in Tokens
    PROVE  \/ tokens'[k] = tokens[k] \/ tokens'[k] = Deleted(k)
           \/ /\ tokens[k] = Unused
              /\ \E a \in Actors : /\ at[a] \in {"insert session", "issue token"}
                                   /\ tokens'[k].user = task[a].user
           \/ /\ tokens[k].left \in Nat \ {0}
              /\ tokens'[k] = [tokens[k] EXCEPT !.left = tokens[k].left - 1]
<1>1. tokens \in [Tokens -> Rows] /\ tokens[k] \in Rows
  BY DEF TypeOK
<1>2. ASSUME Tick
      PROVE  \/ tokens'[k] = tokens[k]
             \/ /\ tokens[k].left \in Nat \ {0}
                /\ tokens'[k] = [tokens[k] EXCEPT !.left = tokens[k].left - 1]
  BY <1>1, <1>2 DEF Tick, Rows
<1>3. ASSUME NEW a \in Actors, InsertSession(a) \/ IssueToken(a)
      PROVE  \/ tokens'[k] = tokens[k]
             \/ /\ tokens[k] = Unused
                /\ at[a] \in {"insert session", "issue token"}
                /\ tokens'[k].user = task[a].user
  <2>0. PICK j \in Tokens :
          /\ tokens[j] = Unused
          /\ \E left, proof : tokens' = [tokens EXCEPT ![j] = NewToken(task[a].user, left, proof, a)]
    <3>1. CASE InsertSession(a)
      BY <3>1 DEF InsertSession
    <3>2. CASE IssueToken(a)
      BY <3>2 DEF IssueToken
    <3> QED BY <1>3, <3>1, <3>2
  <2>1. PICK left, proof :
          /\ tokens' = [tokens EXCEPT ![j] = NewToken(task[a].user, left, proof, a)]
    BY <2>0
  <2>2. at[a] \in {"insert session", "issue token"}
    BY <1>3 DEF InsertSession, IssueToken, At
  <2>3. CASE j = k
    <3>1. tokens'[k] = NewToken(task[a].user, left, proof, a)
      BY <1>1, <2>1, <2>3
    <3>2. tokens'[k].user = task[a].user
      BY ONLY <3>1, NewTokenFields
    <3> QED BY <2>0, <2>2, <2>3, <3>2
  <2>4. CASE j # k
    BY <1>1, <2>1, <2>4
  <2> QED BY <2>3, <2>4
<1>4. ASSUME NEW a \in Actors, RevokeToken(a) \/ DeleteTokens(a)
      PROVE  tokens'[k] = tokens[k] \/ tokens'[k] = Deleted(k)
  BY <1>1, <1>4 DEF RevokeToken, DeleteTokens
<1>5. ASSUME NEW a \in Actors, Step(a)
      PROVE  \/ tokens' = tokens \/ InsertSession(a) \/ IssueToken(a)
             \/ RevokeToken(a) \/ DeleteTokens(a)
  BY <1>5 DEF Step, Start, LookUp, Touch, Serve, OpenStream, CloseStream, VerifyPassword,
              UpdateLastLogin, InsertUser, UpdatePassword, FindUser, Fail, NothingStored
<1> QED BY <1>2, <1>3, <1>4, <1>5 DEF Next

(* The end of a token, by its time, a logout or a revocation, is for good: what      *)
(* overlaps with it neither brings it back nor gives it more time.                   *)
THEOREM TokensStayEnded == Spec => TokensEndForGood
<1>1. ASSUME IInv, [Next]_vars
      PROVE  [\A k \in Tokens : Drawn(k) =>
                 /\ ~Live(k) => ~Live(k)'
                 /\ tokens[k].left # Never => tokens'[k].left \in 0..tokens[k].left]_vars
  <2> SUFFICES ASSUME Next, NEW k \in Tokens, Drawn(k)
               PROVE  /\ ~Live(k) => ~Live(k)'
                      /\ tokens[k].left # Never => tokens'[k].left \in 0..tokens[k].left
    BY <1>1
  <2>1. /\ tokens[k] \in Rows /\ tokens[k] # Unused /\ TypeOK
        /\ tokens[k].left # Never => tokens[k].left \in Nat
    BY <1>1 DEF IInv, TypeOK, Drawn, Unused, Rows
  <2>2. CASE tokens'[k] = tokens[k]
    BY <2>1, <2>2 DEF Live
  <2>3. CASE tokens'[k] = Deleted(k)
    <3>1. tokens'[k].left = 0
      BY <2>1, <2>3 DEF Deleted, Rows
    <3> QED BY <2>1, <3>1 DEF Live
  <2>4. CASE /\ tokens[k].left \in Nat \ {0}
             /\ tokens'[k] = [tokens[k] EXCEPT !.left = tokens[k].left - 1]
    <3>1. tokens'[k].left = tokens[k].left - 1 /\ tokens'[k].row = tokens[k].row
      BY <2>1, <2>4 DEF Rows
    <3> QED BY <2>1, <2>4, <3>1 DEF Live
  <2> QED BY <2>1, <2>2, <2>3, <2>4, StepsOfTokens
<1> QED BY <1>1, Invariance, PTL DEF Spec, TokensEndForGood

(* A user that is in the table is not inserted again.                            *)
LEMMA OnlyNewUsersGetTokens ==
    ASSUME TypeOK, Next, NEW a \in Actors, at'[a] = "issue token"
    PROVE  (at[a] = "issue token" /\ task'[a] = task[a]) \/ password[task'[a].user] = NoUser
<1>1. CASE Tick
  BY <1>1 DEF Tick
<1>2. ASSUME NEW b \in Actors, Step(b), b # a PROVE at'[a] = at[a] /\ task'[a] = task[a]
  BY <1>2 DEF TypeOK, Step, Start, LookUp, Touch, Serve, OpenStream, CloseStream, RevokeToken,
     VerifyPassword, UpdateLastLogin, InsertSession, InsertUser, IssueToken, UpdatePassword,
     FindUser, DeleteTokens, Fail, Goto, End
<1>3. CASE Start(a)
  <2>1. PICK t \in Tasks : at'[a] = FirstStatement(t.op)
    BY <1>3 DEF Start, TypeOK
  <2> QED BY <2>1, FirstStatementsFit
<1>4. CASE InsertUser(a)
  BY <1>4 DEF InsertUser, Goto, End, TypeOK
<1>5. CASE Step(a) /\ ~Start(a) /\ ~InsertUser(a)
  BY <1>5 DEF TypeOK, Step, LookUp, Touch, Serve, OpenStream, CloseStream, RevokeToken,
     VerifyPassword, UpdateLastLogin, InsertSession, IssueToken, UpdatePassword,
     FindUser, DeleteTokens, Fail, Goto, End
<1> QED BY <1>1, <1>2, <1>3, <1>4, <1>5 DEF Next

(* A user whose create-user --token broke off between its transactions is without    *)
(* a token until a set-password, whatever is tried before.                           *)
THEOREM HalfMadeStaysHalfMade == Spec => HalfMadeUsersNeedAPassword
<1>1. ASSUME IInv, [Next]_vars
      PROVE  [\A u \in Users : HalfMade(u) => HalfMade(u)' \/ password'[u] # NoPassword]_vars
  <2> SUFFICES ASSUME Next, NEW u \in Users, HalfMade(u), password'[u] = NoPassword
               PROVE  HalfMade(u)'
    BY <1>1
  <2>1. TypeOK /\ TypeOK'
    BY <1>1, NextKeepsIInv DEF IInv
  <2>2. ASSUME NEW k \in Tokens PROVE tokens'[k].user # u
    <3>1. \A a \in Actors : at[a] \in {"insert session", "issue token"} => task[a].user # u
      BY <1>1 DEF IInv, ActorIsInStep, LoggingIn, HalfMade
    <3>2. tokens[k] \in Rows /\ tokens[k].user # u
      BY <2>1 DEF TypeOK, HalfMade
    <3>3. Deleted(k).user = tokens[k].user
      BY <3>2 DEF Deleted, Rows
    <3>4. [tokens[k] EXCEPT !.left = tokens[k].left - 1].user = tokens[k].user
      BY <3>2 DEF Rows
    <3> QED BY <2>1, <3>1, <3>2, <3>3, <3>4, StepsOfTokens
  <2>3. ASSUME NEW a \in Actors, at'[a] = "issue token" PROVE task'[a].user # u
    BY <2>1, <2>3, OnlyNewUsersGetTokens, HashesAreNotMarks DEF HalfMade
  <2> QED BY <2>2, <2>3 DEF HalfMade
<1> QED BY <1>1, Invariance, PTL DEF Spec, HalfMadeUsersNeedAPassword
===============================================================================
