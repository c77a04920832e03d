---------------------------- MODULE Idempotency ----------------------------
(***************************************************************************)
(* Mutations under the idempotency lock: routes._idempotent around an       *)
(* operation on the inventory, by request threads that share one database. *)
(* A retry is one more attempt with the key of the first; it may arrive     *)
(* while the first still runs.  The inventory is cut down to which nodes    *)
(* exist: every POST creates a node of its own (named after the attempt),   *)
(* PUT and DELETE are about the one node X.                                 *)
(***************************************************************************)
EXTENDS Integers, FiniteSets

CONSTANTS
    Attempts,     \* requests ever received, one thread each
    NoAttempt,
    Keys,         \* Idempotency-Keys of one user
    NoKey,        \* a request without the header
    X,            \* the node that PUT and DELETE name
    EarlyCommit,  \* the savepoint around INSERT INTO nodes commits (SQLite)
    MaxToggles,   \* bound: PUT and DELETE of /v1/lock
    MaxFaults     \* bound: failing statements and restarts

ASSUME IdempotencyAssumption ==
    /\ NoAttempt \notin Attempts /\ X \notin Attempts /\ NoKey \notin Keys
    /\ EarlyCommit \in BOOLEAN
    /\ MaxToggles \in Nat /\ MaxFaults \in Nat

VARIABLES
    enabled,      \* idempotency_lock.enabled
    stored,       \* idempotency_keys: request fingerprint and response
    nodes,        \* committed rows of nodes
    holder,       \* whose transaction has the locks a write needs
    request,      \* what each attempt asks for
    sees,         \* whether its first SELECT found X
    phase,        \* where its thread is
    answer,       \* what it answers
    committed,    \* history: the attempts whose change is in the database
    toggles, faults

store == <<enabled, stored, nodes, committed>>
bounds == <<toggles, faults>>
vars == <<store, holder, request, sees, phase, answer, bounds>>

Ops == {"post", "put", "delete"}
Answer(status, a) == [status |-> status, by |-> a]
NoAnswer == Answer(0, NoAttempt)
Unused == [op |-> "none", answer |-> NoAnswer]
NoRequest == [op |-> "none", key |-> NoKey]

Key(a) == request[a].key
Keyed(a) == Key(a) # NoKey
Target(a) == IF request[a].op = "post" THEN a ELSE X
Creates(a) == request[a].op = "post" \/ (request[a].op = "put" /\ ~sees[a])

GoTo(a, p) == phase' = [phase EXCEPT ![a] = p] /\ UNCHANGED answer
Reply(a, r) == phase' = [phase EXCEPT ![a] = "answered"] /\ answer' = [answer EXCEPT ![a] = r]

\* Mutant: the locks are kept after an error.
Forgets(a) == UNCHANGED holder
Release(a) == holder' = IF holder = a THEN NoAttempt ELSE holder
-----------------------------------------------------------------------------
(* The header against the lock, read once (lines 60-73).                     *)
Start(a) ==
    /\ phase[a] = "new"
    /\ \E op \in Ops, k \in Keys \cup {NoKey} :
        /\ request' = [request EXCEPT ![a] = [op |-> op, key |-> k]]
        /\ \/ enabled /\ k = NoKey /\ Reply(a, Answer(428, a))
           \/ ~enabled /\ k # NoKey /\ Reply(a, Answer(409, a))
           \/ enabled /\ k # NoKey /\ GoTo(a, "lookup")
           \/ ~enabled /\ k = NoKey /\ GoTo(a, "read")
    /\ UNCHANGED <<store, holder, sees, bounds>>

\* Mutant: the fingerprint is not compared.
ReplayAnything(a) == Reply(a, stored[Key(a)].answer)

Replay(a) ==
    IF stored[Key(a)].op = request[a].op THEN Reply(a, stored[Key(a)].answer)
    ELSE Reply(a, Answer(409, a))

Lookup(a) ==
    /\ phase[a] = "lookup"
    /\ \/ stored[Key(a)] # Unused /\ Replay(a)
       \/ stored[Key(a)] = Unused /\ GoTo(a, "read")
    /\ UNCHANGED <<store, holder, request, sees, bounds>>

(* The operation's first SELECT; POST has none.                              *)
ReadNothing(a) ==
    /\ phase[a] = "read" /\ request[a].op = "post"
    /\ GoTo(a, "write")
    /\ UNCHANGED <<store, holder, request, sees, bounds>>

ReadForPut(a) ==
    /\ phase[a] = "read" /\ request[a].op = "put"
    /\ sees' = [sees EXCEPT ![a] = X \in nodes]
    /\ GoTo(a, "write")
    /\ UNCHANGED <<store, holder, request, bounds>>

ReadForDelete(a) ==
    /\ phase[a] = "read" /\ request[a].op = "delete"
    /\ IF X \in nodes THEN GoTo(a, "write") ELSE Reply(a, Answer(404, a))
    /\ UNCHANGED <<store, holder, request, sees, bounds>>

(* The row itself.  An INSERT of an id that exists by now is refused; with    *)
(* EarlyCommit it is committed, and its locks are free again, before the      *)
(* operation goes on.                                                         *)
InsertRow(a) ==
    /\ phase[a] = "write" /\ holder = NoAttempt
    /\ Creates(a)
    /\ \/ /\ Target(a) \in nodes
          /\ Reply(a, Answer(400, a)) /\ UNCHANGED <<holder, nodes, committed>>
       \/ /\ Target(a) \notin nodes /\ EarlyCommit
          /\ nodes' = nodes \cup {Target(a)}
          /\ committed' = committed \cup {a}
          /\ GoTo(a, "append") /\ UNCHANGED holder
       \/ /\ Target(a) \notin nodes /\ ~EarlyCommit
          /\ holder' = a
          /\ GoTo(a, "append") /\ UNCHANGED <<nodes, committed>>
    /\ UNCHANGED <<enabled, stored, request, sees, bounds>>

(* An UPDATE that finds no row goes on all the same.                          *)
UpdateRow(a) ==
    /\ phase[a] = "write" /\ holder = NoAttempt
    /\ request[a].op = "put" /\ sees[a]
    /\ holder' = a
    /\ GoTo(a, "append")
    /\ UNCHANGED <<store, request, sees, bounds>>

(* A DELETE that finds no row ends in _NotFound.                              *)
DeleteRow(a) ==
    /\ phase[a] = "write" /\ holder = NoAttempt
    /\ request[a].op = "delete"
    /\ \/ X \in nodes /\ holder' = a /\ GoTo(a, "append")
       \/ X \notin nodes /\ Reply(a, Answer(404, a)) /\ UNCHANGED holder
    /\ UNCHANGED <<store, request, sees, bounds>>

(* The event, under the lock on event_sequence (or on the database).          *)
Append(a) ==
    /\ phase[a] = "append" /\ holder \in {NoAttempt, a}
    /\ holder' = a
    /\ GoTo(a, "finish")
    /\ UNCHANGED <<store, request, sees, bounds>>

(* The nodes as the attempt's own transaction sees them.                      *)
Staged(a) ==
    IF request[a].op = "delete" THEN nodes \ {X}
    ELSE IF Creates(a) /\ ~EarlyCommit THEN nodes \cup {Target(a)}
    ELSE nodes

\* Mutant: the node a DELETE names has to be there afterwards, too.
StatusOfNode(a, there) ==
    IF Target(a) \notin there THEN 500 ELSE IF Creates(a) THEN 201 ELSE 200

(* The status of the response read from those nodes (_node_response).         *)
Status(a, there) ==
    IF request[a].op # "delete" /\ Target(a) \notin there THEN 500
    ELSE IF Creates(a) THEN 201
    ELSE 200

\* Mutant: the key is written whether or not it is there.
NeverTaken(a) == FALSE
Taken(a) == stored[Key(a)] # Unused

\* Mutant: the response is saved in a transaction of its own, after the
\* commit of the operation that a fault may separate from it.
SaveLater(a) ==
    /\ nodes' = Staged(a)
    /\ committed' = committed \cup {a}
    /\ \/ stored' = [stored EXCEPT ![Key(a)] =
              [op |-> request[a].op, answer |-> Answer(Status(a, Staged(a)), a)]]
       \/ UNCHANGED stored

(* One transaction: the operation's changes and the response for the key.     *)
Save(a) ==
    /\ nodes' = Staged(a)
    /\ committed' = committed \cup {a}
    /\ stored' = [stored EXCEPT ![Key(a)] =
           [op |-> request[a].op, answer |-> Answer(Status(a, Staged(a)), a)]]

FinishKeyed(a) ==
    /\ phase[a] = "finish" /\ holder = a /\ Keyed(a)
    /\ \/ Status(a, Staged(a)) = 500
          /\ Reply(a, Answer(500, a)) /\ UNCHANGED <<nodes, committed, stored>>
       \/ Status(a, Staged(a)) # 500 /\ Taken(a)
          /\ GoTo(a, "conflict") /\ UNCHANGED <<nodes, committed, stored>>
       \/ Status(a, Staged(a)) # 500 /\ ~Taken(a)
          /\ Save(a) /\ Reply(a, Answer(Status(a, Staged(a)), a))
    /\ Release(a)
    /\ UNCHANGED <<enabled, request, sees, bounds>>

(* The primary key turned the response down: somebody else's is there.        *)
Conflict(a) ==
    /\ phase[a] = "conflict"
    /\ Replay(a)
    /\ UNCHANGED <<store, holder, request, sees, bounds>>

(* Without a key the operation commits, and reads its response afterwards.    *)
FinishUnkeyed(a) ==
    /\ phase[a] = "finish" /\ holder = a /\ ~Keyed(a)
    /\ nodes' = Staged(a)
    /\ committed' = committed \cup {a}
    /\ GoTo(a, "respond")
    /\ Release(a)
    /\ UNCHANGED <<enabled, stored, request, sees, bounds>>

Respond(a) ==
    /\ phase[a] = "respond"
    /\ Reply(a, Answer(Status(a, nodes), a))
    /\ UNCHANGED <<store, holder, request, sees, bounds>>

Running(a) == phase[a] \notin {"new", "answered", "lost"}

(* A statement fails: the exception rolls the transaction back.               *)
Fail(a) ==
    /\ faults < MaxFaults
    /\ Running(a)
    /\ Reply(a, Answer(500, a))
    /\ Release(a)
    /\ faults' = faults + 1
    /\ UNCHANGED <<store, request, sees, toggles>>

(* The server stops; the database rolls back what was not committed.          *)
Restart ==
    /\ faults < MaxFaults
    /\ phase' = [a \in Attempts |-> IF Running(a) THEN "lost" ELSE phase[a]]
    /\ holder' = NoAttempt
    /\ faults' = faults + 1
    /\ UNCHANGED <<store, request, sees, answer, toggles>>

SetLock ==
    /\ toggles < MaxToggles
    /\ enabled' = ~enabled
    /\ toggles' = toggles + 1
    /\ UNCHANGED <<stored, nodes, committed, holder, request, sees, phase, answer, faults>>

Step(a) ==
    \/ Lookup(a) \/ ReadNothing(a) \/ ReadForPut(a) \/ ReadForDelete(a)
    \/ InsertRow(a) \/ UpdateRow(a) \/ DeleteRow(a) \/ Append(a)
    \/ FinishKeyed(a) \/ Conflict(a) \/ FinishUnkeyed(a) \/ Respond(a)

Next == (\E a \in Attempts : Start(a) \/ Step(a) \/ Fail(a)) \/ Restart \/ SetLock

Init ==
    /\ enabled \in BOOLEAN
    /\ stored = [k \in Keys |-> Unused]
    /\ nodes \in SUBSET {X}
    /\ holder = NoAttempt
    /\ request = [a \in Attempts |-> NoRequest]
    /\ sees = [a \in Attempts |-> FALSE]
    /\ phase = [a \in Attempts |-> "new"]
    /\ answer = [a \in Attempts |-> NoAnswer]
    /\ committed = {}
    /\ toggles = 0 /\ faults = 0

Spec == Init /\ [][Next]_vars

(* A thread that has a request goes on with it.                               *)
FairSpec == Spec /\ \A a \in Attempts : WF_vars(Step(a))
-----------------------------------------------------------------------------
Statuses == {0, 200, 201, 400, 404, 409, 428, 500}
Answers == [status : Statuses, by : Attempts \cup {NoAttempt}]
Phases == {"new", "lookup", "read", "write", "append", "finish", "conflict", "respond",
           "answered", "lost"}

TypeOK ==
    /\ enabled \in BOOLEAN
    /\ stored \in [Keys -> [op : Ops \cup {"none"}, answer : Answers]]
    /\ nodes \subseteq Attempts \cup {X}
    /\ holder \in {NoAttempt} \cup {a \in Attempts : phase[a] \in {"append", "finish"}}
    /\ request \in [Attempts -> [op : Ops \cup {"none"}, key : Keys \cup {NoKey}]]
    /\ sees \in [Attempts -> BOOLEAN]
    /\ phase \in [Attempts -> Phases]
    /\ answer \in [Attempts -> Answers]
    /\ committed \subseteq Attempts
    /\ toggles \in 0..MaxToggles /\ faults \in 0..MaxFaults

Succeeded(a) == answer[a].status \in {200, 201}

(* Whatever retries overlap and wherever the server stops, a key has at most  *)
(* one change in the database, and it has one exactly if its response is      *)
(* stored: _idempotent's single transaction with the primary key.             *)
OneChangePerKey ==
    /\ \A a \in committed : Keyed(a) => stored[Key(a)].answer.by = a
    /\ \A k \in Keys : stored[k] # Unused => stored[k].answer.by \in committed

(* Every success reported for a key is that one change's response to that     *)
(* request, to the original, to a replay and to the loser of a race alike.    *)
SuccessIsTheStoredOne ==
    \A a \in Attempts : Keyed(a) /\ Succeeded(a) =>
        stored[Key(a)] = [op |-> request[a].op, answer |-> answer[a]]

(* An error means that nothing was changed, with one exception: without a key *)
(* the response is read after the commit, and by then the node may have been  *)
(* deleted by another request or a statement may fail (routes.py 127-130).    *)
ErrorsChangeNothing ==
    \A a \in committed : phase[a] = "answered" /\ ~Succeeded(a) =>
        /\ ~Keyed(a)
        /\ answer[a].status = 500
        /\ faults > 0 \/ \E b \in committed \ {a} : request[b].op = "delete"

(* No thread waits for ever for the locks of another one.                     *)
EveryRequestEnds ==
    \A a \in Attempts : (phase[a] # "new") ~> (phase[a] \in {"answered", "lost"})

(* README.md 290-291: repeating the same request with the same key returns    *)
(* its original successful response, here also when the repetition overtakes  *)
(* the original in mid-request.  Failing statements are excepted.             *)
RepetitionsAgree ==
    [][\A a \in Attempts :
          /\ phase[a] # "answered" /\ phase'[a] = "answered"
          /\ Keyed(a) /\ stored[Key(a)].op = request[a].op
          /\ faults' = faults
          => answer'[a] = stored[Key(a)].answer]_vars
=============================================================================
