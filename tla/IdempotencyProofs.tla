-------------------------- MODULE IdempotencyProofs --------------------------
(***************************************************************************)
(* What holds of Idempotency for any number of attempts, keys, faults and   *)
(* switches of the lock.                                                   *)
(***************************************************************************)
EXTENDS Idempotency, TLAPS

(* A thread that appends or finishes has the locks; with EarlyCommit it gives  *)
(* them up between its INSERT and its event.                                  *)
LocksAreHeld ==
    \A a \in Attempts : /\ phase[a] = "finish" => holder = a
                        /\ phase[a] = "append" /\ ~EarlyCommit => holder = a

(* A thread has a request from its first step on, answers once, and is in the  *)
(* last phase of a request without a key only if it has none.                  *)
ThreadsAreInStep ==
    \A a \in Attempts :
        /\ phase[a] = "new" => request[a] = NoRequest
        /\ phase[a] # "new" => request[a].op # "none"
        /\ phase[a] # "answered" => answer[a] = NoAnswer
        /\ phase[a] = "respond" => ~Keyed(a)
        /\ phase[a] \in {"lookup", "conflict"} => Keyed(a)

IInv == TypeOK /\ LocksAreHeld /\ ThreadsAreInStep

(* Where a thread can go in one step, and what is said of it afterwards.        *)
Moves(a, p) ==
    /\ p \in Phases
    /\ phase' = [phase EXCEPT ![a] = p]
    /\ answer' \in [Attempts -> Answers]
    /\ \A b \in Attempts \ {a} : answer'[b] = answer[b]
    /\ p # "answered" => answer'[a] = answer[a]

LEMMA GoingIsMoving ==
    ASSUME TypeOK, NEW a \in Attempts, NEW p \in Phases, GoTo(a, p)
    PROVE  Moves(a, p)
BY DEF TypeOK, GoTo, Moves

LEMMA ReplyingIsMoving ==
    ASSUME TypeOK, NEW a \in Attempts, NEW r \in Answers, Reply(a, r)
    PROVE  Moves(a, "answered")
BY DEF TypeOK, Reply, Moves, Phases

LEMMA AnswersAreTyped ==
    ASSUME NEW s \in Statuses, NEW a \in Attempts \cup {NoAttempt}
    PROVE  Answer(s, a) \in Answers
BY DEF Answers, Answer

(* A step of one thread that leaves the requests alone.                         *)
LEMMA MoveKeepsIInv ==
    ASSUME IInv, NEW a \in Attempts, NEW p \in Phases \ {"new"}, Moves(a, p),
           phase[a] \notin {"new", "answered"}, UNCHANGED <<request, enabled>>,
           stored' \in [Keys -> [op : Ops \cup {"none"}, answer : Answers]],
           nodes' \subseteq Attempts \cup {X}, committed' \subseteq Attempts,
           sees' \in [Attempts -> BOOLEAN],
           toggles' \in 0..MaxToggles, faults' \in 0..MaxFaults,
           \/ holder' = a /\ p \in {"append", "finish"} /\ holder \in {NoAttempt, a}
           \/ holder' = NoAttempt /\ holder \in {NoAttempt, a} /\ p # "finish"
                 /\ (p = "append" => EarlyCommit)
           \/ holder' = holder /\ holder # a /\ p \notin {"append", "finish"},
           p = "respond" => ~Keyed(a),
           p \in {"lookup", "conflict"} => Keyed(a)
    PROVE  IInv'
<1>1. phase' \in [Attempts -> Phases] /\ \A b \in Attempts : phase'[b] = IF b = a THEN p ELSE phase[b]
  BY DEF IInv, TypeOK, Moves
<1>2. holder' \in {NoAttempt} \cup {b \in Attempts : phase'[b] \in {"append", "finish"}}
  BY <1>1 DEF IInv, TypeOK
<1>3. TypeOK'
  BY <1>1, <1>2 DEF IInv, TypeOK, Moves
<1>4. LocksAreHeld'
  BY <1>1, IdempotencyAssumption DEF IInv, LocksAreHeld, TypeOK
<1>5. ThreadsAreInStep'
  BY <1>1 DEF IInv, ThreadsAreInStep, TypeOK, Moves, Keyed, Key
<1> QED BY <1>3, <1>4, <1>5 DEF IInv
-----------------------------------------------------------------------------
LEMMA StartKeeps == ASSUME IInv, NEW a \in Attempts, Start(a) PROVE IInv'
<1> USE IdempotencyAssumption DEF IInv, store, bounds, GoTo, Reply
<1>0. PICK op \in Ops, k \in Keys \cup {NoKey} :
        /\ request' = [request EXCEPT ![a] = [op |-> op, key |-> k]]
        /\ \/ enabled /\ k = NoKey /\ Reply(a, Answer(428, a))
           \/ ~enabled /\ k # NoKey /\ Reply(a, Answer(409, a))
           \/ enabled /\ k # NoKey /\ GoTo(a, "lookup")
           \/ ~enabled /\ k = NoKey /\ GoTo(a, "read")
  BY DEF Start
<1>1. TypeOK'
  <2>1. request' \in [Attempts -> [op : Ops \cup {"none"}, key : Keys \cup {NoKey}]]
    BY <1>0 DEF TypeOK
  <2>2. answer' \in [Attempts -> Answers]
    BY <1>0 DEF TypeOK, Answers, Statuses, Answer
  <2>3. phase' \in [Attempts -> Phases]
    BY <1>0 DEF TypeOK, Phases
  <2>4. holder' \in {NoAttempt} \cup {b \in Attempts : phase'[b] \in {"append", "finish"}}
    BY <1>0 DEF TypeOK, Start
  <2> QED BY <2>1, <2>2, <2>3, <2>4 DEF TypeOK, Start
<1>2. LocksAreHeld'
  BY <1>0 DEF LocksAreHeld, TypeOK, Start
<1>3. ThreadsAreInStep'
  BY <1>0 DEF ThreadsAreInStep, TypeOK, Start, Keyed, Key, Ops
<1> QED BY <1>1, <1>2, <1>3

LEMMA ReplayIsMoving ==
    ASSUME IInv, NEW a \in Attempts, Keyed(a), Replay(a)
    PROVE  Moves(a, "answered")
<1>1. Key(a) \in Keys
  BY DEF IInv, TypeOK, Key, Keyed
<1>2. PICK r \in Answers : Reply(a, r)
  <2>1. stored[Key(a)].answer \in Answers /\ Answer(409, a) \in Answers
    BY <1>1, AnswersAreTyped DEF IInv, TypeOK, Statuses
  <2> QED BY <2>1 DEF Replay
<1> QED BY <1>2, ReplyingIsMoving DEF IInv

LEMMA StatusIsTyped ==
    ASSUME NEW a \in Attempts, NEW there PROVE Status(a, there) \in {200, 201, 500}
BY DEF Status

LEMMA StagedIsTyped ==
    ASSUME IInv, NEW a \in Attempts PROVE Staged(a) \subseteq Attempts \cup {X}
BY DEF IInv, TypeOK, Staged, Target

LEMMA LookupKeeps == ASSUME IInv, NEW a \in Attempts, Lookup(a) \/ Conflict(a) PROVE IInv'
<1>1. phase[a] \in {"lookup", "conflict"} /\ Keyed(a) /\ holder # a
  BY IdempotencyAssumption DEF Lookup, Conflict, IInv, TypeOK, ThreadsAreInStep
<1>2. Moves(a, "answered") \/ Moves(a, "read")
  BY <1>1, ReplayIsMoving, GoingIsMoving DEF Lookup, Conflict, IInv, Phases
<1>3. UNCHANGED <<store, holder, request, sees, bounds>>
  BY DEF Lookup, Conflict
<1> QED BY <1>1, <1>2, <1>3, MoveKeepsIInv DEF IInv, TypeOK, Phases, store, bounds

LEMMA ReadKeeps ==
    ASSUME IInv, NEW a \in Attempts, ReadNothing(a) \/ ReadForPut(a) \/ ReadForDelete(a)
    PROVE  IInv'
<1>1. phase[a] = "read" /\ holder # a
  BY IdempotencyAssumption DEF ReadNothing, ReadForPut, ReadForDelete, IInv, TypeOK
<1>2. Moves(a, "answered") \/ Moves(a, "write")
  <2>1. Answer(404, a) \in Answers
    BY AnswersAreTyped DEF Statuses
  <2> QED BY <2>1, ReplyingIsMoving, GoingIsMoving
          DEF ReadNothing, ReadForPut, ReadForDelete, IInv, Phases
<1>3. sees' \in [Attempts -> BOOLEAN]
  <2>1. (X \in nodes) \in BOOLEAN
    OBVIOUS
  <2> QED BY <2>1 DEF ReadNothing, ReadForPut, ReadForDelete, IInv, TypeOK
<1>4. UNCHANGED <<store, holder, request, bounds>>
  BY DEF ReadNothing, ReadForPut, ReadForDelete
<1> QED BY <1>1, <1>2, <1>3, <1>4, MoveKeepsIInv DEF IInv, TypeOK, Phases, store, bounds

LEMMA WriteKeeps ==
    ASSUME IInv, NEW a \in Attempts, InsertRow(a) \/ UpdateRow(a) \/ DeleteRow(a)
    PROVE  IInv'
<1>1. phase[a] = "write" /\ holder = NoAttempt /\ NoAttempt # a
  BY IdempotencyAssumption DEF InsertRow, UpdateRow, DeleteRow
<1>2. \/ Moves(a, "answered") /\ holder' = NoAttempt
      \/ Moves(a, "append") /\ (holder' = a \/ (holder' = NoAttempt /\ EarlyCommit))
  <2>1. Answer(404, a) \in Answers /\ Answer(400, a) \in Answers
    BY AnswersAreTyped DEF Statuses
  <2> QED BY <1>1, <2>1, ReplyingIsMoving, GoingIsMoving
          DEF InsertRow, UpdateRow, DeleteRow, IInv, Phases
<1>3. /\ UNCHANGED <<enabled, stored, request, sees, bounds>>
      /\ nodes' \subseteq Attempts \cup {X} /\ committed' \subseteq Attempts
  BY DEF InsertRow, UpdateRow, DeleteRow, Target, IInv, TypeOK, store
<1> QED BY <1>1, <1>2, <1>3, MoveKeepsIInv DEF IInv, TypeOK, Phases, bounds

LEMMA AppendKeeps == ASSUME IInv, NEW a \in Attempts, Append(a) PROVE IInv'
<1>1. Moves(a, "finish")
  BY GoingIsMoving DEF Append, IInv, Phases
<1> QED BY <1>1, MoveKeepsIInv DEF Append, IInv, TypeOK, Phases, store, bounds

LEMMA FinishKeeps ==
    ASSUME IInv, NEW a \in Attempts, FinishKeyed(a) \/ FinishUnkeyed(a)
    PROVE  IInv'
<1>1. phase[a] = "finish" /\ holder = a /\ holder' = NoAttempt
  BY DEF FinishKeyed, FinishUnkeyed, Release
<1>2. \/ Moves(a, "answered")
      \/ Moves(a, "conflict") /\ Keyed(a)
      \/ Moves(a, "respond") /\ ~Keyed(a)
  <2>1. Answer(500, a) \in Answers /\ Answer(Status(a, Staged(a)), a) \in Answers
    BY AnswersAreTyped, StatusIsTyped DEF Statuses
  <2> QED BY <2>1, ReplyingIsMoving, GoingIsMoving DEF FinishKeyed, FinishUnkeyed, IInv, Phases
<1>3. stored' \in [Keys -> [op : Ops \cup {"none"}, answer : Answers]]
  <2>1. CASE FinishKeyed(a) /\ Save(a)
    <3>1. [op |-> request[a].op, answer |-> Answer(Status(a, Staged(a)), a)]
              \in [op : Ops \cup {"none"}, answer : Answers]
      BY AnswersAreTyped, StatusIsTyped DEF Statuses, IInv, TypeOK
    <3> QED BY <2>1, <3>1 DEF Save, IInv, TypeOK
  <2>2. CASE UNCHANGED stored
    BY <2>2 DEF IInv, TypeOK
  <2> QED BY <2>1, <2>2 DEF FinishKeyed, FinishUnkeyed
<1>4. nodes' \subseteq Attempts \cup {X} /\ committed' \subseteq Attempts
  BY StagedIsTyped DEF FinishKeyed, FinishUnkeyed, Save, IInv, TypeOK
<1>5. UNCHANGED <<enabled, request, sees, bounds>>
  BY DEF FinishKeyed, FinishUnkeyed
<1> QED BY <1>1, <1>2, <1>3, <1>4, <1>5, MoveKeepsIInv DEF IInv, TypeOK, Phases, bounds

LEMMA RespondKeeps == ASSUME IInv, NEW a \in Attempts, Respond(a) PROVE IInv'
<1>1. Moves(a, "answered")
  <2>1. Answer(Status(a, nodes), a) \in Answers
    BY AnswersAreTyped, StatusIsTyped DEF Statuses
  <2> QED BY <2>1, ReplyingIsMoving DEF Respond, IInv
<1> QED BY <1>1, MoveKeepsIInv DEF Respond, IInv, TypeOK, Phases, store, bounds

LEMMA FailKeeps == ASSUME IInv, NEW a \in Attempts, Fail(a) PROVE IInv'
<1>1. Moves(a, "answered") /\ phase[a] \notin {"new", "answered"}
  <2>1. Answer(500, a) \in Answers
    BY AnswersAreTyped DEF Statuses
  <2> QED BY <2>1, ReplyingIsMoving DEF Fail, Running, IInv
<1>2. \/ holder' = NoAttempt /\ holder \in {NoAttempt, a}
      \/ holder' = holder /\ holder # a
  BY DEF Fail, Release
<1>3. faults' \in 0..MaxFaults /\ UNCHANGED <<store, request, sees, toggles>>
  BY IdempotencyAssumption DEF Fail, IInv, TypeOK
<1> QED BY <1>1, <1>2, <1>3, MoveKeepsIInv DEF IInv, TypeOK, Phases, store

LEMMA RestartKeeps == ASSUME IInv, Restart PROVE IInv'
<1>1. TypeOK'
  BY IdempotencyAssumption DEF Restart, IInv, TypeOK, Phases, store, Running
<1>2. LocksAreHeld' /\ ThreadsAreInStep'
  BY DEF Restart, IInv, LocksAreHeld, ThreadsAreInStep, TypeOK, Running, Keyed, Key
<1> QED BY <1>1, <1>2 DEF IInv

LEMMA SetLockKeeps == ASSUME IInv, SetLock PROVE IInv'
BY IdempotencyAssumption DEF SetLock, IInv, TypeOK, LocksAreHeld, ThreadsAreInStep, Keyed, Key

LEMMA StepKeepsIInv == IInv /\ [Next]_vars => IInv'
<1> SUFFICES ASSUME IInv, [Next]_vars PROVE IInv'
  OBVIOUS
<1>1. CASE UNCHANGED vars
  BY <1>1 DEF vars, store, bounds, IInv, TypeOK, LocksAreHeld, ThreadsAreInStep, Keyed, Key
<1> QED
  BY <1>1, StartKeeps, LookupKeeps, ReadKeeps, WriteKeeps, AppendKeeps, FinishKeeps,
     RespondKeeps, FailKeeps, RestartKeeps, SetLockKeeps DEF Next, Step

LEMMA InitIInv == Init => IInv
BY IdempotencyAssumption DEF Init, IInv, TypeOK, LocksAreHeld, ThreadsAreInStep,
   NoRequest, NoAnswer, Answer, Unused, Answers, Statuses, Phases, Keyed, Key

(* Every variable keeps to its set: what is stored and answered is a status with the    *)
(* body of one attempt or of none, and the locks are nobody's or those of a thread that *)
(* is about to append or to finish.                                                 *)
THEOREM TypeCorrect == Spec => []TypeOK
<1>1. IInv => TypeOK
  BY DEF IInv
<1> QED BY InitIInv, StepKeepsIInv, <1>1, PTL DEF Spec
-----------------------------------------------------------------------------
(* One response for a key, and for ever.                                       *)

Response(a) == [op |-> request[a].op, answer |-> answer[a]]

LEMMA StoredOnce ==
    ASSUME IInv, [Next]_vars, NEW k \in Keys, stored'[k] # stored[k]
    PROVE  /\ stored[k] = Unused
           /\ \E a \in Attempts : FinishKeyed(a) /\ Save(a) /\ Key(a) = k
<1>1. PICK a \in Attempts : FinishKeyed(a)
  BY DEF Next, Step, vars, store, Start, Lookup, ReadNothing, ReadForPut, ReadForDelete, InsertRow,
         UpdateRow, DeleteRow, Append, Conflict, FinishUnkeyed, Respond, Fail, Restart, SetLock
<1>2. Save(a) /\ ~Taken(a)
  BY <1>1 DEF FinishKeyed
<1>3. Key(a) = k
  BY <1>2 DEF Save, IInv, TypeOK
<1> QED BY <1>1, <1>2, <1>3 DEF Taken

LEMMA ReplayAnswersWithTheStored ==
    ASSUME IInv, NEW a \in Attempts, Keyed(a), Replay(a), UNCHANGED <<stored, request>>,
           answer'[a].status \in {200, 201}
    PROVE  stored'[Key(a)'] = Response(a)'
<1>1. Key(a) \in Keys /\ Key(a)' = Key(a)
  BY DEF Key, Keyed, IInv, TypeOK
<1>2. CASE stored[Key(a)].op = request[a].op
  <2>1. answer'[a] = stored[Key(a)].answer
    BY <1>2 DEF Replay, Reply, IInv, TypeOK
  <2>2. stored[Key(a)] = [op |-> stored[Key(a)].op, answer |-> stored[Key(a)].answer]
    BY <1>1 DEF IInv, TypeOK
  <2> QED BY <1>1, <1>2, <2>1, <2>2 DEF Response
<1>3. CASE stored[Key(a)].op # request[a].op
  BY <1>3 DEF Replay, Reply, Answer, IInv, TypeOK
<1> QED BY <1>2, <1>3

(* Every success under a key is given by Save or by Replay.                     *)
LEMMA NewSuccessIsStored ==
    ASSUME IInv, [Next]_vars, NEW a \in Attempts, answer'[a] # answer[a],
           answer'[a].status \in {200, 201}, Keyed(a)'
    PROVE  stored'[Key(a)'] = Response(a)'
<1>1. \A b \in Attempts : \A r : Reply(b, r) => answer' = [answer EXCEPT ![b] = r]
  BY DEF Reply
<1>2. CASE Lookup(a) \/ Conflict(a)
  <2>1. Keyed(a) /\ Replay(a) /\ UNCHANGED <<stored, request>>
    BY <1>2 DEF Lookup, Conflict, GoTo, store, IInv, ThreadsAreInStep
  <2> QED BY <2>1, ReplayAnswersWithTheStored
<1>3. CASE FinishKeyed(a)
  <2>1. Save(a) /\ Reply(a, Answer(Status(a, Staged(a)), a)) /\ UNCHANGED request /\ Keyed(a)
    BY <1>3 DEF FinishKeyed, GoTo, Reply, Answer, IInv, TypeOK
  <2>2. Key(a) \in Keys /\ Key(a)' = Key(a)
    BY <2>1 DEF Key, Keyed, IInv, TypeOK
  <2>3. answer'[a] = Answer(Status(a, Staged(a)), a)
    BY <2>1 DEF Reply, IInv, TypeOK
  <2> QED BY <2>1, <2>2, <2>3 DEF Save, Response, IInv, TypeOK
<1>4. CASE Respond(a)
  BY <1>4 DEF Respond, IInv, ThreadsAreInStep, Keyed, Key
<1>5. CASE Start(a) \/ ReadForDelete(a) \/ InsertRow(a) \/ DeleteRow(a) \/ Fail(a)
  BY <1>5 DEF Start, ReadForDelete, InsertRow, DeleteRow, Fail, Reply, GoTo, Answer, IInv, TypeOK
<1>6. CASE Restart \/ SetLock \/ UNCHANGED vars
  BY <1>6 DEF Restart, SetLock, vars
<1>7. CASE ReadNothing(a) \/ ReadForPut(a) \/ UpdateRow(a) \/ Append(a) \/ FinishUnkeyed(a)
  BY <1>7 DEF ReadNothing, ReadForPut, UpdateRow, Append, FinishUnkeyed, GoTo
<1>8. CASE \E b \in Attempts \ {a} : Start(b) \/ Step(b) \/ Fail(b)
  BY <1>8 DEF Start, Step, Fail, Lookup, ReadNothing, ReadForPut, ReadForDelete, InsertRow,
         UpdateRow, DeleteRow, Append, FinishKeyed, Conflict, FinishUnkeyed, Respond, GoTo, Reply,
         Replay, IInv, TypeOK
<1> QED BY <1>2, <1>3, <1>4, <1>5, <1>6, <1>7, <1>8 DEF Next, Step

LEMMA StepKeepsSuccesses ==
    IInv /\ SuccessIsTheStoredOne /\ [Next]_vars => SuccessIsTheStoredOne'
<1> SUFFICES ASSUME IInv, SuccessIsTheStoredOne, [Next]_vars,
                    NEW a \in Attempts, Keyed(a)', answer'[a].status \in {200, 201}
             PROVE  stored'[Key(a)'] = Response(a)'
  BY DEF SuccessIsTheStoredOne, Succeeded, Response
<1>1. CASE answer'[a] # answer[a]
  BY <1>1, NewSuccessIsStored
<1>2. CASE answer'[a] = answer[a]
  <2>1. phase[a] = "answered"
    BY <1>2 DEF IInv, ThreadsAreInStep, NoAnswer, Answer
  <2>2. request'[a] = request[a]
    BY <2>1 DEF Next, Step, vars, Start, Lookup, ReadNothing, ReadForPut, ReadForDelete, InsertRow,
         UpdateRow, DeleteRow, Append, FinishKeyed, Conflict, FinishUnkeyed, Respond, Fail, Restart,
         SetLock, IInv, TypeOK
  <2>3. Key(a) \in Keys /\ Key(a)' = Key(a) /\ Keyed(a)
    BY <2>2 DEF Key, Keyed, IInv, TypeOK
  <2>4. stored[Key(a)] = Response(a)
    BY <1>2, <2>3 DEF SuccessIsTheStoredOne, Succeeded, Response
  <2>5. stored[Key(a)] # Unused
    BY <1>2, <2>4 DEF Response, Unused, NoAnswer, Answer
  <2> QED BY <1>2, <2>2, <2>3, <2>4, <2>5, StoredOnce DEF Response
<1> QED BY <1>1, <1>2

(* Whatever overlaps, fails or is repeated, and whether or not an INSERT commits  *)
(* early: every success under a key is the one response stored for it.            *)
THEOREM OneResponsePerKey == Spec => []SuccessIsTheStoredOne
<1>1. Init => SuccessIsTheStoredOne
  BY DEF Init, SuccessIsTheStoredOne, Succeeded, NoAnswer, Answer
<1> QED BY InitIInv, StepKeepsIInv, <1>1, StepKeepsSuccesses, PTL DEF Spec
-----------------------------------------------------------------------------
(* One change for a key, and none for an error, where a transaction is one.      *)

CommittedAreDone == \A a \in committed : phase[a] \in {"respond", "answered", "lost"}

Deletions == {b \in committed : request[b].op = "delete"}

(* A row that a thread has seen or inserted goes only by a committed DELETE.      *)
RowsGoByDeletion ==
    \A a \in Attempts :
        /\ sees[a] /\ X \notin nodes => Deletions # {}
        /\ phase[a] = "respond" /\ request[a].op # "delete" /\ Target(a) \notin nodes
              => Deletions # {}

StrictIInv == IInv /\ CommittedAreDone /\ RowsGoByDeletion /\ OneChangePerKey /\ ErrorsChangeNothing

LEMMA RequestsStay ==
    ASSUME IInv, [Next]_vars, NEW a \in Attempts, phase[a] # "new"
    PROVE  request'[a] = request[a]
BY DEF Next, Step, vars, Start, Lookup, ReadNothing, ReadForPut, ReadForDelete, InsertRow,
       UpdateRow, DeleteRow, Append, FinishKeyed, Conflict, FinishUnkeyed, Respond, Fail, Restart,
       SetLock, IInv, TypeOK

(* Without EarlyCommit the last write of a thread is what commits its change.     *)
CommitsKeyed(a) ==
    /\ Keyed(a) /\ stored[Key(a)] = Unused /\ Save(a)
    /\ Status(a, Staged(a)) \in {200, 201}
    /\ answer'[a] = Answer(Status(a, Staged(a)), a)
    /\ phase' = [phase EXCEPT ![a] = "answered"]

CommitsUnkeyed(a) ==
    /\ ~Keyed(a) /\ UNCHANGED <<stored, answer>>
    /\ nodes' = Staged(a) /\ committed' = committed \cup {a}
    /\ phase' = [phase EXCEPT ![a] = "respond"]

LEMMA CommitsAtTheEnd ==
    ASSUME ~EarlyCommit, IInv, [Next]_vars
    PROVE  \/ UNCHANGED <<nodes, committed, stored>>
           \/ \E a \in Attempts : /\ phase[a] = "finish" /\ UNCHANGED <<request, sees>>
                                  /\ \A b \in Attempts \ {a} : answer'[b] = answer[b]
                                  /\ CommitsKeyed(a) \/ CommitsUnkeyed(a)
<1>1. ASSUME NEW a \in Attempts, FinishKeyed(a)
      PROVE  \/ UNCHANGED <<nodes, committed, stored>>
             \/ CommitsKeyed(a) /\ \A b \in Attempts \ {a} : answer'[b] = answer[b]
  BY <1>1, StatusIsTyped DEF FinishKeyed, CommitsKeyed, Taken, Reply, IInv, TypeOK
<1>2. ASSUME NEW a \in Attempts, FinishUnkeyed(a)
      PROVE  CommitsUnkeyed(a) /\ UNCHANGED answer
  BY <1>2 DEF FinishUnkeyed, CommitsUnkeyed, GoTo
<1>3. ASSUME NEW a \in Attempts, FinishKeyed(a) \/ FinishUnkeyed(a)
      PROVE  phase[a] = "finish" /\ UNCHANGED <<request, sees>>
  BY <1>3 DEF FinishKeyed, FinishUnkeyed
<1>4. \/ \E a \in Attempts : FinishKeyed(a) \/ FinishUnkeyed(a)
      \/ UNCHANGED <<nodes, committed, stored>>
  BY DEF Next, Step, vars, store, Start, Lookup, ReadNothing, ReadForPut, ReadForDelete, InsertRow,
         UpdateRow, DeleteRow, Append, Conflict, Respond, Fail, Restart, SetLock
<1> QED BY <1>1, <1>2, <1>3, <1>4

LEMMA StepKeepsCommittedAreDone ==
    ASSUME ~EarlyCommit, IInv, CommittedAreDone, [Next]_vars
    PROVE  CommittedAreDone'
<1>1. ASSUME NEW a \in Attempts, phase[a] \in {"respond", "answered", "lost"}
      PROVE  phase'[a] \in {"respond", "answered", "lost"}
  BY <1>1 DEF Next, Step, vars, Start, Lookup, ReadNothing, ReadForPut, ReadForDelete, InsertRow,
         UpdateRow, DeleteRow, Append, FinishKeyed, Conflict, FinishUnkeyed, Respond, Fail, Restart,
         SetLock, Running, GoTo, Reply, Replay, IInv, TypeOK
<1>2. committed \subseteq Attempts
  BY DEF IInv, TypeOK
<1> QED BY <1>1, <1>2, CommitsAtTheEnd
      DEF CommittedAreDone, CommitsKeyed, CommitsUnkeyed, Save, IInv, TypeOK

LEMMA StepKeepsOneChange ==
    ASSUME ~EarlyCommit, StrictIInv, [Next]_vars
    PROVE  OneChangePerKey'
<1> USE DEF StrictIInv
<1>1. \A a \in committed : a \in Attempts /\ request'[a] = request[a]
  BY RequestsStay DEF CommittedAreDone, IInv, TypeOK
<1>2. CASE UNCHANGED <<nodes, committed, stored>>
  BY <1>1, <1>2 DEF OneChangePerKey, Keyed, Key
<1>3. ASSUME NEW a \in Attempts, UNCHANGED request, CommitsKeyed(a)
      PROVE  OneChangePerKey'
  <2>1. Key(a) \in Keys /\ stored[Key(a)] = Unused /\ committed' = committed \cup {a}
    BY <1>3 DEF CommitsKeyed, Save, Key, Keyed, IInv, TypeOK
  <2>2. /\ stored'[Key(a)].answer.by = a
        /\ \A k \in Keys \ {Key(a)} : stored'[k] = stored[k]
    BY <1>3, <2>1 DEF CommitsKeyed, Save, Answer, IInv, TypeOK
  <2>3. ASSUME NEW b \in committed, Keyed(b) PROVE stored'[Key(b)].answer.by = b
    <3>1. Key(b) \in Keys /\ stored[Key(b)].answer.by = b /\ b # NoAttempt
      BY <2>3, IdempotencyAssumption DEF OneChangePerKey, Key, Keyed, IInv, TypeOK
    <3>2. Key(b) # Key(a)
      BY <2>1, <3>1 DEF Unused, NoAnswer, Answer
    <3> QED BY <2>2, <3>1, <3>2
  <2>4. ASSUME NEW k \in Keys, stored'[k] # Unused PROVE stored'[k].answer.by \in committed'
    BY <2>1, <2>2, <2>4 DEF OneChangePerKey
  <2> QED BY <1>3, <2>1, <2>2, <2>3, <2>4 DEF OneChangePerKey, Keyed, Key
<1>4. ASSUME NEW a \in Attempts, UNCHANGED request, CommitsUnkeyed(a)
      PROVE  OneChangePerKey'
  BY <1>4 DEF CommitsUnkeyed, OneChangePerKey, Keyed, Key
<1> QED BY <1>2, <1>3, <1>4, CommitsAtTheEnd

LEMMA DeletionsStay ==
    ASSUME ~EarlyCommit, StrictIInv, [Next]_vars
    PROVE  Deletions \subseteq Deletions'
<1>1. committed \subseteq committed'
  BY CommitsAtTheEnd DEF StrictIInv, CommitsKeyed, CommitsUnkeyed, Save
<1>2. \A b \in committed : request'[b] = request[b]
  BY RequestsStay DEF StrictIInv, CommittedAreDone, IInv, TypeOK
<1> QED BY <1>1, <1>2 DEF Deletions

LEMMA StepKeepsRowsGoByDeletion ==
    ASSUME ~EarlyCommit, StrictIInv, [Next]_vars
    PROVE  RowsGoByDeletion'
<1> USE DEF StrictIInv
<1>1. SUFFICES ASSUME Deletions' = {} PROVE RowsGoByDeletion'
  BY DEF RowsGoByDeletion
<1>2. Deletions = {}
  BY <1>1, DeletionsStay
<1>3. nodes \subseteq nodes'
  <2>1. ASSUME NEW a \in Attempts, committed' = committed \cup {a}, nodes' = Staged(a),
               UNCHANGED request
        PROVE  nodes \subseteq nodes'
    <3>1. request[a].op # "delete"
      BY <1>1, <2>1 DEF Deletions
    <3> QED BY <2>1, <3>1 DEF Staged
  <2> QED BY <2>1, CommitsAtTheEnd DEF CommitsKeyed, CommitsUnkeyed, Save
<1>4. ASSUME NEW a \in Attempts, sees'[a] PROVE X \in nodes'
  <2>1. CASE sees[a]
    BY <1>2, <1>3, <2>1 DEF RowsGoByDeletion
  <2>2. CASE ReadForPut(a)
    BY <1>4, <2>2, <1>3 DEF ReadForPut, store, IInv, TypeOK
  <2>3. sees[a] \/ ReadForPut(a)
    BY <1>4 DEF Next, Step, vars, Start, Lookup, ReadNothing, ReadForPut, ReadForDelete, InsertRow,
           UpdateRow, DeleteRow, Append, FinishKeyed, Conflict, FinishUnkeyed, Respond, Fail,
           Restart, SetLock, IInv, TypeOK
  <2> QED BY <2>1, <2>2, <2>3
<1>5. ASSUME NEW a \in Attempts, phase'[a] = "respond", request'[a].op # "delete"
      PROVE  Target(a)' \in nodes'
  <2>1. phase[a] # "new" /\ request'[a] = request[a] /\ Target(a)' = Target(a)
    <3>1. phase[a] # "new"
      BY <1>5 DEF Next, Step, vars, Start, Lookup, ReadNothing, ReadForPut, ReadForDelete,
             InsertRow, UpdateRow, DeleteRow, Append, FinishKeyed, Conflict, FinishUnkeyed, Respond,
             Fail, Restart, SetLock, GoTo, Reply, Replay, IInv, TypeOK
    <3> QED BY <3>1, RequestsStay DEF Target
  <2>2. CASE phase[a] = "respond"
    BY <1>2, <1>3, <1>5, <2>1, <2>2 DEF RowsGoByDeletion
  <2>3. CASE FinishUnkeyed(a)
    <3>1. nodes' = Staged(a)
      BY <2>3 DEF FinishUnkeyed
    <3>2. CASE Creates(a)
      BY <1>5, <2>1, <3>1, <3>2 DEF Staged
    <3>3. CASE ~Creates(a)
      <4>1. request[a].op = "put" /\ sees[a]
        BY <1>5, <2>1, <3>3 DEF Creates, IInv, TypeOK, ThreadsAreInStep, Ops
      <4>2. X \in nodes
        BY <1>2, <4>1 DEF RowsGoByDeletion
      <4> QED BY <1>3, <2>1, <4>1, <4>2 DEF Target
    <3> QED BY <3>2, <3>3
  <2>4. phase[a] = "respond" \/ FinishUnkeyed(a)
    BY <1>5 DEF Next, Step, vars, Start, Lookup, ReadNothing, ReadForPut, ReadForDelete,
           InsertRow, UpdateRow, DeleteRow, Append, FinishKeyed, Conflict, FinishUnkeyed, Respond,
           Fail, Restart, SetLock, GoTo, Reply, Replay, IInv, TypeOK
  <2> QED BY <2>2, <2>3, <2>4
<1> QED BY <1>4, <1>5 DEF RowsGoByDeletion

LEMMA StepKeepsErrorsChangeNothing ==
    ASSUME ~EarlyCommit, StrictIInv, [Next]_vars
    PROVE  ErrorsChangeNothing'
<1> USE DEF StrictIInv
<1> SUFFICES ASSUME NEW a \in committed', phase'[a] = "answered", ~Succeeded(a)'
             PROVE  /\ ~Keyed(a)' /\ answer'[a].status = 500
                    /\ \/ faults' > 0
                       \/ \E b \in committed' \ {a} : request'[b].op = "delete"
  BY DEF ErrorsChangeNothing
<1>1. a \in committed /\ a \in Attempts
  <2>1. a \in committed
    <3>1. ASSUME NEW b \in Attempts, CommitsKeyed(b) PROVE a # b /\ committed' = committed \cup {b}
      BY <3>1 DEF CommitsKeyed, Save, Succeeded, Answer
    <3>2. ASSUME NEW b \in Attempts, CommitsUnkeyed(b) PROVE a # b /\ committed' = committed \cup {b}
      BY <3>2 DEF CommitsUnkeyed, IInv, TypeOK
    <3> QED BY <3>1, <3>2, CommitsAtTheEnd
  <2> QED BY <2>1 DEF IInv, TypeOK
<1>2. phase[a] \in {"respond", "answered"} /\ request'[a] = request[a]
  <2>1. phase[a] \in {"respond", "answered", "lost"}
    BY <1>1 DEF CommittedAreDone
  <2>2. phase[a] # "lost"
    BY <1>1 DEF Next, Step, vars, Start, Lookup, ReadNothing, ReadForPut, ReadForDelete,
           InsertRow, UpdateRow, DeleteRow, Append, FinishKeyed, Conflict, FinishUnkeyed, Respond,
           Fail, Restart, SetLock, Running, GoTo, Reply, Replay, IInv, TypeOK
  <2> QED BY <1>1, <2>1, <2>2, RequestsStay
<1>3. faults \in Nat /\ faults' \in Nat /\ faults' >= faults
  BY StepKeepsIInv, IdempotencyAssumption
  DEF Next, Step, vars, bounds, Start, Lookup, ReadNothing, ReadForPut, ReadForDelete, InsertRow,
      UpdateRow, DeleteRow, Append, FinishKeyed, Conflict, FinishUnkeyed, Respond, Fail, Restart,
      SetLock, IInv, TypeOK
<1>4. CASE phase[a] = "answered"
  <2>1. answer'[a] = answer[a]
    BY <1>1, <1>4 DEF Next, Step, vars, Start, Lookup, ReadNothing, ReadForPut, ReadForDelete,
           InsertRow, UpdateRow, DeleteRow, Append, FinishKeyed, Conflict, FinishUnkeyed, Respond,
           Fail, Restart, SetLock, Running, GoTo, Reply, Replay, IInv, TypeOK
  <2>2. /\ ~Keyed(a) /\ answer[a].status = 500
        /\ faults > 0 \/ \E b \in committed \ {a} : request[b].op = "delete"
    BY <1>1, <1>4, <2>1 DEF ErrorsChangeNothing, Succeeded
  <2>3. (\E b \in committed \ {a} : request[b].op = "delete")
           => \E b \in committed' \ {a} : request'[b].op = "delete"
    BY DeletionsStay DEF Deletions
  <2> QED BY <1>2, <1>3, <2>1, <2>2, <2>3 DEF Keyed, Key
<1>5. CASE phase[a] = "respond"
  <2>1. ~Keyed(a)
    BY <1>1, <1>5 DEF IInv, ThreadsAreInStep
  <2>2. Respond(a) \/ Fail(a)
    BY <1>1, <1>5 DEF Next, Step, vars, Start, Lookup, ReadNothing, ReadForPut, ReadForDelete,
           InsertRow, UpdateRow, DeleteRow, Append, FinishKeyed, Conflict, FinishUnkeyed, Respond,
           Fail, Restart, SetLock, Running, GoTo, Reply, Replay, IInv, TypeOK
  <2>3. CASE Fail(a)
    BY <1>1, <1>2, <1>3, <2>1, <2>3 DEF Fail, Reply, Answer, Keyed, Key, IInv, TypeOK
  <2>4. CASE Respond(a)
    <3>1. answer'[a].status = Status(a, nodes)
      BY <1>1, <2>4 DEF Respond, Reply, Answer, IInv, TypeOK
    <3>2. Status(a, nodes) = 500 /\ request[a].op # "delete" /\ Target(a) \notin nodes
      BY <3>1, StatusIsTyped DEF Status, Succeeded
    <3>3. PICK b \in Deletions : TRUE
      BY <1>1, <1>5, <3>2 DEF RowsGoByDeletion
    <3>4. b \in committed' \ {a} /\ request'[b].op = "delete"
      BY <3>2, <3>3, DeletionsStay DEF Deletions
    <3> QED BY <1>2, <2>1, <3>1, <3>2, <3>4 DEF Keyed, Key
  <2> QED BY <2>2, <2>3, <2>4
<1> QED BY <1>2, <1>4, <1>5

LEMMA StepKeepsStrictIInv ==
    ASSUME ~EarlyCommit
    PROVE  StrictIInv /\ [Next]_vars => StrictIInv'
BY StepKeepsIInv, StepKeepsCommittedAreDone, StepKeepsRowsGoByDeletion, StepKeepsOneChange,
   StepKeepsErrorsChangeNothing DEF StrictIInv

LEMMA InitStrictIInv == Init => StrictIInv
BY InitIInv DEF Init, StrictIInv, CommittedAreDone, RowsGoByDeletion, OneChangePerKey,
                ErrorsChangeNothing, NoAnswer, Answer

(* A key has one change in the database, and has it exactly if its response is     *)
(* stored, whatever retries overlap and wherever the server stops; an engine        *)
(* whose savepoints commit is excepted.                                         *)
THEOREM OneChange ==
    ASSUME ~EarlyCommit
    PROVE  Spec => []OneChangePerKey
<1>1. StrictIInv => OneChangePerKey
  BY DEF StrictIInv
<1> QED BY InitStrictIInv, StepKeepsStrictIInv, <1>1, PTL DEF Spec

(* Nothing that is answered with an error has changed the database, but for          *)
(* requests without a key that are overtaken by a DELETE or fail after the commit.   *)
THEOREM ErrorsAreHarmless ==
    ASSUME ~EarlyCommit
    PROVE  Spec => []ErrorsChangeNothing
<1>1. StrictIInv => ErrorsChangeNothing
  BY DEF StrictIInv
<1> QED BY InitStrictIInv, StepKeepsStrictIInv, <1>1, PTL DEF Spec
=============================================================================
