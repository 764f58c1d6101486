--------------------------- MODULE ControlServer ---------------------------
(***************************************************************************)
(* The control server around its sessions: the acceptor, the sessions'     *)
(* strands on the io threads, the worker pool that decodes and handles     *)
(* posted event batches, the write actor of the database, the use of a     *)
(* registration token, and Stop, which takes all of it down.               *)
(*                                                                         *)
(* Each connection posts one batch: the registration of an agent with the  *)
(* token, then a heartbeat, as one stream of framed bytes that reaches the *)
(* session in one or two pieces.  The command stream of a session is       *)
(* ControlSession's; here a session is what Stop and the acceptor see.     *)
(***************************************************************************)
EXTENDS Integers, Sequences, FiniteSets, Functions, FrameCodec

CONSTANTS
  Connections,     \* TCP connections of agents, in the order of their numbers
  Agents,          \* agents, numbered as they first connect
  Workers,         \* threads of the pool
  IoThreads,       \* threads that run handlers, options_.io_threads
  MaxConnections,  \* options_.max_connections
  MaxUses,         \* max_uses of the token
  Cuts,            \* Cuts[c]: sizes the first piece of c's batch may have
  PiecesAtStop,    \* bound on the pieces of all batches when Stop is called
  Nil

ASSUME ServerConstants ==
  /\ Connections \cup Agents \subseteq Nat \ {0} /\ IoThreads \in Nat
  /\ MaxConnections \in Nat \ {0} /\ MaxUses \in Nat \ {0}
  /\ Cuts \in [Connections -> SUBSET Nat]
  /\ PiecesAtStop \in Nat
  /\ Nil \notin Agents \cup Connections

VARIABLES
  \* acceptor and list of sessions
  acceptor,    \* "armed", "idle", "closed"
  sessions,    \* sessions_
  phase,       \* phase[c]: "away", "knocking", "accepted", "open", "closed",
               \* "refused"
  \* a session, changed on its strand only
  owner,       \* the agent behind the connection
  pieces,      \* the pieces its batch comes in
  received,    \* how many of them the session has got
  pending,     \* pending_event_chunks
  hasError,    \* has_error
  answer,      \* status of the answer to the batch, 0 for none
  reading,     \* read_in_flight_
  marking,     \* offline_mark_in_flight_
  done,        \* the flag shared with the list of sessions
  inbox,       \* handlers posted to the strand
  current,     \* connection_by_agent_id_
  \* dispatcher and worker pool
  decoder,     \* buffer_ of the FrameDecoder
  pushed,      \* numbers of the pieces in the order they were decoded
  handled,     \* events of the batch that were accepted
  tasks,       \* tasks_: pairs of a connection and a number of a piece
  worker,      \* what each thread of the pool is at
  ran,         \* tasks that have returned
  poolRefused, \* pieces that were submitted to a stopping pool
  \* write actor and database
  writes,      \* write_queue_
  writing,     \* the write the actor is at, a set of at most one
  wrote,       \* wrote[j]: result of write j, "" before
  token,       \* status and use_count
  agents,      \* rows of table agents: "none", "online", "offline"
  stopper      \* Stop: where it is and what it holds

acceptVars == <<acceptor, sessions>>
peerVars == <<owner, pieces>>
sessionVars == <<phase, received, pending, hasError, answer, reading, marking, done>>
poolVars == <<decoder, pushed, handled, tasks, worker, ran, poolRefused>>
actorVars == <<writes, writing, wrote>>
dbVars == <<token, agents>>
vars == <<acceptVars, peerVars, sessionVars, inbox, current, poolVars, actorVars,
          dbVars, stopper>>

----------------------------------------------------------------------------
(* The batch: a payload of one byte stands for an event. *)
Event == [byte \in {1, 2} |-> IF byte = 1 THEN "register" ELSE "heartbeat"]

Batch == EncodeFrame(<<1>>) \o EncodeFrame(<<2>>)

Pieces(cut) ==
  CASE cut = 0 -> <<>>     \* an agent that has posted nothing
    [] cut \in 1..(Len(Batch) - 1) ->
         <<SubSeq(Batch, 1, cut), SubSeq(Batch, cut + 1, Len(Batch))>>
    [] OTHER -> <<Batch>>

Jobs == Connections \X (1..2)

Writes == [op : {"consume", "upsert", "offline"}, conn : Connections]

Write(op, c) == [op |-> op, conn |-> c]

Idle == [at |-> "idle", job |-> Nil, events |-> <<>>, failed |-> FALSE]

StopPoints ==
  <<"running", "closing", "waiting", "pool", "db", "stopped">>

Reached(point) ==
  LET Number(p) == CHOOSE i \in DOMAIN StopPoints : StopPoints[i] = p
  IN  Number(stopper.at) >= Number(point)

Stopping == Reached("closing")        \* stopping_
IoStopped == Reached("pool")          \* io_context_.stop() was called
PoolStopping == IoStopped             \* ControlWorkerPool::stopping_
ActorStopping == Reached("db")        \* write_actor_stopping_

TypeOK ==
  /\ acceptor \in {"armed", "idle", "closed"}
  /\ sessions \subseteq Connections
  /\ phase \in [Connections -> {"away", "knocking", "accepted", "open",
                                "closed", "refused"}]
  /\ owner \in [Connections -> Agents \cup {Nil}]
  /\ \A c \in Connections : received[c] \in 0..Len(pieces[c])
  /\ pending \in [Connections -> 0..2]
  /\ hasError \in [Connections -> BOOLEAN]
  /\ answer \in [Connections -> {0, 200, 400}]
  /\ reading \in [Connections -> BOOLEAN]
  /\ marking \in [Connections -> BOOLEAN]
  /\ done \in [Connections -> BOOLEAN]
  /\ \A c \in Connections :
       Range(inbox[c]) \subseteq
         {"accepted", "failed", "marked", "stop", "aborted"}
  /\ current \in [Agents -> Connections \cup {Nil}]
  /\ \A c \in Connections : pushed[c] \in Seq(1..2)
  /\ handled \in [Connections -> SUBSET {"register", "heartbeat"}]
  /\ tasks \in Seq(Jobs)
  /\ \A w \in Workers :
       worker[w].at \in {"idle", "lock", "events", "consume", "upsert", "ended"}
  /\ ran \subseteq Jobs /\ poolRefused \subseteq Jobs
  /\ writes \in Seq(Writes) /\ writing \subseteq Writes
  /\ wrote \in [Writes -> {"", "ok", "rejected", "failed", "stopped"}]
  /\ token \in [status : {"active", "consumed", "revoked"}, uses : Nat]
  /\ agents \in [Agents -> {"none", "online", "offline"}]
  /\ stopper.at \in Range(StopPoints)

Init ==
  /\ acceptor = "armed" /\ sessions = {}
  /\ phase = [c \in Connections |-> "away"]
  /\ owner = [c \in Connections |-> Nil]
  /\ pieces = [c \in Connections |-> <<>>]
  /\ received = [c \in Connections |-> 0]
  /\ pending = [c \in Connections |-> 0]
  /\ hasError = [c \in Connections |-> FALSE]
  /\ answer = [c \in Connections |-> 0]
  /\ reading = [c \in Connections |-> FALSE]
  /\ marking = [c \in Connections |-> FALSE]
  /\ done = [c \in Connections |-> FALSE]
  /\ inbox = [c \in Connections |-> <<>>]
  /\ current = [a \in Agents |-> Nil]
  /\ decoder = [c \in Connections |-> <<>>]
  /\ pushed = [c \in Connections |-> <<>>]
  /\ handled = [c \in Connections |-> {}]
  /\ tasks = <<>>
  /\ worker = [w \in Workers |-> Idle]
  /\ ran = {} /\ poolRefused = {}
  /\ writes = <<>> /\ writing = {}
  /\ wrote = [j \in Writes |-> ""]
  /\ token = [status |-> "active", uses |-> 0]
  /\ agents = [a \in Agents |-> "none"]
  /\ stopper = [at |-> "running", swept |-> {}, underway |-> {},
                timedOut |-> FALSE]

----------------------------------------------------------------------------
(* A handler posted to the strand of c; a stopped io_context runs none. *)
Post(c, handler) ==
  inbox' = IF IoStopped THEN inbox
           ELSE [inbox EXCEPT ![c] = Append(@, handler)]

(* The write actor.  SubmitWrite and SubmitWriteAsync differ in who waits: *)
(* a thread, or nobody, with the result posted to the strand of c.         *)
Submit(j) ==
  IF ActorStopping
  THEN wrote' = [wrote EXCEPT ![j] = "stopped"] /\ UNCHANGED <<writes, writing>>
  ELSE writes' = Append(writes, j) /\ UNCHANGED <<writing, wrote>>

ActorTake ==
  /\ writing = {} /\ writes # <<>>
  /\ writing' = {Head(writes)} /\ writes' = Tail(writes)
  /\ UNCHANGED <<acceptVars, peerVars, sessionVars, inbox, current, poolVars,
                 wrote, dbVars, stopper>>

ConsumeRegistrationTokenMutant(c) ==   \* as if checked by an earlier read
  /\ token' = [token EXCEPT
                 !.uses = @ + 1,
                 !.status = IF token.uses + 1 >= MaxUses THEN "consumed" ELSE @]
  /\ wrote' = [wrote EXCEPT ![Write("consume", c)] = "ok"]

(* One UPDATE with the conditions in its WHERE. *)
ConsumeRegistrationToken(c) ==
  IF token.status = "active" /\ token.uses < MaxUses
  THEN /\ token' = [token EXCEPT
                      !.uses = @ + 1,
                      !.status = IF token.uses + 1 >= MaxUses
                                 THEN "consumed" ELSE @]
       /\ wrote' = [wrote EXCEPT ![Write("consume", c)] = "ok"]
  ELSE /\ wrote' = [wrote EXCEPT ![Write("consume", c)] = "rejected"]
       /\ UNCHANGED token

(* The end of task.run: the transaction, or the exception that rolled it   *)
(* back, and the answer.                                                   *)
ActorRun ==
  \E j \in writing :
    /\ writing' = {}
    /\ \/ /\ j.op = "consume"
          /\ ConsumeRegistrationToken(j.conn) /\ UNCHANGED agents
       \/ /\ j.op # "consume"
          /\ agents' = [agents EXCEPT ![owner[j.conn]] =
                          IF j.op = "upsert" THEN "online" ELSE "offline"]
          /\ wrote' = [wrote EXCEPT ![j] = "ok"] /\ UNCHANGED token
       \/ wrote' = [wrote EXCEPT ![j] = "failed"] /\ UNCHANGED dbVars
    /\ IF j.op = "offline" THEN Post(j.conn, "marked") ELSE UNCHANGED inbox
    /\ UNCHANGED <<acceptVars, peerVars, sessionVars, current, poolVars,
                   writes, stopper>>

(* RevokeRegistrationToken, of which only the effect is modelled; that     *)
(* expires_at passes has the same one.                                     *)
Revoke ==
  /\ token.status = "active" /\ ~ActorStopping
  /\ token' = [token EXCEPT !.status = "revoked"]
  /\ UNCHANGED <<acceptVars, peerVars, sessionVars, inbox, current, poolVars,
                 actorVars, agents, stopper>>

----------------------------------------------------------------------------
(* The worker pool and the dispatcher of a batch. *)
ConnOf(w) == worker[w].job[1]

HoldsMutant(w, c) ==   \* a worker has the mutex before it asks for it
  worker[w].at \in {"lock", "events", "consume", "upsert"} /\ ConnOf(w) = c

Holds(w, c) ==   \* dispatcher_mutex
  worker[w].at \in {"events", "consume", "upsert"} /\ ConnOf(w) = c

(* RunWorker takes the front of the queue. *)
WorkerTake(w) ==
  /\ worker[w].at = "idle" /\ tasks # <<>>
  /\ worker' = [worker EXCEPT ![w] = [Idle EXCEPT !.at = "lock",
                                                 !.job = Head(tasks)]]
  /\ tasks' = Tail(tasks)
  /\ UNCHANGED <<acceptVars, peerVars, sessionVars, inbox, current, decoder,
                 pushed, handled, ran, poolRefused, actorVars, dbVars, stopper>>

(* PushEventBytes up to its loop: a frame too long or a payload that does  *)
(* not decode fails the piece and drops the frames taken with it.          *)
WorkerDecode(w) ==
  LET c == ConnOf(w)
      result == Push(decoder[c], pieces[c][worker[w].job[2]])
      failed == result.failed
                  \/ \E frame \in Range(result.frames) :
                       Len(frame) # 1 \/ frame[1] \notin DOMAIN Event
  IN  /\ worker[w].at = "lock"
      /\ ~ \E v \in Workers : Holds(v, c)
      /\ decoder' = [decoder EXCEPT ![c] = result.buffer]
      /\ pushed' = [pushed EXCEPT ![c] = Append(@, worker[w].job[2])]
      /\ worker' = [worker EXCEPT ![w].at = "events",
                                  ![w].failed = failed,
                                  ![w].events =
           IF failed THEN <<>>
           ELSE [i \in DOMAIN result.frames |-> Event[result.frames[i][1]]]]
      /\ UNCHANGED <<acceptVars, peerVars, sessionVars, inbox, current,
                     handled, tasks, ran, poolRefused, actorVars, dbVars,
                     stopper>>

(* The next event of the loop has a result; c becomes the agent's          *)
(* connection when the event was accepted.                                 *)
EventDone(w, accepted) ==
  LET c == ConnOf(w)
  IN  /\ worker' = [worker EXCEPT ![w].at = "events",
                                  ![w].failed = @ \/ ~accepted,
                                  ![w].events = Tail(@)]
      /\ IF accepted
         THEN /\ handled' = [handled EXCEPT ![c] =
                               @ \cup {Head(worker[w].events)}]
              /\ current' = [current EXCEPT ![owner[c]] = c]
         ELSE UNCHANGED <<handled, current>>

(* HandleHeartbeat, or HandleRegister up to its first write. *)
WorkerEvent(w) ==
  LET c == ConnOf(w)
      known == agents[owner[c]] # "none"
      write == IF known THEN "upsert" ELSE "consume"
  IN  /\ worker[w].at = "events" /\ worker[w].events # <<>>
      /\ IF Head(worker[w].events) = "heartbeat"
         THEN EventDone(w, known) /\ UNCHANGED actorVars
         ELSE /\ worker' = [worker EXCEPT ![w].at = write]
              /\ Submit(Write(write, c))
              /\ UNCHANGED <<handled, current>>
      /\ UNCHANGED <<acceptVars, peerVars, sessionVars, inbox, decoder, pushed,
                     tasks, ran, poolRefused, dbVars, stopper>>

(* HandleRegister has the token's answer. *)
WorkerConsumed(w) ==
  LET c == ConnOf(w)
      result == wrote[Write("consume", c)]
  IN  /\ worker[w].at = "consume" /\ result # ""
      /\ IF result = "ok"
         THEN /\ worker' = [worker EXCEPT ![w].at = "upsert"]
              /\ Submit(Write("upsert", c))
              /\ UNCHANGED <<handled, current>>
         ELSE EventDone(w, FALSE) /\ UNCHANGED actorVars
      /\ UNCHANGED <<acceptVars, peerVars, sessionVars, inbox, decoder, pushed,
                     tasks, ran, poolRefused, dbVars, stopper>>

(* UpsertAgent is through; RecordAcceptedEvent binds the connection. *)
WorkerUpserted(w) ==
  LET result == wrote[Write("upsert", ConnOf(w))]
  IN  /\ worker[w].at = "upsert" /\ result # ""
      /\ EventDone(w, result = "ok")
      /\ UNCHANGED <<acceptVars, peerVars, sessionVars, inbox, decoder, pushed,
                     tasks, ran, poolRefused, actorVars, dbVars, stopper>>

(* The task returns, with the results posted to the strand of the session. *)
WorkerFinish(w) ==
  /\ worker[w].at = "events" /\ worker[w].events = <<>>
  /\ worker' = [worker EXCEPT ![w] = Idle]
  /\ ran' = ran \cup {worker[w].job}
  /\ Post(ConnOf(w), IF worker[w].failed THEN "failed" ELSE "accepted")
  /\ UNCHANGED <<acceptVars, peerVars, sessionVars, current, decoder, pushed,
                 handled, tasks, poolRefused, actorVars, dbVars, stopper>>

WorkerEndMutant(w) ==   \* the flag is looked at before the queue
  /\ worker[w].at = "idle" /\ PoolStopping
  /\ worker' = [worker EXCEPT ![w].at = "ended"]
  /\ UNCHANGED <<acceptVars, peerVars, sessionVars, inbox, current, decoder,
                 pushed, handled, tasks, ran, poolRefused, actorVars, dbVars,
                 stopper>>

WorkerEnd(w) ==
  /\ worker[w].at = "idle" /\ tasks = <<>> /\ PoolStopping
  /\ worker' = [worker EXCEPT ![w].at = "ended"]
  /\ UNCHANGED <<acceptVars, peerVars, sessionVars, inbox, current, decoder,
                 pushed, handled, tasks, ran, poolRefused, actorVars, dbVars,
                 stopper>>

WorkerStep(w) ==
  \/ WorkerTake(w) \/ WorkerDecode(w) \/ WorkerEvent(w)
  \/ WorkerConsumed(w) \/ WorkerUpserted(w) \/ WorkerFinish(w) \/ WorkerEnd(w)

----------------------------------------------------------------------------
PiecesInAll ==
  FoldFunction(LAMBDA batch, n : n + Len(batch), 0, pieces)

(* The acceptor.  An agent connects with its batch, cut where the network  *)
(* cuts it.                                                                *)
Connect(c) ==
  /\ phase[c] = "away" /\ acceptor # "closed"
  /\ \A d \in Connections : d < c => phase[d] # "away"
  /\ phase' = [phase EXCEPT ![c] = "knocking"]
  /\ \E a \in Agents :
       /\ \A b \in Agents : b < a => \E d \in Connections : owner[d] = b
       /\ owner' = [owner EXCEPT ![c] = a]
  /\ \E cut \in Cuts[c] : pieces' = [pieces EXCEPT ![c] = Pieces(cut)]
  /\ Stopping => PiecesInAll' <= PiecesAtStop
  /\ UNCHANGED <<acceptVars, received, pending, hasError, answer, reading,
                 marking, done, inbox, current, poolVars, actorVars, dbVars,
                 stopper>>

(* async_accept completes, and its handler is posted to the accept strand; *)
(* from here on, closing the acceptor cannot call it back.                 *)
CompleteAccept(c) ==
  /\ acceptor = "armed" /\ phase[c] = "knocking" /\ ~IoStopped
  /\ acceptor' = "idle"
  /\ phase' = [phase EXCEPT ![c] = "accepted"]
  /\ UNCHANGED <<sessions, peerVars, received, pending, hasError, answer,
                 reading, marking, done, inbox, current, poolVars, actorVars,
                 dbVars, stopper>>

(* Its handler: ReapFinishedSessions, then the connection is refused, or   *)
(* its session is listed and started, stop or no stop, and the acceptor is *)
(* armed again unless it is closed or the server stops.                    *)
Accept(c) ==
  LET living == {s \in sessions : ~done[s]}
      full == Cardinality(living) >= MaxConnections
  IN  /\ phase[c] = "accepted" /\ ~IoStopped
      /\ phase' = [phase EXCEPT ![c] = IF full THEN "refused" ELSE "open"]
      /\ sessions' = IF full THEN living ELSE living \cup {c}
      /\ reading' = [reading EXCEPT ![c] = ~full]
      /\ acceptor' = IF Stopping \/ acceptor = "closed" THEN acceptor ELSE "armed"
      /\ UNCHANGED <<peerVars, received, pending, hasError, answer, marking,
                     done, inbox, current, poolVars, actorVars, dbVars, stopper>>

----------------------------------------------------------------------------
(* A session, one handler of its strand per action. *)
AllReceived(c) == received[c] = Len(pieces[c])   \* end_stream_received

(* TrySubmitEventResponse, with the counts as the handler leaves them. *)
AnswerMutant(c, all, left, error) ==   \* does not wait for the pieces
  IF answer[c] = 0 /\ all THEN IF error THEN 400 ELSE 200 ELSE answer[c]

Answer(c, all, left, error) ==
  IF answer[c] = 0 /\ all /\ left = 0
  THEN IF error THEN 400 ELSE 200
  ELSE answer[c]

OnDataMutant(c) ==   \* counts the end of the stream as a piece
  LET piece == received[c] + 1
      left == pending[c] + (IF piece = Len(pieces[c]) THEN 2 ELSE 1)
  IN  /\ phase[c] = "open" /\ ~AllReceived(c) /\ ~IoStopped
      /\ received' = [received EXCEPT ![c] = piece]
      /\ pending' = [pending EXCEPT ![c] = left]
      /\ tasks' = Append(tasks, <<c, piece>>)
      /\ UNCHANGED <<acceptVars, peerVars, phase, hasError, answer, reading,
                     marking, done, inbox, current, decoder, pushed, handled,
                     worker, ran, poolRefused, actorVars, dbVars, stopper>>

(* OnDataChunkRecvCallback, and OnFrameRecvCallback after the last piece.  *)
(* A handler under way when the io stops goes on to its end.               *)
OnData(c) ==
  LET piece == received[c] + 1
      left == pending[c] + (IF PoolStopping THEN 0 ELSE 1)
      error == hasError[c] \/ PoolStopping
  IN  /\ phase[c] = "open" /\ ~AllReceived(c)
      /\ IoStopped => c \in stopper.underway
      /\ received' = [received EXCEPT ![c] = piece]
      /\ pending' = [pending EXCEPT ![c] = left]
      /\ hasError' = [hasError EXCEPT ![c] = error]
      /\ IF PoolStopping
         THEN /\ poolRefused' = poolRefused \cup {<<c, piece>>}
              /\ Post(c, "failed") /\ UNCHANGED tasks
         ELSE /\ tasks' = Append(tasks, <<c, piece>>)
              /\ UNCHANGED <<poolRefused, inbox>>
      /\ answer' = [answer EXCEPT ![c] =
                      Answer(c, piece = Len(pieces[c]), left, error)]
      /\ stopper' = [stopper EXCEPT !.underway = @ \ {c}]
      /\ UNCHANGED <<acceptVars, peerVars, phase, reading, marking, done,
                     current, decoder, pushed, handled, worker, ran, actorVars,
                     dbVars>>

DoneMutant(c, stillReading, stillMarking) ==   \* does not wait for the mark
  done' = [done EXCEPT ![c] = @ \/ ~stillReading]

(* MaybeMarkDone of a closed session. *)
Done(c, stillReading, stillMarking) ==
  done' = [done EXCEPT ![c] = @ \/ (~stillReading /\ ~stillMarking)]

(* Close, with what is left of the strand's queue: a read in flight is     *)
(* cancelled, which posts its handler, and the agent is marked offline if  *)
(* this is its connection.                                                 *)
Close(c, stillReading, rest) ==
  LET wasCurrent == current[owner[c]] = c
  IN  /\ phase' = [phase EXCEPT ![c] = "closed"]
      /\ reading' = [reading EXCEPT ![c] = stillReading]
      /\ inbox' = [inbox EXCEPT ![c] =
                     rest \o (IF stillReading THEN <<"aborted">> ELSE <<>>)]
      /\ marking' = [marking EXCEPT ![c] = wasCurrent]
      /\ current' = [current EXCEPT ![owner[c]] = IF wasCurrent THEN Nil ELSE @]
      /\ Done(c, stillReading, wasCurrent)
      /\ IF wasCurrent THEN Submit(Write("offline", c)) ELSE UNCHANGED actorVars

(* OnRead with the end of the connection or an error. *)
OnEof(c) ==
  /\ phase[c] = "open" /\ ~IoStopped
  /\ Close(c, FALSE, inbox[c])
  /\ UNCHANGED <<acceptVars, peerVars, received, pending, hasError, answer,
                 poolVars, dbVars, stopper>>

(* The completion of a piece. *)
OnPieceDone(c) ==
  LET left == IF pending[c] > 0 THEN pending[c] - 1 ELSE 0
      error == hasError[c] \/ Head(inbox[c]) = "failed"
  IN  /\ ~IoStopped /\ inbox[c] # <<>>
      /\ Head(inbox[c]) \in {"accepted", "failed"}
      /\ inbox' = [inbox EXCEPT ![c] = Tail(@)]
      /\ IF phase[c] = "closed"
         THEN UNCHANGED <<pending, hasError, answer>>
         ELSE /\ pending' = [pending EXCEPT ![c] = left]
              /\ hasError' = [hasError EXCEPT ![c] = error]
              /\ answer' = [answer EXCEPT ![c] =
                              Answer(c, AllReceived(c), left, error)]
      /\ UNCHANGED <<acceptVars, peerVars, phase, received, reading, marking,
                     done, current, poolVars, actorVars, dbVars, stopper>>

OnMarkedMutant(c) ==   \* the completion does not look whether c is done
  /\ ~IoStopped /\ inbox[c] # <<>> /\ Head(inbox[c]) = "marked"
  /\ inbox' = [inbox EXCEPT ![c] = Tail(@)]
  /\ marking' = [marking EXCEPT ![c] = FALSE]
  /\ UNCHANGED <<acceptVars, peerVars, phase, received, pending, hasError,
                 answer, reading, done, current, poolVars, actorVars, dbVars,
                 stopper>>

(* The completion of AsyncMarkAgentOffline. *)
OnMarked(c) ==
  /\ ~IoStopped /\ inbox[c] # <<>> /\ Head(inbox[c]) = "marked"
  /\ inbox' = [inbox EXCEPT ![c] = Tail(@)]
  /\ marking' = [marking EXCEPT ![c] = FALSE]
  /\ Done(c, reading[c], FALSE)
  /\ UNCHANGED <<acceptVars, peerVars, phase, received, pending, hasError,
                 answer, reading, current, poolVars, actorVars, dbVars, stopper>>

(* OnRead of the read that Close cancelled. *)
OnAborted(c) ==
  /\ ~IoStopped /\ inbox[c] # <<>> /\ Head(inbox[c]) = "aborted"
  /\ inbox' = [inbox EXCEPT ![c] = Tail(@)]
  /\ reading' = [reading EXCEPT ![c] = FALSE]
  /\ Done(c, FALSE, marking[c])
  /\ UNCHANGED <<acceptVars, peerVars, phase, received, pending, hasError,
                 answer, marking, current, poolVars, actorVars, dbVars, stopper>>

(* What Http2Session::Stop posted. *)
OnStop(c) ==
  /\ ~IoStopped /\ inbox[c] # <<>> /\ Head(inbox[c]) = "stop"
  /\ IF phase[c] = "closed"
     THEN /\ inbox' = [inbox EXCEPT ![c] = Tail(@)]
          /\ UNCHANGED <<phase, reading, marking, done, current, actorVars>>
     ELSE Close(c, TRUE, Tail(inbox[c]))
  /\ UNCHANGED <<acceptVars, peerVars, received, pending, hasError, answer,
                 poolVars, dbVars, stopper>>

OnPosted(c) == OnPieceDone(c) \/ OnMarked(c) \/ OnAborted(c) \/ OnStop(c)

----------------------------------------------------------------------------
(* Stop of the server, then of the database it works on. *)
StopBegin ==
  /\ stopper.at = "running"
  /\ PiecesInAll <= PiecesAtStop
  /\ stopper' = [stopper EXCEPT !.at = "closing"]
  /\ UNCHANGED <<acceptVars, peerVars, sessionVars, inbox, current, poolVars,
                 actorVars, dbVars>>

(* The handler posted to the accept strand. *)
CloseAcceptor ==
  /\ Stopping /\ ~IoStopped /\ acceptor \in {"armed", "idle"}
  /\ acceptor' = "closed"
  /\ UNCHANGED <<sessions, peerVars, sessionVars, inbox, current,
                 poolVars, actorVars, dbVars, stopper>>

(* The acceptor is closed, or two seconds are over; the sessions are taken *)
(* out of the list and told to stop.                                       *)
StopSessions ==
  /\ stopper.at = "closing"
  /\ \E late \in BOOLEAN :
       /\ late = (acceptor # "closed")
       /\ stopper' = [stopper EXCEPT !.at = "waiting", !.swept = sessions,
                                     !.timedOut = late]
  /\ sessions' = {}
  /\ inbox' = [c \in Connections |->
                 IF c \in sessions THEN Append(inbox[c], "stop") ELSE inbox[c]]
  /\ UNCHANGED <<acceptor, peerVars, sessionVars, current, poolVars,
                 actorVars, dbVars>>

(* They are done, or two seconds are over: io_context_.stop(), and         *)
(* ControlWorkerPool::Stop up to its joins.  Handlers that have begun end. *)
StopPool ==
  /\ stopper.at = "waiting"
  /\ \E late \in BOOLEAN,
        underway \in SUBSET {c \in Connections :
                               phase[c] = "open" /\ ~AllReceived(c)} :
       /\ late = (\E c \in stopper.swept : ~done[c])
       /\ Cardinality(underway) <= IoThreads
       /\ stopper' = [stopper EXCEPT !.at = "pool", !.swept = {},
                                     !.underway = underway,
                                     !.timedOut = @ \/ late]
  /\ UNCHANGED <<acceptVars, peerVars, sessionVars, inbox, current, poolVars,
                 actorVars, dbVars>>

(* The threads are joined; ServerDatabase::Stop up to its join. *)
StopDatabase ==
  /\ stopper.at = "pool" /\ stopper.underway = {}
  /\ \A w \in Workers : worker[w].at = "ended"
  /\ stopper' = [stopper EXCEPT !.at = "db"]
  /\ UNCHANGED <<acceptVars, peerVars, sessionVars, inbox, current, poolVars,
                 actorVars, dbVars>>

ActorEndMutant ==   \* the flag is looked at before the queue
  /\ stopper.at = "db" /\ writing = {}
  /\ stopper' = [stopper EXCEPT !.at = "stopped"]
  /\ UNCHANGED <<acceptVars, peerVars, sessionVars, inbox, current, poolVars,
                 actorVars, dbVars>>

(* RunWriteActor returns when its queue is empty. *)
ActorEnd ==
  /\ stopper.at = "db" /\ writing = {} /\ writes = <<>>
  /\ stopper' = [stopper EXCEPT !.at = "stopped"]
  /\ UNCHANGED <<acceptVars, peerVars, sessionVars, inbox, current, poolVars,
                 actorVars, dbVars>>

StopThread == StopSessions \/ StopPool \/ StopDatabase

----------------------------------------------------------------------------
Next ==
  \/ \E c \in Connections :
       \/ Connect(c) \/ CompleteAccept(c) \/ Accept(c)
       \/ OnData(c) \/ OnEof(c) \/ OnPosted(c)
  \/ \E w \in Workers : WorkerStep(w)
  \/ ActorTake \/ ActorRun \/ ActorEnd \/ Revoke
  \/ StopBegin \/ CloseAcceptor \/ StopThread

(* Handlers that are due: those of accepts, those posted, and, when the io *)
(* stops, those that have begun.                                           *)
IoStep ==
  \/ CloseAcceptor
  \/ \E c \in Connections :
       \/ CompleteAccept(c) \/ Accept(c) \/ OnPosted(c)
       \/ c \in stopper.underway /\ OnData(c)

(* The threads go on while there is something to do.  Agents and the       *)
(* administrator need not do anything, and Stop need not be called.        *)
Fairness ==
  /\ WF_vars(IoStep)
  /\ WF_vars(\E w \in Workers : WorkerStep(w))
  /\ WF_vars(ActorTake \/ ActorRun \/ ActorEnd)
  /\ WF_vars(StopThread)

Spec == Init /\ [][Next]_vars /\ Fairness

----------------------------------------------------------------------------
(* Agents that race for the last use of a token, or against its revocation *)
(* or its end, cannot use it more often than it allows: every use counted  *)
(* is one the write actor granted, and no agent gets a row without one,    *)
(* however the two writes of HandleRegister interleave.                    *)
RegistrationPaid ==
  LET granted == {c \in Connections : wrote[Write("consume", c)] = "ok"}
  IN  /\ token.uses = Cardinality(granted) /\ token.uses <= MaxUses
      /\ \A a \in Agents : agents[a] # "none" => \E c \in granted : owner[c] = a

InOrder(c) == \A i \in DOMAIN pushed[c] : pushed[c][i] = i

(* The answer to a batch waits for all its pieces, which several threads   *)
(* of the pool may be at, or a stopping pool may have refused.             *)
AnswerWaits ==
  \A c \in Connections : answer[c] # 0 =>
    \A i \in DOMAIN pieces[c] : <<c, i>> \in ran \cup poolRefused

(* The answer does so, and for pieces decoded in order 200 says that each  *)
(* event was handled.                                                      *)
AnswerTruthful ==
  /\ AnswerWaits
  /\ \A c \in Connections :
       answer[c] = 200 /\ InOrder(c) => handled[c] = {"register", "heartbeat"}

(* When Stop got past both its waits in time, every session is over, with  *)
(* its offline mark, except at most one that Stop never saw: an accept     *)
(* that had completed when the acceptor was closed still lists and starts  *)
(* its session when the list has been swept, and its handler does not look *)
(* at stopping_.  It is the last one, as the handler arms no other accept. *)
CleanStop ==
  IoStopped /\ ~stopper.timedOut =>
    /\ Cardinality(sessions) <= 1
    /\ \A c \in Connections \ sessions :
         /\ phase[c] # "open"
         /\ Write("offline", c) \notin Range(writes) \cup writing

(* A batch answered with 200 was handled, as the dispatcher's tests have   *)
(* it for partial input.                                                   *)
AcceptedMeansHandled ==
  \A c \in Connections : answer[c] = 200 => handled[c] = {"register", "heartbeat"}

(* The worker pool keeps the promise of a work queue: what a session has   *)
(* handed in is done once, and before Stop's join returns.                 *)
Pool == INSTANCE WorkQueue WITH
  Threads <- Workers,
  queue <- tasks,
  running <- [w \in Workers |-> IF worker[w].at \in {"idle", "ended"} THEN {}
                                ELSE {worker[w].job}],
  finished <- ran,
  refused <- poolRefused,
  ended <- {w \in Workers : worker[w].at = "ended"},
  stopping <- PoolStopping

PoolSpec == Pool!Spec

(* So does the write actor: a write is run once or refused, and none that  *)
(* was queued is lost by the stop, the offline marks of Stop included.     *)
Actor == INSTANCE WorkQueue WITH
  Threads <- {"actor"},
  Jobs <- Writes,
  queue <- writes,
  running <- [x \in {"actor"} |-> writing],
  finished <- {j \in Writes : wrote[j] \in {"ok", "rejected", "failed"}},
  refused <- {j \in Writes : wrote[j] = "stopped"},
  ended <- IF stopper.at = "stopped" THEN {"actor"} ELSE {},
  stopping <- ActorStopping

ActorSpec == Actor!Spec

(* Stop returns: workers wait for the write actor, Stop for the workers,   *)
(* and a worker for another one's dispatcher mutex, but never in a circle. *)
StopEnds == Stopping ~> stopper.at = "stopped"

(* Until then the server comes to rest again and again: every agent that   *)
(* connects is let in or refused, whatever becomes of the others, and each *)
(* closed session gives its slot free, its cancelled read and its offline  *)
(* mark both being over.                                                   *)
SlotsReleased ==
  []<>(\/ Stopping
       \/ \A c \in Connections :
            /\ phase[c] \notin {"knocking", "accepted"}
            /\ phase[c] = "closed" => done[c])
=============================================================================
