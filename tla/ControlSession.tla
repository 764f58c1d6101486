--------------------------- MODULE ControlSession ---------------------------
(***************************************************************************)
(* The control connections of one agent: the sessions of the control       *)
(* server, each serialised by its strand, the worker threads that handle   *)
(* its events, the connection registry they share, and the write actor of  *)
(* the database, which they all queue their writes at.                     *)
(*                                                                         *)
(* An agent that loses its connection, restarts, or is replaced by a new   *)
(* version of itself opens another one, while the server may not yet have  *)
(* noticed the end of the old one; an event of the old connection may      *)
(* still be with a worker, and a claim or an offline mark with the actor.  *)
(***************************************************************************)
EXTENDS Naturals, Sequences, FiniteSets, SequencesExt

CONSTANTS
  Connections,   \* the agent's control connections, numbered as accepted
  Tasks,         \* tasks for the agent
  Nil            \* no connection, no task

ASSUME ConstantsOK ==
  /\ Connections \subseteq Nat
  /\ Nil \notin Connections \cup Tasks
  /\ "frame" \notin Tasks

VARIABLES
  \* ControlConnectionRegistry
  entries,    \* keys of connections_by_id_
  bound,      \* the entries whose agent_id is set
  current,    \* connection_by_agent_id_ of the agent, or Nil
  \* sessions and their clients
  session,    \* session[c]: "new", "open", or "closed" (closed_)
  client,     \* client[c]: how far the agent got with c
  stream,     \* stream[c]: StreamState of the command stream
  event,      \* event[c]: where the event batch posted on c stands
  output,     \* output[c]: pending_writes, a task or another frame each
  received,   \* the pairs of a connection and a task the agent got on it
  \* database and write actor
  writes,     \* the queue of the write actor
  replies,    \* claims answered, completion not yet run by the strand
  status,     \* agents.status
  state,      \* state[t]: tasks.state
  claimer,    \* claimer[t]: the connection the claim of t was made for
  publishing, \* a task was queued, its NotifyTaskQueueChanged is to come
  notified    \* sessions with a posted OnTaskQueueChanged

registryVars == <<entries, bound, current>>
taskVars == <<state, claimer>>
vars == <<entries, bound, current, session, client, stream, event, output,
          received, writes, replies, status, state, claimer, publishing,
          notified>>

Streams == [open : BOOLEAN,      \* command_stream
            refresh : BOOLEAN,   \* command_refresh_pending
            claiming : BOOLEAN,  \* command_claim_in_flight
            body : Tasks \cup {Nil}]   \* response_body, command_data_in_flight

NoStream == [open |-> FALSE, refresh |-> FALSE, claiming |-> FALSE, body |-> Nil]

Writes == [op : {"upsert", "claim", "offline"}, conn : Connections]

TypeOK ==
  /\ entries \subseteq Connections
  /\ bound \subseteq Connections
  /\ current \in Connections \cup {Nil}
  /\ session \in [Connections -> {"new", "open", "closed"}]
  /\ client \in
       [Connections -> {"new", "connected", "accepted", "streaming", "gone"}]
  /\ stream \in [Connections -> Streams]
  /\ event \in [Connections -> {"none", "bootstrap", "upserting", "upserted",
                                "heartbeat", "answered"}]
  /\ output \in [Connections -> Seq({"frame"} \cup Tasks)]
  /\ received \subseteq Connections \X Tasks
  /\ writes \in Seq(Writes)
  /\ replies \subseteq Connections \X (Tasks \cup {Nil})
  /\ status \in {"none", "online", "offline"}
  /\ state \in [Tasks -> {"none", "queued", "assigned"}]
  /\ claimer \in [Tasks -> Connections \cup {Nil}]
  /\ publishing \in BOOLEAN
  /\ notified \subseteq Connections

Init ==
  /\ entries = {} /\ bound = {} /\ current = Nil
  /\ session = [c \in Connections |-> "new"]
  /\ client = [c \in Connections |-> "new"]
  /\ stream = [c \in Connections |-> NoStream]
  /\ event = [c \in Connections |-> "none"]
  /\ output = [c \in Connections |-> <<>>]
  /\ received = {}
  /\ writes = <<>> /\ replies = {}
  /\ status = "none"
  /\ state = [t \in Tasks |-> "none"]
  /\ claimer = [t \in Tasks |-> Nil]
  /\ publishing = FALSE /\ notified = {}

Open(c) == session[c] = "open"

SubmitMutant(op, c) ==   \* addresses the agent's connection, not the caller's
  writes' = Append(writes, [op |-> op, conn |-> current])

(* SubmitWriteAsync: the completion goes back to c. *)
Submit(op, c) == writes' = Append(writes, [op |-> op, conn |-> c])

(* SubmitCommandData or another frame, then FlushSession. *)
Send(c, frame) == output' = [output EXCEPT ![c] = Append(@, frame)]

----------------------------------------------------------------------------
(* The registry, one critical section of its mutex per operator.           *)

BindAgentMutant(c) ==   \* forgets the connection the agent had before
  /\ entries' = entries \cup {c}
  /\ bound' = bound \cup {c}
  /\ current' = c

(* BindAgentLocked: c becomes the agent's connection, its entry is made    *)
(* again if it was erased, and the entry of the previous one is erased.    *)
BindAgent(c) ==
  /\ entries' = (entries \ {current}) \cup {c}
  /\ bound' = (bound \ {current}) \cup {c}
  /\ current' = c

CloseConnection(c) ==
  /\ entries' = entries \ {c}
  /\ bound' = bound \ {c}
  /\ current' = IF c \in bound /\ current = c THEN Nil ELSE current

(* FindByConnection gives an entry with an agent. *)
Bound(c) == c \in entries /\ c \in bound

----------------------------------------------------------------------------
(* TryStartQueuedCommands on the command stream s of c: it asks the write  *)
(* actor for a task unless a claim or a task is already in flight.         *)
MayClaimMutant(c, s) ==   \* does not look at the claim in flight
  Bound(c) /\ s.open /\ s.refresh /\ s.body = Nil

MayClaim(c, s) ==
  Bound(c) /\ s.open /\ s.refresh /\ ~s.claiming /\ s.body = Nil

TryStartQueuedCommands(c, s) ==
  IF MayClaim(c, s)
  THEN /\ stream' = [stream EXCEPT ![c] =
                       [s EXCEPT !.refresh = FALSE, !.claiming = TRUE]]
       /\ Submit("claim", c)
  ELSE /\ stream' = [stream EXCEPT ![c] = s]
       /\ UNCHANGED writes

(* The server accepts c and Start runs on its strand. *)
Accept(c) ==
  /\ session[c] = "new"
  /\ \A d \in Connections : d < c => session[d] # "new"
  /\ session' = [session EXCEPT ![c] = "open"]
  /\ client' = [client EXCEPT ![c] = "connected"]
  /\ entries' = entries \cup {c}
  /\ UNCHANGED <<bound, current, stream, event, output, received, writes,
                 replies, status, taskVars, publishing, notified>>

(* The agent posts its registration and first heartbeat in one batch, or a *)
(* heartbeat; the session hands the batch to the worker pool.  The agent   *)
(* waits for the answer before it posts again, and a heartbeat interval is *)
(* longer than a write.                                                    *)
Post(c) ==
  /\ Open(c) /\ event[c] = "none"
  /\ \A i \in DOMAIN output[c] : output[c][i] # "frame"
  /\ \/ client[c] = "connected" /\ event' = [event EXCEPT ![c] = "bootstrap"]
     \/ client[c] = "streaming" /\ event' = [event EXCEPT ![c] = "heartbeat"]
  /\ UNCHANGED <<registryVars, session, client, stream, output, received,
                 writes, replies, status, taskVars, publishing, notified>>

(* HandleRegister up to its UpsertAgent, for which the worker waits. *)
HandleRegister(c) ==
  /\ event[c] = "bootstrap"
  /\ event' = [event EXCEPT ![c] = "upserting"]
  /\ Submit("upsert", c)
  /\ UNCHANGED <<registryVars, session, client, stream, output, received,
                 replies, status, taskVars, publishing, notified>>

(* RecordAcceptedEvent after the registration, then after the heartbeat.   *)
(* The worker knows the connection only by its identifier.                 *)
RecordAcceptedEvent(c) ==
  /\ \/ event[c] = "upserted" /\ event' = [event EXCEPT ![c] = "heartbeat"]
     \/ event[c] = "heartbeat" /\ event' = [event EXCEPT ![c] = "answered"]
  /\ BindAgent(c)
  /\ UNCHANGED <<session, client, stream, output, received, writes, replies,
                 status, taskVars, publishing, notified>>

(* The completion of the batch, on the strand: the response, unless the    *)
(* session was closed meanwhile.                                           *)
OnEventsComplete(c) ==
  /\ event[c] = "answered"
  /\ event' = [event EXCEPT ![c] = "none"]
  /\ IF Open(c)
     THEN /\ Send(c, "frame")
          /\ client' = [client EXCEPT ![c] =
                          IF @ = "connected" THEN "accepted" ELSE @]
     ELSE UNCHANGED <<output, client>>
  /\ UNCHANGED <<registryVars, session, stream, received, writes, replies,
                 status, taskVars, publishing, notified>>

(* The agent opens its command stream.  HandleCommandHeadersEnd refuses it *)
(* when another connection has been bound since, and the agent gives up.   *)
HandleCommandHeadersEnd(c) ==
  /\ Open(c) /\ client[c] = "accepted"
  /\ Send(c, "frame")
  /\ IF Bound(c)
     THEN /\ client' = [client EXCEPT ![c] = "streaming"]
          /\ TryStartQueuedCommands(c,
               [NoStream EXCEPT !.open = TRUE, !.refresh = TRUE])
     ELSE /\ client' = [client EXCEPT ![c] = "gone"]
          /\ UNCHANGED <<stream, writes>>
  /\ UNCHANGED <<registryVars, session, event, received, replies, status,
                 taskVars, publishing, notified>>

OnTaskQueueChanged(c) ==
  /\ c \in notified
  /\ notified' = notified \ {c}
  /\ TryStartQueuedCommands(c, [stream[c] EXCEPT !.refresh = stream[c].open])
  /\ UNCHANGED <<registryVars, session, client, event, output, received,
                 replies, status, taskVars, publishing>>

OnCommandClaimCompleteMutant(c, t) ==   \* a pending refresh drops the task
  /\ <<c, t>> \in replies
  /\ replies' = replies \ {<<c, t>>}
  /\ IF Open(c)
     THEN LET s == [stream[c] EXCEPT !.claiming = FALSE] IN
          IF t = Nil \/ s.refresh
          THEN TryStartQueuedCommands(c, s) /\ UNCHANGED output
          ELSE /\ stream' = [stream EXCEPT ![c] = [s EXCEPT !.body = t]]
               /\ Send(c, t)
               /\ UNCHANGED writes
     ELSE UNCHANGED <<stream, output, writes>>
  /\ UNCHANGED <<registryVars, session, client, event, received, status,
                 taskVars, publishing, notified>>

(* The answer t to a claim reaches the strand.  A session closed meanwhile *)
(* drops it: the task stays assigned and nobody has it.                    *)
OnCommandClaimComplete(c, t) ==
  /\ <<c, t>> \in replies
  /\ replies' = replies \ {<<c, t>>}
  /\ IF Open(c)
     THEN LET s == [stream[c] EXCEPT !.claiming = FALSE] IN
          IF t = Nil
          THEN TryStartQueuedCommands(c, s) /\ UNCHANGED output
          ELSE /\ stream' = [stream EXCEPT ![c] = [s EXCEPT !.body = t]]
               /\ Send(c, t)
               /\ UNCHANGED writes
     ELSE UNCHANGED <<stream, output, writes>>
  /\ UNCHANGED <<registryVars, session, client, event, received, status,
                 taskVars, publishing, notified>>

Received(c) ==
  IF Head(output[c]) \in Tasks /\ client[c] # "gone"
  THEN received \cup {<<c, Head(output[c])>>}
  ELSE received

OnWriteMutant(c) ==   \* the end of a write does not look for more tasks
  /\ Open(c) /\ output[c] # <<>>
  /\ output' = [output EXCEPT ![c] = Tail(@)]
  /\ received' = Received(c)
  /\ stream' = [stream EXCEPT ![c].body = Nil]
  /\ UNCHANGED <<registryVars, session, client, event, writes, replies, status,
                 taskVars, publishing, notified>>

(* A pending write reached the socket.  FinalizeSentCommandData takes a    *)
(* body that nghttp2 has consumed for sent, even if its bytes are still    *)
(* behind this write.                                                      *)
OnWrite(c) ==
  /\ Open(c) /\ output[c] # <<>>
  /\ output' = [output EXCEPT ![c] = Tail(@)]
  /\ received' = Received(c)
  /\ TryStartQueuedCommands(c,
       IF stream[c].body = Nil THEN stream[c]
       ELSE [stream[c] EXCEPT !.body = Nil, !.refresh = TRUE])
  /\ UNCHANGED <<registryVars, session, client, event, replies, status,
                 taskVars, publishing, notified>>

(* Close: the peer is gone, an I/O error, or the server stops.  Handlers   *)
(* already posted for c return at once when they find closed_ set.         *)
Close(c) ==
  /\ Open(c)
  /\ session' = [session EXCEPT ![c] = "closed"]
  /\ client' = [client EXCEPT ![c] = "gone"]
  /\ stream' = [stream EXCEPT ![c] = NoStream]
  /\ output' = [output EXCEPT ![c] = <<>>]
  /\ CloseConnection(c)
  /\ IF Bound(c) /\ current = c
     THEN Submit("offline", c)
     ELSE UNCHANGED writes
  /\ notified' = notified \ {c}
  /\ UNCHANGED <<event, received, replies, status, taskVars, publishing>>

(* The agent closes c, or dies. *)
Disconnect(c) ==
  /\ client[c] \in {"connected", "accepted", "streaming"}
  /\ client' = [client EXCEPT ![c] = "gone"]
  /\ UNCHANGED <<registryVars, session, stream, event, output, received,
                 writes, replies, status, taskVars, publishing, notified>>

----------------------------------------------------------------------------
(* RunWriteActor: the write at the head of the queue. *)

Subscribed == {c \in Connections : Open(c)}

AtHead(op, c) ==
  /\ writes # <<>>
  /\ Head(writes) = [op |-> op, conn |-> c]
  /\ writes' = Tail(writes)

WriteUpsertAgent(c) ==
  /\ AtHead("upsert", c)
  /\ status' = "online"
  /\ event' = [event EXCEPT ![c] = "upserted"]
  /\ UNCHANGED <<registryVars, session, client, stream, output, received,
                 replies, taskVars, publishing, notified>>

WriteMarkAgentOffline(c) ==
  /\ AtHead("offline", c)
  /\ status' = "offline"
  /\ UNCHANGED <<registryVars, session, client, stream, event, output,
                 received, replies, taskVars, publishing, notified>>

ClaimableMutant(t) == state[t] # "none"   \* hands out assigned tasks again

Claimable(t) == state[t] = "queued"

(* AsyncClaimNextTaskForAgent; a claim that finds a task notifies every    *)
(* session, its own included.                                              *)
WriteClaim(c) ==
  /\ AtHead("claim", c)
  /\ \/ \E t \in Tasks :
          /\ Claimable(t)
          /\ state' = [state EXCEPT ![t] = "assigned"]
          /\ claimer' = [claimer EXCEPT ![t] = c]
          /\ replies' = replies \cup {<<c, t>>}
          /\ notified' = notified \cup Subscribed
     \/ /\ \A t \in Tasks : ~Claimable(t)
        /\ replies' = replies \cup {<<c, Nil>>}
        /\ UNCHANGED <<taskVars, notified>>
  /\ UNCHANGED <<registryVars, session, client, stream, event, output,
                 received, status, publishing>>

(* A task becomes claimable, by a scheduling request or by the result of   *)
(* the task before it; the writer notifies the sessions afterwards.        *)
QueueTask(t) ==
  /\ state[t] = "none"
  /\ state' = [state EXCEPT ![t] = "queued"]
  /\ publishing' = TRUE
  /\ UNCHANGED <<registryVars, session, client, stream, event, output,
                 received, writes, replies, status, claimer, notified>>

NotifyTaskQueueChanged ==
  /\ publishing
  /\ publishing' = FALSE
  /\ notified' = notified \cup Subscribed
  /\ UNCHANGED <<registryVars, session, client, stream, event, output,
                 received, writes, replies, status, taskVars>>

----------------------------------------------------------------------------
AgentStep(c) == Accept(c) \/ Post(c) \/ Disconnect(c)

WorkerStep(c) == HandleRegister(c) \/ RecordAcceptedEvent(c)

StrandStep(c) ==
  \/ OnEventsComplete(c)
  \/ HandleCommandHeadersEnd(c)
  \/ OnTaskQueueChanged(c)
  \/ \E t \in Tasks \cup {Nil} : OnCommandClaimComplete(c, t)
  \/ OnWrite(c)

WriteActorStep ==
  \E c \in Connections :
    WriteUpsertAgent(c) \/ WriteMarkAgentOffline(c) \/ WriteClaim(c)

Next ==
  \/ \E c \in Connections :
       AgentStep(c) \/ WorkerStep(c) \/ StrandStep(c) \/ Close(c)
  \/ WriteActorStep
  \/ \E t \in Tasks : QueueTask(t)
  \/ NotifyTaskQueueChanged

(* Threads of the server run what is posted to them; sockets the agent     *)
(* reads from drain.  Nothing makes the agent connect or stay, or the      *)
(* server notice that it left.                                             *)
Fairness ==
  /\ \A c \in Connections :
       /\ WF_vars(WorkerStep(c))
       /\ WF_vars(OnEventsComplete(c))
       /\ WF_vars(OnTaskQueueChanged(c))
       /\ WF_vars(\E t \in Tasks \cup {Nil} : OnCommandClaimComplete(c, t))
       /\ WF_vars(OnWrite(c))
  /\ WF_vars(WriteActorStep)
  /\ WF_vars(NotifyTaskQueueChanged)

Spec == Init /\ [][Next]_vars /\ Fairness

----------------------------------------------------------------------------
(* The two maps of the registry stay inverse to each other under every     *)
(* interleaving of binds and closes, late ones included: the agent's       *)
(* connection has an entry bound to it and no other entry is bound.        *)
RegistryConsistent ==
  /\ bound = {current} \ {Nil}
  /\ bound \subseteq entries

ClaimsOf(c) ==
  Cardinality({i \in DOMAIN writes :
                 writes[i] = [op |-> "claim", conn |-> c]})
  + Cardinality({p \in replies : p[1] = c})

(* command_claim_in_flight is exactly "one claim is with the actor or on   *)
(* its way back", and none is while a task is being sent: a second answer  *)
(* would overwrite response_body under nghttp2's data provider.            *)
OneClaimInFlight ==
  \A c \in Connections :
    Open(c) =>
      /\ ClaimsOf(c) = IF stream[c].claiming THEN 1 ELSE 0
      /\ stream[c].claiming => stream[c].body = Nil

Whereabouts(t) ==
  {<<"answer", p[1]>> : p \in {q \in replies : q[2] = t}}
  \cup (UNION {{<<"output", c, i>> : i \in {j \in DOMAIN output[c] :
                                           output[c][j] = t}}
                 : c \in Connections})
  \cup {<<"agent", p[1]>> : p \in {q \in received : q[2] = t}}

(* A task is handed to one connection and is in one place: on its way      *)
(* through the session that claimed it, or with the agent; and while that  *)
(* session and its agent are there, it is not lost.                        *)
TaskInOnePlace ==
  \A t \in Tasks :
    /\ Cardinality(Whereabouts(t)) <= 1
    /\ \A w \in Whereabouts(t) : w[2] = claimer[t]
    /\ (state[t] = "assigned" /\ Open(claimer[t])
          /\ client[claimer[t]] # "gone") => Whereabouts(t) # {}

Live(c) == Open(c) /\ client[c] = "streaming" /\ current = c

(* No lost wakeup: while a task is queued and the agent has a command      *)
(* stream on its current connection c, some step is due that will make c   *)
(* look for a task again.  Notifications are merged into one flag, the     *)
(* flag is cleared when a claim starts, a superseded connection does not   *)
(* start one and a late heartbeat may give it the agent back.              *)
WakeupPending ==
  \A c \in Connections :
    (Live(c) /\ \E t \in Tasks : state[t] = "queued") =>
      \/ publishing \/ c \in notified
      \/ [op |-> "claim", conn |-> c] \in ToSet(writes)
      \/ \E t \in Tasks : <<c, t>> \in replies
      \/ stream[c].body # Nil
      \/ /\ stream[c].refresh
         /\ stream[c].claiming \/ output[c] # <<>> \/ event[c] = "answered"

(* The same as a promise: a queued task does not stay queued while the     *)
(* agent keeps a command stream on its current connection.                 *)
QueuedTaskClaimed ==
  \A c \in Connections, t \in Tasks :
    (Live(c) /\ state[t] = "queued")
      ~> (state[t] = "assigned" \/ ~Live(c))

----------------------------------------------------------------------------
(* docs/contracts.md:425: the agent establishes and keeps its online       *)
(* status by registering and by its heartbeats.  With every registration   *)
(* and write done, an agent on its current, open connection is online.     *)
ConnectedAgentOnline ==
  (writes = <<>> /\ \A c \in Connections : event[c] = "none") =>
    \A c \in Connections : Live(c) => status = "online"
=============================================================================
