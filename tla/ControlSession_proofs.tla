------------------------ MODULE ControlSession_proofs ------------------------
(***************************************************************************)
(* Theorems about ControlSession, for any number of connections and tasks. *)
(***************************************************************************)
EXTENDS ControlSession, Queues

(* The registry stays consistent, and knows connections only.              *)
RegistryInv == RegistryConsistent /\ current \in Connections \cup {Nil}

(* The two kinds of update of the registry keep it consistent.             *)
LEMMA BindKeepsRegistry ==
  ASSUME RegistryInv, NEW c \in Connections, BindAgent(c)
  PROVE  RegistryInv'
BY ConstantsOK DEF RegistryInv, RegistryConsistent, BindAgent

(* See above. *)
LEMMA CloseKeepsRegistry ==
  ASSUME RegistryInv, NEW c \in Connections, CloseConnection(c)
  PROVE  RegistryInv'
BY ConstantsOK DEF RegistryInv, RegistryConsistent, CloseConnection

(* Every step keeps the registry consistent. *)
LEMMA RegistryStep ==
  ASSUME RegistryInv, [Next]_vars
  PROVE  RegistryInv'
<1>1. UNCHANGED registryVars => RegistryInv'
  BY DEF registryVars, RegistryInv, RegistryConsistent
<1>2. ASSUME NEW c \in Connections, Accept(c)
      PROVE  RegistryInv'
  BY <1>2 DEF Accept, RegistryInv, RegistryConsistent
<1>3. ASSUME NEW c \in Connections, RecordAcceptedEvent(c)
      PROVE  RegistryInv'
  BY <1>3, BindKeepsRegistry DEF RecordAcceptedEvent
<1>4. ASSUME NEW c \in Connections, Close(c)
      PROVE  RegistryInv'
  BY <1>4, CloseKeepsRegistry DEF Close
<1>5. ASSUME NEW c \in Connections,
             \/ Post(c) \/ Disconnect(c) \/ HandleRegister(c) \/ StrandStep(c)
      PROVE  UNCHANGED registryVars
  BY <1>5 DEF Post, Disconnect, HandleRegister, StrandStep, OnEventsComplete,
     HandleCommandHeadersEnd, OnTaskQueueChanged, OnCommandClaimComplete, OnWrite
<1>6. ASSUME \/ WriteActorStep \/ \E t \in Tasks : QueueTask(t)
             \/ NotifyTaskQueueChanged \/ UNCHANGED vars
      PROVE  UNCHANGED registryVars
  BY <1>6 DEF WriteActorStep, WriteUpsertAgent, WriteMarkAgentOffline, WriteClaim,
     QueueTask, NotifyTaskQueueChanged, vars, registryVars
<1> QED
  BY <1>1, <1>2, <1>3, <1>4, <1>5, <1>6 DEF Next, AgentStep, WorkerStep

(* However late a worker binds or a session closes, the maps of the        *)
(* connection registry stay inverse to each other. *)
THEOREM RegistryIsConsistent == Spec => []RegistryConsistent
<1>1. Init => RegistryInv
  BY ConstantsOK DEF Init, RegistryInv, RegistryConsistent
<1>2. RegistryInv => RegistryConsistent
  BY DEF RegistryInv
<1> QED
  BY <1>1, <1>2, RegistryStep, PTL DEF Spec

----------------------------------------------------------------------------
(* The inductive invariant of the sessions and the tasks. *)

Queued(op, c) == In(writes, [op |-> op, conn |-> c])

QueuedOnce(op, c) == Once(writes, [op |-> op, conn |-> c])

Answered(c, t) == <<c, t>> \in replies

InFlight(c) == Queued("claim", c) \/ \E t \in Tasks \cup {Nil} : Answered(c, t)

(* A session and its agent move together: the command stream is opened     *)
(* last, and a closed session forgets it.                                  *)
SessionOK(c) ==
  /\ session[c] = "new" => client[c] = "new" /\ event[c] = "none" /\ ~InFlight(c)
  /\ client[c] \in {"connected", "accepted", "streaming"} => Open(c)
  /\ client[c] \in {"new", "connected", "accepted"} => ~stream[c].open
  /\ ~stream[c].open =>
       ~stream[c].refresh /\ ~stream[c].claiming /\ stream[c].body = Nil
  /\ client[c] = "streaming" => stream[c].open
  /\ stream[c].open \/ c \in notified \/ output[c] # <<>> => Open(c)

(* A worker handles one batch of c at a time, the first before the command *)
(* stream is open.                                                         *)
EventOK(c) ==
  /\ event[c] \in {"bootstrap", "upserting", "upserted"} =>
       client[c] \in {"connected", "gone"}
  /\ Queued("upsert", c) => event[c] = "upserting"
  /\ QueuedOnce("upsert", c)

(* A claim is on its way to the actor or back, once, while its flag is set. *)
ClaimOK(c) ==
  /\ QueuedOnce("claim", c)
  /\ \A t, u \in Tasks \cup {Nil} : Answered(c, t) /\ Answered(c, u) => t = u
  /\ Queued("claim", c) => \A t \in Tasks \cup {Nil} : ~Answered(c, t)
  /\ Open(c) => (stream[c].claiming <=> InFlight(c))
  /\ stream[c].claiming => stream[c].body = Nil

(* A command stream with nothing under way for it remembers that it has to *)
(* look again, and the agent's connection looks as soon as it is told so,  *)
(* unless it has become the agent's connection by the last event.          *)
Remembers(c) ==
  (stream[c].open /\ \E t \in Tasks : state[t] = "queued") =>
    \/ publishing \/ c \in notified
    \/ Queued("claim", c)
    \/ \E t \in Tasks : Answered(c, t)
    \/ stream[c].body # Nil
    \/ stream[c].refresh

Looks(c) ==
  (Live(c) /\ stream[c].refresh /\ ~stream[c].claiming /\ stream[c].body = Nil) =>
    output[c] # <<>> \/ event[c] = "answered"

ConnectionOK(c) == SessionOK(c) /\ EventOK(c) /\ ClaimOK(c) /\ Remembers(c) /\ Looks(c)

Sent(c, t) == In(output[c], t)

Got(c, t) == <<c, t>> \in received

Carries(c, t) == Answered(c, t) \/ Sent(c, t) \/ Got(c, t)

(* A task is only with the connection it was claimed for, and in one place *)
(* there; and while the session and its agent are there, it is there.      *)
TaskAt(c, t) ==
  /\ Carries(c, t) => state[t] = "assigned" /\ claimer[t] = c
  /\ Answered(c, t) => ~Sent(c, t) /\ ~Got(c, t)
  /\ Sent(c, t) => ~Got(c, t)
  /\ Once(output[c], t)

TaskKept(t) ==
  state[t] = "assigned" =>
    /\ claimer[t] \in Connections
    /\ session[claimer[t]] # "closed" /\ client[claimer[t]] # "gone" =>
         Carries(claimer[t], t)

TasksOK == \A t \in Tasks : TaskKept(t) /\ \A c \in Connections : TaskAt(c, t)

Inv ==
  /\ TypeOK /\ RegistryInv
  /\ \A c \in Connections : ConnectionOK(c)
  /\ TasksOK

----------------------------------------------------------------------------
(* The changes of a stream the handlers make. *)
ToldOf(s) == [s EXCEPT !.refresh = s.open]

Unclaimed(s) == [s EXCEPT !.claiming = FALSE]

Sending(s, t) == [s EXCEPT !.body = t]

Finished(s) == [s EXCEPT !.body = Nil, !.refresh = TRUE]

(* What they leave of it. *)
LEMMA StreamChanges ==
  ASSUME NEW s \in Streams
  PROVE  /\ ToldOf(s) \in Streams /\ ToldOf(s).open = s.open
         /\ ToldOf(s).refresh = s.open /\ ToldOf(s).claiming = s.claiming
         /\ ToldOf(s).body = s.body
         /\ Unclaimed(s) \in Streams /\ Unclaimed(s).open = s.open
         /\ Unclaimed(s).refresh = s.refresh /\ ~Unclaimed(s).claiming
         /\ Unclaimed(s).body = s.body
         /\ \A t \in Tasks \cup {Nil} :
              /\ Sending(s, t) \in Streams /\ Sending(s, t).open = s.open
              /\ Sending(s, t).refresh = s.refresh
              /\ Sending(s, t).claiming = s.claiming /\ Sending(s, t).body = t
         /\ Finished(s) \in Streams /\ Finished(s).open = s.open
         /\ Finished(s).refresh /\ Finished(s).claiming = s.claiming
         /\ Finished(s).body = Nil
<1>1. /\ ToldOf(s) \in Streams /\ ToldOf(s).open = s.open
      /\ ToldOf(s).refresh = s.open /\ ToldOf(s).claiming = s.claiming
      /\ ToldOf(s).body = s.body
  BY DEF Streams, ToldOf
<1>2. /\ Unclaimed(s) \in Streams /\ Unclaimed(s).open = s.open
      /\ Unclaimed(s).refresh = s.refresh /\ ~Unclaimed(s).claiming
      /\ Unclaimed(s).body = s.body
  BY DEF Streams, Unclaimed
<1>3. ASSUME NEW t \in Tasks \cup {Nil}
      PROVE  /\ Sending(s, t) \in Streams /\ Sending(s, t).open = s.open
             /\ Sending(s, t).refresh = s.refresh
             /\ Sending(s, t).claiming = s.claiming /\ Sending(s, t).body = t
  BY DEF Streams, Sending
<1>4. /\ Finished(s) \in Streams /\ Finished(s).open = s.open
      /\ Finished(s).refresh /\ Finished(s).claiming = s.claiming
      /\ Finished(s).body = Nil
  BY DEF Streams, Finished
<1> QED BY <1>1, <1>2, <1>3, <1>4

(* What a submitted write does to the actor's queue. *)
LEMMA SubmitEffect ==
  ASSUME TypeOK, NEW o \in {"upsert", "claim", "offline"}, NEW c \in Connections,
         Submit(o, c)
  PROVE  /\ writes' \in Seq(Writes)
         /\ \A p, d : Queued(p, d)' <=> Queued(p, d) \/ (p = o /\ d = c)
         /\ \A p, d : p # o \/ d # c => (QueuedOnce(p, d) => QueuedOnce(p, d)')
         /\ ~Queued(o, c) => QueuedOnce(o, c)'
<1> DEFINE w(p, d) == [op |-> p, conn |-> d]
<1>1. writes \in Seq(Writes) /\ w(o, c) \in Writes /\ writes' = Append(writes, w(o, c))
  BY DEF TypeOK, Writes, Submit
<1>2. \A p, d : w(p, d) = w(o, c) <=> p = o /\ d = c
  OBVIOUS
<1>3. writes' \in Seq(Writes)
  BY <1>1
<1>4. /\ \A y : In(writes', y) <=> In(writes, y) \/ y = w(o, c)
      /\ \A y : y # w(o, c) /\ Once(writes, y) => Once(writes', y)
      /\ ~In(writes, w(o, c)) => Once(writes', w(o, c))
  <2> HIDE DEF w
  <2> QED BY <1>1, AppendToQueue
<1>5. \A p, d : /\ Queued(p, d) <=> In(writes, w(p, d))
                /\ Queued(p, d)' <=> In(writes', w(p, d))
                /\ QueuedOnce(p, d) <=> Once(writes, w(p, d))
                /\ QueuedOnce(p, d)' <=> Once(writes', w(p, d))
  BY DEF Queued, QueuedOnce
<1> HIDE DEF w
<1> QED BY <1>2, <1>3, <1>4, <1>5

(* What the write actor does to it. *)
LEMMA AtHeadEffect ==
  ASSUME TypeOK, NEW o, NEW c \in Connections, AtHead(o, c)
  PROVE  /\ Queued(o, c)
         /\ \A p, d : Queued(p, d)' => Queued(p, d)
         /\ \A p, d : (p # o \/ d # c) /\ Queued(p, d) => Queued(p, d)'
         /\ \A p, d : QueuedOnce(p, d) => QueuedOnce(p, d)'
         /\ QueuedOnce(o, c) => ~Queued(o, c)'
<1> DEFINE w(p, d) == [op |-> p, conn |-> d]
<1>1. /\ writes \in Seq(Writes) /\ writes # <<>>
      /\ Head(writes) = w(o, c) /\ writes' = Tail(writes)
  BY DEF TypeOK, AtHead
<1>2. \A p, d : w(p, d) = w(o, c) <=> p = o /\ d = c
  OBVIOUS
<1>4. /\ In(writes, w(o, c))
      /\ \A y : In(writes', y) => In(writes, y)
      /\ \A y : In(writes, y) /\ y # w(o, c) => In(writes', y)
      /\ \A y : Once(writes, y) => Once(writes', y)
      /\ Once(writes, w(o, c)) => ~In(writes', w(o, c))
  <2> HIDE DEF w
  <2> QED BY <1>1, TailOfQueue
<1>5. \A p, d : /\ Queued(p, d) <=> In(writes, w(p, d))
                /\ Queued(p, d)' <=> In(writes', w(p, d))
                /\ QueuedOnce(p, d) <=> Once(writes, w(p, d))
                /\ QueuedOnce(p, d)' <=> Once(writes', w(p, d))
  BY DEF Queued, QueuedOnce
<1> HIDE DEF w
<1> QED BY <1>2, <1>4, <1>5

(* What starting a claim does to the stream and to the actor's queue. *)
LEMMA TryStartEffect ==
  ASSUME TypeOK, NEW c \in Connections, NEW s \in Streams,
         TryStartQueuedCommands(c, s)
  PROVE  /\ stream' \in [Connections -> Streams]
         /\ writes' \in Seq(Writes)
         /\ \A d \in Connections \ {c} : stream'[d] = stream[d]
         /\ stream'[c].open = s.open /\ stream'[c].body = s.body
         /\ \A o, d : o # "claim" \/ d # c =>
                /\ Queued(o, d)' <=> Queued(o, d)
                /\ QueuedOnce(o, d) => QueuedOnce(o, d)'
         /\ \/ /\ MayClaim(c, s)
               /\ ~stream'[c].refresh /\ stream'[c].claiming
               /\ Queued("claim", c)'
               /\ ~Queued("claim", c) => QueuedOnce("claim", c)'
            \/ /\ ~MayClaim(c, s)
               /\ stream'[c].refresh = s.refresh
               /\ stream'[c].claiming = s.claiming
               /\ Queued("claim", c)' <=> Queued("claim", c)
               /\ QueuedOnce("claim", c) => QueuedOnce("claim", c)'
<1>1. stream \in [Connections -> Streams] /\ writes \in Seq(Writes)
  BY DEF TypeOK
<1>2. CASE MayClaim(c, s)
  <2> DEFINE r == [s EXCEPT !.refresh = FALSE, !.claiming = TRUE]
  <2>1. r \in Streams /\ r.open = s.open /\ ~r.refresh /\ r.claiming /\ r.body = s.body
    BY DEF Streams
  <2>2. stream' = [stream EXCEPT ![c] = r] /\ Submit("claim", c)
    BY <1>2 DEF TryStartQueuedCommands
  <2> HIDE DEF r
  <2>3. stream' \in [Connections -> Streams] /\ stream'[c] = r
        /\ \A d \in Connections \ {c} : stream'[d] = stream[d]
    BY <1>1, <2>1, <2>2
  <2>4. /\ writes' \in Seq(Writes)
        /\ \A o, d : o # "claim" \/ d # c =>
                /\ Queued(o, d)' <=> Queued(o, d)
                /\ QueuedOnce(o, d) => QueuedOnce(o, d)'
        /\ Queued("claim", c)'
        /\ ~Queued("claim", c) => QueuedOnce("claim", c)'
    BY <2>2, SubmitEffect
  <2> QED BY <1>2, <2>1, <2>3, <2>4
<1>3. CASE ~MayClaim(c, s)
  <2>1. stream' = [stream EXCEPT ![c] = s] /\ writes' = writes
    BY <1>3 DEF TryStartQueuedCommands
  <2>2. \A o, d : /\ Queued(o, d)' <=> Queued(o, d)
                  /\ QueuedOnce(o, d) => QueuedOnce(o, d)'
    BY <2>1 DEF Queued, QueuedOnce
  <2>3. stream' \in [Connections -> Streams] /\ stream'[c] = s
        /\ \A d \in Connections \ {c} : stream'[d] = stream[d]
    BY <1>1, <2>1
  <2> QED BY <1>1, <1>3, <2>1, <2>2, <2>3
<1> QED BY <1>2, <1>3

(* What the variables hold at first. *)
LEMMA InitType == Init => TypeOK
<1> SUFFICES ASSUME Init PROVE TypeOK
  OBVIOUS
<1>1. stream \in [Connections -> Streams]
  <2>1. NoStream \in Streams
    BY DEF NoStream, Streams
  <2> QED BY <2>1 DEF Init
<1>2. output \in [Connections -> Seq({"frame"} \cup Tasks)] /\ writes \in Seq(Writes)
  BY DEF Init
<1> QED BY <1>1, <1>2 DEF Init, TypeOK

(* Every step keeps the types. *)
LEMMA TypeStep ==
  ASSUME TypeOK, RegistryInv', [Next]_vars
  PROVE  TypeOK'
<1> USE DEF TypeOK, registryVars, taskVars
<1>0. /\ current' \in Connections \cup {Nil} /\ bound' \subseteq Connections
  BY ConstantsOK DEF RegistryInv, RegistryConsistent
<1>1. ASSUME NEW c \in Connections, Accept(c) PROVE TypeOK'
  BY <1>1 DEF Accept
<1>2. ASSUME NEW c \in Connections, Post(c) PROVE TypeOK'
  BY <1>2 DEF Post
<1>3. ASSUME NEW c \in Connections, Disconnect(c) PROVE TypeOK'
  BY <1>3 DEF Disconnect
<1>4. ASSUME NEW c \in Connections, HandleRegister(c) PROVE TypeOK'
  <2>1. [op |-> "upsert", conn |-> c] \in Writes
    BY DEF Writes
  <2> QED BY <1>4, <2>1 DEF HandleRegister, Submit
<1>5. ASSUME NEW c \in Connections, RecordAcceptedEvent(c) PROVE TypeOK'
  BY <1>5, <1>0 DEF RecordAcceptedEvent, BindAgent
<1>6. ASSUME NEW c \in Connections, OnEventsComplete(c) PROVE TypeOK'
  <2>1. output' \in [Connections -> Seq({"frame"} \cup Tasks)]
    <3>1. CASE Open(c)
      <4>1. output' = [output EXCEPT ![c] = Append(@, "frame")]
        BY <1>6, <3>1 DEF OnEventsComplete, Send
      <4>2. Append(output[c], "frame") \in Seq({"frame"} \cup Tasks)
        OBVIOUS
      <4> QED BY <4>1, <4>2
    <3>2. CASE ~Open(c)
      BY <1>6, <3>2 DEF OnEventsComplete
    <3> QED BY <3>1, <3>2
  <2>2. /\ event' \in [Connections -> {"none", "bootstrap", "upserting", "upserted",
                                       "heartbeat", "answered"}]
        /\ client' \in [Connections -> {"new", "connected", "accepted", "streaming",
                                        "gone"}]
    BY <1>6 DEF OnEventsComplete
  <2> QED BY <1>6, <2>1, <2>2 DEF OnEventsComplete
<1>7. ASSUME NEW c \in Connections, HandleCommandHeadersEnd(c) PROVE TypeOK'
  <2> DEFINE s == [NoStream EXCEPT !.open = TRUE, !.refresh = TRUE]
  <2>1. s \in Streams
    BY DEF NoStream, Streams
  <2>2. output' \in [Connections -> Seq({"frame"} \cup Tasks)]
    BY <1>7 DEF HandleCommandHeadersEnd, Send
  <2>3. stream' \in [Connections -> Streams] /\ writes' \in Seq(Writes)
    <3> HIDE DEF s
    <3> QED BY <1>7, <2>1, TryStartEffect DEF HandleCommandHeadersEnd, s
  <2> QED BY <1>7, <2>2, <2>3 DEF HandleCommandHeadersEnd
<1>8. ASSUME NEW c \in Connections, OnTaskQueueChanged(c) PROVE TypeOK'
  <2>1. ToldOf(stream[c]) \in Streams
    BY StreamChanges
  <2>2. TryStartQueuedCommands(c, ToldOf(stream[c]))
    BY <1>8 DEF OnTaskQueueChanged, ToldOf
  <2>3. stream' \in [Connections -> Streams] /\ writes' \in Seq(Writes)
    BY <2>1, <2>2, TryStartEffect
  <2> QED BY <1>8, <2>3 DEF OnTaskQueueChanged
<1>9. ASSUME NEW c \in Connections, NEW t \in Tasks \cup {Nil},
             OnCommandClaimComplete(c, t)
      PROVE  TypeOK'
  <2> DEFINE s == Unclaimed(stream[c])
  <2>0. stream[c] \in Streams
    BY DEF TypeOK
  <2>1. s \in Streams /\ Sending(s, t) \in Streams
    <3>1. s \in Streams
      BY <2>0, StreamChanges
    <3> HIDE DEF s
    <3> QED BY <3>1, StreamChanges
  <2>2. CASE Open(c) /\ t = Nil
    <3>1. TryStartQueuedCommands(c, s) /\ output' = output
      BY <1>9, <2>2 DEF OnCommandClaimComplete, Unclaimed
    <3>2. stream' \in [Connections -> Streams] /\ writes' \in Seq(Writes)
      BY <2>1, <3>1, TryStartEffect
    <3> QED BY <1>9, <3>1, <3>2 DEF OnCommandClaimComplete
  <2>3. CASE Open(c) /\ t # Nil
    <3>1. /\ stream' = [stream EXCEPT ![c] = Sending(s, t)]
          /\ output' = [output EXCEPT ![c] = Append(@, t)] /\ writes' = writes
      BY <1>9, <2>3 DEF OnCommandClaimComplete, Send, Sending, Unclaimed
    <3> QED BY <1>9, <2>1, <2>3, <3>1 DEF OnCommandClaimComplete
  <2>4. CASE ~Open(c)
    BY <1>9, <2>4 DEF OnCommandClaimComplete
  <2> QED BY <2>2, <2>3, <2>4
<1>10. ASSUME NEW c \in Connections, OnWrite(c) PROVE TypeOK'
  <2> DEFINE s == IF stream[c].body = Nil THEN stream[c]
                  ELSE Finished(stream[c])
  <2>1. s \in Streams
    BY StreamChanges
  <2>2. stream' \in [Connections -> Streams] /\ writes' \in Seq(Writes)
    <3> HIDE DEF s
    <3> QED BY <1>10, <2>1, TryStartEffect DEF OnWrite, Finished, s
  <2>3. /\ Head(output[c]) \in {"frame"} \cup Tasks
        /\ Tail(output[c]) \in Seq({"frame"} \cup Tasks)
    BY <1>10 DEF OnWrite
  <2>4. output' \in [Connections -> Seq({"frame"} \cup Tasks)]
    BY <1>10, <2>3 DEF OnWrite
  <2>5. received' \subseteq Connections \X Tasks
    BY <1>10 DEF OnWrite, Received
  <2> QED BY <1>10, <2>2, <2>4, <2>5 DEF OnWrite
<1>11. ASSUME NEW c \in Connections, Close(c) PROVE TypeOK'
  <2>1. [op |-> "offline", conn |-> c] \in Writes /\ NoStream \in Streams
    BY DEF Writes, NoStream, Streams
  <2>2. writes' \in Seq(Writes)
    <3>1. writes' = Append(writes, [op |-> "offline", conn |-> c]) \/ writes' = writes
      BY <1>11 DEF Close, Submit
    <3>2. writes \in Seq(Writes)
      OBVIOUS
    <3>3. Append(writes, [op |-> "offline", conn |-> c]) \in Seq(Writes)
      BY <2>1, <3>2
    <3> QED BY <3>1, <3>2, <3>3
  <2> QED BY <1>0, <1>11, <2>1, <2>2 DEF Close, CloseConnection
<1>12. ASSUME NEW c \in Connections,
              WriteUpsertAgent(c) \/ WriteMarkAgentOffline(c) \/ WriteClaim(c)
       PROVE  TypeOK'
  <2>1. writes' \in Seq(Writes)
    <3>1. writes # <<>> /\ writes' = Tail(writes)
      BY <1>12 DEF WriteUpsertAgent, WriteMarkAgentOffline, WriteClaim, AtHead
    <3> QED BY <3>1
  <2>2. CASE WriteUpsertAgent(c)
    BY <2>1, <2>2 DEF WriteUpsertAgent
  <2>3. CASE WriteMarkAgentOffline(c)
    BY <2>1, <2>3 DEF WriteMarkAgentOffline
  <2>4. CASE WriteClaim(c)
    <3>1. state' \in [Tasks -> {"none", "queued", "assigned"}]
          /\ claimer' \in [Tasks -> Connections \cup {Nil}]
      BY <2>4 DEF WriteClaim
    <3>2. replies' \subseteq Connections \X (Tasks \cup {Nil})
          /\ notified' \subseteq Connections
      BY <2>4 DEF WriteClaim, Subscribed
    <3> QED BY <2>1, <2>4, <3>1, <3>2 DEF WriteClaim
  <2> QED BY <1>12, <2>2, <2>3, <2>4
<1>13. ASSUME NEW t \in Tasks, QueueTask(t) PROVE TypeOK'
  BY <1>13 DEF QueueTask
<1>14. CASE NotifyTaskQueueChanged
  BY <1>14 DEF NotifyTaskQueueChanged, Subscribed
<1>15. CASE UNCHANGED vars
  BY <1>15 DEF vars
<1> QED BY <1>1, <1>2, <1>3, <1>4, <1>5, <1>6, <1>7, <1>8, <1>9, <1>10, <1>11,
           <1>12, <1>13, <1>14, <1>15
        DEF Next, AgentStep, WorkerStep, StrandStep, WriteActorStep

----------------------------------------------------------------------------
(* What a frame or a task to send does to a session's pending writes. *)
LEMMA SendEffect ==
  ASSUME TypeOK, NEW c \in Connections, NEW f \in {"frame"} \cup Tasks, Send(c, f)
  PROVE  /\ \A d \in Connections \ {c} : output'[d] = output[d]
         /\ output'[c] # <<>>
         /\ \A t : In(output'[c], t) <=> In(output[c], t) \/ t = f
         /\ \A t : t # f /\ Once(output[c], t) => Once(output'[c], t)
         /\ ~In(output[c], f) => Once(output'[c], f)
<1>1. output[c] \in Seq({"frame"} \cup Tasks)
  BY DEF TypeOK
<1>2. /\ output'[c] = Append(output[c], f)
      /\ \A d \in Connections \ {c} : output'[d] = output[d]
  BY DEF TypeOK, Send
<1>3. Append(output[c], f) # <<>>
  BY <1>1
<1> QED BY <1>1, <1>2, <1>3, AppendToQueue

(* A step that does not touch the session d, and takes nothing from it but *)
(* the agent, keeps what holds of d. *)
LEMMA OtherSession ==
  ASSUME NEW d \in Connections, d # Nil, ConnectionOK(d),
         session'[d] = session[d], client'[d] = client[d], stream'[d] = stream[d],
         event'[d] = event[d], output'[d] = output[d],
         \A o \in {"upsert", "claim"} :
           /\ Queued(o, d)' <=> Queued(o, d)
           /\ QueuedOnce(o, d) => QueuedOnce(o, d)',
         \A t : Answered(d, t)' <=> Answered(d, t),
         d \in notified => d \in notified',
         d \in notified' => d \in notified \/ Open(d),
         publishing => publishing' \/ (Open(d) => d \in notified'),
         current' = d => current = d,
         \A t \in Tasks : state'[t] = "queued" => state[t] = "queued"
                                           \/ publishing' \/ (Open(d) => d \in notified')
  PROVE  ConnectionOK(d)'
<1> USE DEF ConnectionOK, Open
<1>1. SessionOK(d)'
  BY DEF SessionOK, InFlight
<1>2. EventOK(d)'
  BY DEF EventOK
<1>3. ClaimOK(d)'
  BY DEF ClaimOK, InFlight
<1>4. Remembers(d)'
  BY DEF Remembers, SessionOK
<1>5. Looks(d)'
  BY DEF Looks, Live
<1> QED BY <1>1, <1>2, <1>3, <1>4, <1>5

(* A step that moves no task keeps what holds of the tasks. *)
LEMMA TasksAtRest ==
  ASSUME ConstantsOK, TypeOK, TasksOK, UNCHANGED <<state, claimer>>,
         \A d \in Connections :
           /\ \A t \in Tasks : /\ Answered(d, t)' <=> Answered(d, t)
                               /\ Got(d, t)' <=> Got(d, t)
           /\ session'[d] # "closed" => session[d] # "closed"
           /\ client'[d] # "gone" => client[d] # "gone"
           /\ \A t \in Tasks :
                /\ Sent(d, t)' => Sent(d, t)
                /\ session'[d] # "closed" /\ Sent(d, t) => Sent(d, t)'
                /\ Once(output[d], t) => Once(output'[d], t)
  PROVE  TasksOK'
<1> SUFFICES ASSUME NEW t \in Tasks
             PROVE  TaskKept(t)' /\ \A d \in Connections : TaskAt(d, t)'
  BY DEF TasksOK
<1>1. TaskKept(t)'
  <2> SUFFICES ASSUME state'[t] = "assigned"
               PROVE  /\ claimer'[t] \in Connections
                      /\ session'[claimer[t]] # "closed" /\ client'[claimer[t]] # "gone" =>
                           Carries(claimer[t], t)'
    BY DEF TaskKept
  <2>1. /\ claimer[t] \in Connections
        /\ session[claimer[t]] # "closed" /\ client[claimer[t]] # "gone" =>
             Carries(claimer[t], t)
    BY DEF TasksOK, TaskKept
  <2> QED BY <2>1 DEF Carries
<1>2. ASSUME NEW d \in Connections
      PROVE  TaskAt(d, t)'
  <2>1. TaskAt(d, t)
    BY DEF TasksOK
  <2> QED BY <2>1 DEF TaskAt, Carries
<1> QED BY <1>1, <1>2

(* The invariant holds at first. *)
LEMMA InitInv == Init => Inv
<1> SUFFICES ASSUME Init PROVE Inv
  OBVIOUS
<1>1. TypeOK
  BY InitType
<1>2. RegistryInv
  BY ConstantsOK DEF Init, RegistryInv, RegistryConsistent
<1>3. \A x : ~In(<<>>, x) /\ Once(<<>>, x)
  BY DEF In, Once
<1>4. ASSUME NEW c \in Connections
      PROVE  ConnectionOK(c)
  <2>1. /\ session[c] = "new" /\ client[c] = "new" /\ event[c] = "none"
        /\ stream[c] = NoStream /\ output[c] = <<>> /\ notified = {}
        /\ replies = {} /\ writes = <<>>
    BY <1>4 DEF Init
  <2>2. ~InFlight(c) /\ \A o : ~Queued(o, c) /\ QueuedOnce(o, c)
    BY <2>1, <1>3 DEF InFlight, Queued, QueuedOnce, Answered
  <2>3. SessionOK(c) /\ EventOK(c)
    BY <2>1, <2>2 DEF SessionOK, EventOK, NoStream, Open
  <2>4. ClaimOK(c) /\ Remembers(c) /\ Looks(c)
    BY <2>1, <2>2 DEF ClaimOK, Remembers, Looks, NoStream, Open, Answered
  <2> QED BY <2>3, <2>4 DEF ConnectionOK
<1>5. TasksOK
  BY <1>3 DEF Init, TasksOK, TaskKept, TaskAt, Carries, Answered, Sent, Got
<1> QED BY <1>1, <1>2, <1>4, <1>5 DEF Inv

----------------------------------------------------------------------------
(* One lemma per action: it keeps what holds of the connection it is about, *)
(* of the others, and of the tasks. *)

(* A new connection has nothing queued, claimed or sent. *)
LEMMA AcceptKeeps ==
  ASSUME Inv, NEW c \in Connections, Accept(c)
  PROVE  (\A d \in Connections : ConnectionOK(d)') /\ TasksOK'
<1> USE ConstantsOK DEF Inv
<1>1. /\ UNCHANGED <<stream, event, output, received, writes, replies, state,
                     claimer, publishing, notified, current>>
      /\ session[c] = "new" /\ session'[c] = "open" /\ client'[c] = "connected"
      /\ \A d \in Connections \ {c} : session'[d] = session[d] /\ client'[d] = client[d]
  BY DEF Accept, TypeOK, taskVars
<1>2. \A o, d : /\ Queued(o, d)' <=> Queued(o, d)
                /\ QueuedOnce(o, d)' <=> QueuedOnce(o, d)
                /\ Answered(d, o)' <=> Answered(d, o)
  BY <1>1 DEF Queued, QueuedOnce, Answered
<1>3. ASSUME NEW d \in Connections, d # c
      PROVE  ConnectionOK(d)'
  BY <1>1, <1>2, <1>3, OtherSession
<1>4. ConnectionOK(c)'
  <2> USE DEF ConnectionOK
  <2>1. SessionOK(c)'
    BY <1>1, <1>2 DEF SessionOK, InFlight, Open
  <2>2. EventOK(c)'
    BY <1>1, <1>2 DEF SessionOK, EventOK
  <2>3. ClaimOK(c)'
    BY <1>1, <1>2 DEF SessionOK, ClaimOK, InFlight, Open
  <2>4. Remembers(c)' /\ Looks(c)'
    BY <1>1, <1>2 DEF SessionOK, Remembers, Looks, Open, Live
  <2> QED BY <2>1, <2>2, <2>3, <2>4
<1>5. TasksOK'
  <2>1. client[c] = "new"
    BY <1>1 DEF ConnectionOK, SessionOK
  <2> QED BY <1>1, <1>2, <2>1, TasksAtRest DEF Sent, Got, Answered
<1> QED BY <1>3, <1>4, <1>5

(* A batch is posted only when the one before was answered. *)
LEMMA PostKeeps ==
  ASSUME Inv, NEW c \in Connections, Post(c)
  PROVE  (\A d \in Connections : ConnectionOK(d)') /\ TasksOK'
<1> USE ConstantsOK DEF Inv
<1>1. /\ UNCHANGED <<session, client, stream, output, received, writes, replies,
                     state, claimer, publishing, notified, current>>
      /\ Open(c) /\ event[c] = "none"
      /\ (client[c] = "connected" /\ event'[c] = "bootstrap") \/ event'[c] = "heartbeat"
      /\ \A d \in Connections \ {c} : event'[d] = event[d]
  BY DEF Post, TypeOK, taskVars, registryVars
<1>2. \A o, d : /\ Queued(o, d)' <=> Queued(o, d)
                /\ QueuedOnce(o, d)' <=> QueuedOnce(o, d)
                /\ Answered(d, o)' <=> Answered(d, o)
  BY <1>1 DEF Queued, QueuedOnce, Answered
<1>3. ASSUME NEW d \in Connections, d # c
      PROVE  ConnectionOK(d)'
  BY <1>1, <1>2, <1>3, OtherSession
<1>4. ConnectionOK(c)'
  <2> USE DEF ConnectionOK
  <2>1. SessionOK(c)'
    BY <1>1, <1>2 DEF SessionOK, InFlight, Open
  <2>2. EventOK(c)'
    BY <1>1, <1>2 DEF EventOK
  <2>3. ClaimOK(c)'
    BY <1>1, <1>2 DEF ClaimOK, InFlight, Open
  <2>4. Remembers(c)' /\ Looks(c)'
    BY <1>1, <1>2 DEF Remembers, Looks, Open, Live
  <2> QED BY <2>1, <2>2, <2>3, <2>4
<1>5. TasksOK'
  BY <1>1, <1>2, TasksAtRest DEF Sent, Got, Answered
<1> QED BY <1>3, <1>4, <1>5

(* The agent leaves; its session stays until it notices. *)
LEMMA DisconnectKeeps ==
  ASSUME Inv, NEW c \in Connections, Disconnect(c)
  PROVE  (\A d \in Connections : ConnectionOK(d)') /\ TasksOK'
<1> USE ConstantsOK DEF Inv
<1>1. /\ UNCHANGED <<session, event, stream, output, received, writes, replies,
                     state, claimer, publishing, notified, current>>
      /\ client[c] \in {"connected", "accepted", "streaming"} /\ client'[c] = "gone"
      /\ \A d \in Connections \ {c} : client'[d] = client[d]
  BY DEF Disconnect, TypeOK, taskVars, registryVars
<1>2. \A o, d : /\ Queued(o, d)' <=> Queued(o, d)
                /\ QueuedOnce(o, d)' <=> QueuedOnce(o, d)
                /\ Answered(d, o)' <=> Answered(d, o)
  BY <1>1 DEF Queued, QueuedOnce, Answered
<1>3. ASSUME NEW d \in Connections, d # c
      PROVE  ConnectionOK(d)'
  BY <1>1, <1>2, <1>3, OtherSession
<1>4. ConnectionOK(c)'
  <2> USE DEF ConnectionOK
  <2>1. SessionOK(c)'
    BY <1>1, <1>2 DEF SessionOK, InFlight, Open
  <2>2. EventOK(c)'
    BY <1>1, <1>2 DEF EventOK
  <2>3. ClaimOK(c)'
    BY <1>1, <1>2 DEF ClaimOK, InFlight, Open
  <2>4. Remembers(c)' /\ Looks(c)'
    BY <1>1, <1>2 DEF Remembers, Looks, Open, Live
  <2> QED BY <2>1, <2>2, <2>3, <2>4
<1>5. TasksOK'
  BY <1>1, <1>2, TasksAtRest DEF Sent, Got, Answered
<1> QED BY <1>3, <1>4, <1>5

(* The upsert is queued once, for the batch being handled. *)
LEMMA HandleRegisterKeeps ==
  ASSUME Inv, NEW c \in Connections, HandleRegister(c)
  PROVE  (\A d \in Connections : ConnectionOK(d)') /\ TasksOK'
<1> USE ConstantsOK DEF Inv
<1>1. /\ UNCHANGED <<session, client, stream, output, received, replies,
                     state, claimer, publishing, notified, current>>
      /\ event[c] = "bootstrap" /\ event'[c] = "upserting" /\ Submit("upsert", c)
      /\ \A d \in Connections \ {c} : event'[d] = event[d]
  BY DEF HandleRegister, TypeOK, taskVars, registryVars
<1>2. /\ \A o, d : Queued(o, d)' <=> Queued(o, d) \/ (o = "upsert" /\ d = c)
      /\ \A o, d : o # "upsert" \/ d # c => (QueuedOnce(o, d) => QueuedOnce(o, d)')
      /\ ~Queued("upsert", c) => QueuedOnce("upsert", c)'
      /\ \A d, t : Answered(d, t)' <=> Answered(d, t)
  BY <1>1, SubmitEffect DEF Answered
<1>3. ASSUME NEW d \in Connections, d # c
      PROVE  ConnectionOK(d)'
  BY <1>1, <1>2, <1>3, OtherSession
<1>4. ConnectionOK(c)'
  <2> USE DEF ConnectionOK
  <2>1. SessionOK(c)'
    BY <1>1, <1>2 DEF SessionOK, InFlight, Open
  <2>2. EventOK(c)'
    BY <1>1, <1>2 DEF EventOK
  <2>3. ClaimOK(c)'
    BY <1>1, <1>2 DEF ClaimOK, InFlight, Open
  <2>4. Remembers(c)' /\ Looks(c)'
    BY <1>1, <1>2 DEF Remembers, Looks, Open, Live
  <2> QED BY <2>1, <2>2, <2>3, <2>4
<1>5. TasksOK'
  BY <1>1, <1>2, TasksAtRest DEF Sent, Got
<1> QED BY <1>3, <1>4, <1>5

(* The only step that makes a connection the agent's: it leaves an event
   whose completion will write to it. *)
LEMMA RecordAcceptedEventKeeps ==
  ASSUME Inv, NEW c \in Connections, RecordAcceptedEvent(c)
  PROVE  (\A d \in Connections : ConnectionOK(d)') /\ TasksOK'
<1> USE ConstantsOK DEF Inv
<1>1. /\ UNCHANGED <<session, client, stream, output, received, writes, replies,
                     state, claimer, publishing, notified>>
      /\ current' = c
      /\ \/ event[c] = "upserted" /\ event'[c] = "heartbeat"
         \/ event[c] = "heartbeat" /\ event'[c] = "answered"
      /\ \A d \in Connections \ {c} : event'[d] = event[d]
  BY DEF RecordAcceptedEvent, BindAgent, TypeOK, taskVars
<1>2. \A o, d : /\ Queued(o, d)' <=> Queued(o, d)
                /\ QueuedOnce(o, d)' <=> QueuedOnce(o, d)
                /\ Answered(d, o)' <=> Answered(d, o)
  BY <1>1 DEF Queued, QueuedOnce, Answered
<1>3. ASSUME NEW d \in Connections, d # c
      PROVE  ConnectionOK(d)'
  BY <1>1, <1>2, <1>3, OtherSession
<1>4. ConnectionOK(c)'
  <2> USE DEF ConnectionOK
  <2>1. SessionOK(c)'
    BY <1>1, <1>2 DEF SessionOK, InFlight, Open
  <2>2. EventOK(c)'
    BY <1>1, <1>2 DEF EventOK
  <2>3. ClaimOK(c)'
    BY <1>1, <1>2 DEF ClaimOK, InFlight, Open
  <2>4. Remembers(c)' /\ Looks(c)'
    BY <1>1, <1>2 DEF Remembers, Looks, EventOK, Open, Live
  <2> QED BY <2>1, <2>2, <2>3, <2>4
<1>5. TasksOK'
  BY <1>1, <1>2, TasksAtRest DEF Sent, Got
<1> QED BY <1>3, <1>4, <1>5

(* The completion leaves a frame to write while the session is open. *)
LEMMA OnEventsCompleteKeeps ==
  ASSUME Inv, NEW c \in Connections, OnEventsComplete(c)
  PROVE  (\A d \in Connections : ConnectionOK(d)') /\ TasksOK'
<1> USE ConstantsOK DEF Inv
<1>1. /\ UNCHANGED <<session, stream, received, writes, replies, state, claimer,
                     publishing, notified, current>>
      /\ event[c] = "answered" /\ event'[c] = "none"
      /\ \A d \in Connections \ {c} : event'[d] = event[d] /\ client'[d] = client[d]
      /\ client'[c] = client[c] \/ (client[c] = "connected" /\ client'[c] = "accepted")
  <2>1. /\ UNCHANGED <<session, stream, received, writes, replies, state, claimer,
                       publishing, notified, current>>
        /\ event[c] = "answered" /\ event' = [event EXCEPT ![c] = "none"]
        /\ \/ client' = client
           \/ client' = [client EXCEPT ![c] = IF @ = "connected" THEN "accepted" ELSE @]
    BY DEF OnEventsComplete, taskVars, registryVars
  <2>2. /\ client \in [Connections -> {"new", "connected", "accepted", "streaming", "gone"}]
        /\ event \in [Connections -> {"none", "bootstrap", "upserting", "upserted",
                                   "heartbeat", "answered"}]
    BY DEF TypeOK
  <2>3. \A d \in Connections \ {c} : event'[d] = event[d] /\ client'[d] = client[d]
    BY <2>1, <2>2
  <2>4. client'[c] = client[c] \/ (client[c] = "connected" /\ client'[c] = "accepted")
    <3>1. CASE client' = client
      BY <3>1
    <3>2. CASE client' = [client EXCEPT ![c] = IF @ = "connected" THEN "accepted" ELSE @]
      <4> DEFINE v == IF client[c] = "connected" THEN "accepted" ELSE client[c]
      <4>1. client' = [client EXCEPT ![c] = v]
        BY <3>2
      <4> HIDE DEF v
      <4>2. client'[c] = v
        BY <2>2, <4>1
      <4> QED BY <4>2 DEF v
    <3> QED BY <2>1, <3>1, <3>2
  <2>5. event'[c] = "none"
    BY <2>1, <2>2
  <2> QED BY <2>1, <2>2, <2>3, <2>4, <2>5
<1>2. \A o, d : /\ Queued(o, d)' <=> Queued(o, d)
                /\ QueuedOnce(o, d)' <=> QueuedOnce(o, d)
                /\ Answered(d, o)' <=> Answered(d, o)
  BY <1>1 DEF Queued, QueuedOnce, Answered
<1>3. /\ \A d \in Connections \ {c} : output'[d] = output[d]
      /\ Open(c) => output'[c] # <<>>
      /\ ~Open(c) => output'[c] = output[c]
      /\ \A t \in Tasks : /\ In(output'[c], t) <=> In(output[c], t)
                          /\ Once(output[c], t) => Once(output'[c], t)
  <2>1. CASE Open(c)
    BY <2>1, SendEffect DEF OnEventsComplete
  <2>2. CASE ~Open(c)
    BY <2>2 DEF OnEventsComplete
  <2> QED BY <2>1, <2>2
<1>4. ASSUME NEW d \in Connections, d # c
      PROVE  ConnectionOK(d)'
  BY <1>1, <1>2, <1>3, <1>4, OtherSession
<1>5. ConnectionOK(c)'
  <2> USE DEF ConnectionOK
  <2>1. SessionOK(c)'
    BY <1>1, <1>2, <1>3 DEF SessionOK, InFlight, Open
  <2>2. EventOK(c)'
    BY <1>1, <1>2 DEF EventOK
  <2>3. ClaimOK(c)'
    BY <1>1, <1>2 DEF ClaimOK, InFlight, Open
  <2>4. Remembers(c)' /\ Looks(c)'
    BY <1>1, <1>2, <1>3 DEF Remembers, Looks, Open, Live
  <2> QED BY <2>1, <2>2, <2>3, <2>4
<1>6. TasksOK'
  BY <1>1, <1>2, <1>3, TasksAtRest DEF Sent, Got
<1> QED BY <1>4, <1>5, <1>6

(* A command stream opens with a claim, and none was in flight. *)
LEMMA HandleCommandHeadersEndKeeps ==
  ASSUME Inv, NEW c \in Connections, HandleCommandHeadersEnd(c)
  PROVE  (\A d \in Connections : ConnectionOK(d)') /\ TasksOK'
<1> USE ConstantsOK DEF Inv
<1>1. /\ UNCHANGED <<session, event, received, replies, state, claimer, publishing,
                     notified, current>>
      /\ Open(c) /\ client[c] = "accepted" /\ Send(c, "frame")
      /\ client'[c] \in {"streaming", "gone"}
      /\ \A d \in Connections \ {c} : client'[d] = client[d]
  <2>1. /\ UNCHANGED <<session, event, received, replies, state, claimer, publishing,
                       notified, current>>
        /\ Open(c) /\ client[c] = "accepted" /\ Send(c, "frame")
        /\ \/ client' = [client EXCEPT ![c] = "streaming"]
           \/ client' = [client EXCEPT ![c] = "gone"]
    BY DEF HandleCommandHeadersEnd, taskVars, registryVars
  <2> QED BY <2>1 DEF TypeOK
<1>2. /\ \A d \in Connections \ {c} : output'[d] = output[d]
      /\ output'[c] # <<>>
      /\ \A t \in Tasks : /\ In(output'[c], t) <=> In(output[c], t)
                          /\ Once(output[c], t) => Once(output'[c], t)
  BY <1>1, SendEffect
<1>3. /\ \A d \in Connections \ {c} : stream'[d] = stream[d]
      /\ \A o, d : o # "claim" \/ d # c =>
             /\ Queued(o, d)' <=> Queued(o, d)
             /\ QueuedOnce(o, d) => QueuedOnce(o, d)'
      /\ \A d, t : Answered(d, t)' <=> Answered(d, t)
      /\ ~stream[c].open /\ ~InFlight(c)
  <2>1. CASE Bound(c)
    <3> DEFINE s == [NoStream EXCEPT !.open = TRUE, !.refresh = TRUE]
    <3>1. s \in Streams
      BY DEF NoStream, Streams
    <3>2. TryStartQueuedCommands(c, s)
      BY <2>1 DEF HandleCommandHeadersEnd
    <3> HIDE DEF s
    <3>3. /\ \A d \in Connections \ {c} : stream'[d] = stream[d]
          /\ \A o, d : o # "claim" \/ d # c =>
                 /\ Queued(o, d)' <=> Queued(o, d)
                 /\ QueuedOnce(o, d) => QueuedOnce(o, d)'
      BY <3>1, <3>2, TryStartEffect
    <3> QED BY <1>1, <3>3 DEF ConnectionOK, SessionOK, ClaimOK, Answered
  <2>2. CASE ~Bound(c)
    BY <1>1, <2>2 DEF HandleCommandHeadersEnd, Queued, QueuedOnce, Answered,
       ConnectionOK, SessionOK, ClaimOK
  <2> QED BY <2>1, <2>2
<1>4. \/ /\ client'[c] = "streaming"
         /\ stream'[c].open /\ ~stream'[c].refresh /\ stream'[c].claiming
         /\ stream'[c].body = Nil
         /\ Queued("claim", c)' /\ QueuedOnce("claim", c)'
      \/ /\ client'[c] = "gone"
         /\ stream'[c] = stream[c]
         /\ Queued("claim", c)' <=> Queued("claim", c)
         /\ QueuedOnce("claim", c) => QueuedOnce("claim", c)'
  <2>1. CASE Bound(c)
    <3> DEFINE s == [NoStream EXCEPT !.open = TRUE, !.refresh = TRUE]
    <3>1. s \in Streams /\ s.open /\ s.refresh /\ ~s.claiming /\ s.body = Nil
      BY DEF NoStream, Streams
    <3>2. TryStartQueuedCommands(c, s) /\ client'[c] = "streaming"
      BY <2>1 DEF HandleCommandHeadersEnd, TypeOK
    <3> HIDE DEF s
    <3>3. MayClaim(c, s)
      BY <2>1, <3>1 DEF MayClaim
    <3>4. /\ stream'[c].open /\ ~stream'[c].refresh /\ stream'[c].claiming
          /\ stream'[c].body = Nil
          /\ Queued("claim", c)'
          /\ ~Queued("claim", c) => QueuedOnce("claim", c)'
      BY <3>1, <3>2, <3>3, TryStartEffect
    <3>5. ~Queued("claim", c)
      BY <1>3 DEF InFlight
    <3> QED BY <3>2, <3>4, <3>5
  <2>2. CASE ~Bound(c)
    BY <1>1, <2>2 DEF HandleCommandHeadersEnd, Queued, QueuedOnce, TypeOK
  <2> QED BY <2>1, <2>2
<1>5. ASSUME NEW d \in Connections, d # c
      PROVE  ConnectionOK(d)'
  BY <1>1, <1>2, <1>3, <1>5, OtherSession
<1>6. ConnectionOK(c)'
  <2>0. SessionOK(c) /\ EventOK(c) /\ ClaimOK(c)
    BY DEF ConnectionOK
  <2>1. SessionOK(c)'
    BY <2>0, <1>1, <1>2, <1>3, <1>4 DEF SessionOK, InFlight, Open
  <2>2. EventOK(c)'
    BY <2>0, <1>1, <1>3, <1>4 DEF EventOK
  <2>3. ClaimOK(c)'
    BY <2>0, <1>1, <1>3, <1>4 DEF ClaimOK, InFlight, Open
  <2>4. Remembers(c)' /\ Looks(c)'
    BY <1>1, <1>2, <1>3, <1>4 DEF Remembers, Looks, Open, Live
  <2> QED BY <2>1, <2>2, <2>3, <2>4 DEF ConnectionOK
<1>7. TasksOK'
  <2>1. \A d, t : Got(d, t)' <=> Got(d, t)
    BY <1>1 DEF Got
  <2>2. \A d \in Connections : client'[d] # "gone" => client[d] # "gone"
    BY <1>1
  <2> QED BY <1>1, <1>2, <1>3, <2>1, <2>2, TasksAtRest DEF Sent
<1> QED BY <1>5, <1>6, <1>7

(* A notification becomes a claim or a flag. *)
LEMMA OnTaskQueueChangedKeeps ==
  ASSUME Inv, NEW c \in Connections, OnTaskQueueChanged(c)
  PROVE  (\A d \in Connections : ConnectionOK(d)') /\ TasksOK'
<1> USE ConstantsOK DEF Inv
<1> DEFINE s == ToldOf(stream[c])
<1>1. /\ UNCHANGED <<session, client, event, output, received, replies, state, claimer,
                     publishing, current>>
      /\ c \in notified /\ notified' = notified \ {c}
      /\ TryStartQueuedCommands(c, s)
  BY DEF OnTaskQueueChanged, taskVars, registryVars, ToldOf
<1>2. stream[c] \in Streams
  BY DEF TypeOK
<1>3. /\ s \in Streams /\ s.open = stream[c].open /\ s.refresh = stream[c].open
      /\ s.claiming = stream[c].claiming /\ s.body = stream[c].body
  BY <1>2, StreamChanges
<1> HIDE DEF s
<1>4. /\ \A d \in Connections \ {c} : stream'[d] = stream[d]
      /\ stream'[c].open = stream[c].open /\ stream'[c].body = stream[c].body
      /\ \A o, d : o # "claim" \/ d # c =>
             /\ Queued(o, d)' <=> Queued(o, d)
             /\ QueuedOnce(o, d) => QueuedOnce(o, d)'
      /\ \/ /\ stream[c].open /\ ~stream[c].claiming /\ stream[c].body = Nil
            /\ ~stream'[c].refresh /\ stream'[c].claiming
            /\ Queued("claim", c)'
            /\ ~Queued("claim", c) => QueuedOnce("claim", c)'
         \/ /\ stream'[c].refresh = stream[c].open
            /\ stream'[c].claiming = stream[c].claiming
            /\ ~(Bound(c) /\ stream[c].open /\ ~stream[c].claiming /\ stream[c].body = Nil)
            /\ Queued("claim", c)' <=> Queued("claim", c)
            /\ QueuedOnce("claim", c) => QueuedOnce("claim", c)'
  BY <1>1, <1>3, TryStartEffect DEF MayClaim
<1>5. \A d, t : Answered(d, t)' <=> Answered(d, t)
  BY <1>1 DEF Answered
<1>6. ASSUME NEW d \in Connections, d # c
      PROVE  ConnectionOK(d)'
  BY <1>1, <1>4, <1>5, <1>6, OtherSession
<1>7. ConnectionOK(c)'
  <2>0. SessionOK(c) /\ EventOK(c) /\ ClaimOK(c)
    BY DEF ConnectionOK
  <2>1. SessionOK(c)'
    BY <2>0, <1>1, <1>4, <1>5 DEF SessionOK, InFlight, Open
  <2>2. EventOK(c)'
    BY <2>0, <1>1, <1>4 DEF EventOK
  <2>3. ClaimOK(c)'
    BY <2>0, <1>1, <1>4, <1>5 DEF SessionOK, ClaimOK, InFlight, Open
  <2>4. Remembers(c)'
    <3>1. stream'[c].refresh \/ ~stream'[c].open \/ Queued("claim", c)'
      BY <1>4
    <3> QED BY <3>1 DEF Remembers
  <2>5. Looks(c)'
    <3>1. Live(c) => Bound(c)
      BY DEF Live, Bound, RegistryInv, RegistryConsistent
    <3> QED BY <2>0, <3>1, <1>1, <1>4 DEF Looks, Live, Open, SessionOK
  <2> QED BY <2>1, <2>2, <2>3, <2>4, <2>5 DEF ConnectionOK
<1>8. TasksOK'
  BY <1>1, <1>5, TasksAtRest DEF Sent, Got
<1> QED BY <1>6, <1>7, <1>8

(* An answer brings the claim home: to another claim, to a task sent, or,
   on a closed session, to nothing. *)
LEMMA OnCommandClaimCompleteKeeps ==
  ASSUME Inv, NEW c \in Connections, NEW t \in Tasks \cup {Nil},
         OnCommandClaimComplete(c, t)
  PROVE  (\A d \in Connections : ConnectionOK(d)') /\ TasksOK'
<1> USE ConstantsOK DEF Inv
<1> DEFINE s == Unclaimed(stream[c])
<1>1. /\ UNCHANGED <<session, client, event, received, state, claimer, publishing,
                     notified, current>>
      /\ Answered(c, t) /\ replies' = replies \ {<<c, t>>}
  BY DEF OnCommandClaimComplete, taskVars, registryVars, Answered
<1>2. /\ \A d \in Connections, u \in Tasks \cup {Nil} :
           Answered(d, u)' <=> Answered(d, u) /\ ~(d = c /\ u = t)
      /\ \A d \in Connections \ {c} : \A u : Answered(d, u)' <=> Answered(d, u)
      /\ \A d, u : Got(d, u)' <=> Got(d, u)
  BY <1>1 DEF Answered, Got
<1>3. /\ stream[c] \in Streams
      /\ s \in Streams /\ s.open = stream[c].open /\ s.refresh = stream[c].refresh
      /\ ~s.claiming /\ s.body = stream[c].body
  <2>1. stream[c] \in Streams
    BY DEF TypeOK
  <2> QED BY <2>1, StreamChanges
<1>4. /\ SessionOK(c) /\ EventOK(c) /\ ClaimOK(c) /\ Remembers(c) /\ Looks(c)
      /\ session[c] # "new" /\ ~Queued("claim", c)
      /\ \A u \in Tasks \cup {Nil} : ~Answered(c, u)'
      /\ Open(c) => stream[c].claiming /\ stream[c].body = Nil
  <2>1. /\ SessionOK(c) /\ EventOK(c) /\ ClaimOK(c) /\ Remembers(c) /\ Looks(c)
        /\ InFlight(c)
    BY <1>1 DEF ConnectionOK, InFlight
  <2> QED BY <2>1, <1>1, <1>2 DEF SessionOK, ClaimOK
<1> HIDE DEF s
<1>5. CASE Open(c) /\ t = Nil
  <2>1. output' = output /\ TryStartQueuedCommands(c, s)
    BY <1>5 DEF OnCommandClaimComplete, s, Unclaimed
  <2>2. /\ \A d \in Connections \ {c} : stream'[d] = stream[d]
        /\ stream'[c].open = stream[c].open /\ stream'[c].body = Nil
        /\ \A o, d : o # "claim" \/ d # c =>
               /\ Queued(o, d)' <=> Queued(o, d)
               /\ QueuedOnce(o, d) => QueuedOnce(o, d)'
        /\ \/ /\ stream[c].open
              /\ ~stream'[c].refresh /\ stream'[c].claiming
              /\ Queued("claim", c)' /\ QueuedOnce("claim", c)'
           \/ /\ stream'[c].refresh = stream[c].refresh
              /\ ~stream'[c].claiming
              /\ ~(Bound(c) /\ stream[c].open /\ stream[c].refresh)
              /\ ~Queued("claim", c)'
              /\ QueuedOnce("claim", c) => QueuedOnce("claim", c)'
    <3>1. stream[c].body = Nil
      BY <1>4, <1>5
    <3> QED BY <1>3, <1>4, <2>1, <3>1, TryStartEffect DEF MayClaim
  <2>3. ASSUME NEW d \in Connections, d # c
        PROVE  ConnectionOK(d)'
    BY <1>1, <1>2, <2>1, <2>2, <2>3, OtherSession
  <2>4. ConnectionOK(c)'
    <3>1. SessionOK(c)'
      BY <1>1, <1>4, <2>1, <2>2 DEF SessionOK, InFlight, Open
    <3>2. EventOK(c)'
      BY <1>1, <1>4, <2>2 DEF EventOK
    <3>3. ClaimOK(c)'
      BY <1>1, <1>4, <2>2 DEF ClaimOK, InFlight, Open
    <3>4. Remembers(c)'
      <4>1. \A u \in Tasks : ~Answered(c, u)
        BY <1>1, <1>2, <1>4, <1>5
      <4> QED BY <1>1, <1>4, <1>5, <2>2, <4>1 DEF Remembers
    <3>5. Looks(c)'
      <4>1. Live(c) => Bound(c)
        BY DEF Live, Bound, RegistryInv, RegistryConsistent
      <4> QED BY <1>1, <1>4, <2>2, <4>1 DEF Looks, Live, Open, SessionOK
    <3> QED BY <3>1, <3>2, <3>3, <3>4, <3>5 DEF ConnectionOK
  <2>5. TasksOK'
    <3>1. \A d \in Connections, u \in Tasks : Answered(d, u)' <=> Answered(d, u)
      BY <1>2, <1>5
    <3> QED BY <1>1, <1>2, <2>1, <3>1, TasksAtRest DEF Sent
  <2> QED BY <2>3, <2>4, <2>5
<1>6. CASE Open(c) /\ t # Nil
  <2>1. /\ stream' = [stream EXCEPT ![c] = Sending(s, t)] /\ Send(c, t)
        /\ writes' = writes
    BY <1>6 DEF OnCommandClaimComplete, s, Unclaimed, Sending
  <2>2. /\ \A d \in Connections \ {c} : stream'[d] = stream[d]
        /\ stream'[c].open = stream[c].open /\ stream'[c].body = t
        /\ stream'[c].refresh = stream[c].refresh /\ ~stream'[c].claiming
    <3>1. stream \in [Connections -> Streams]
      BY DEF TypeOK
    <3>2. /\ stream'[c] = Sending(s, t)
          /\ \A d \in Connections \ {c} : stream'[d] = stream[d]
      BY <2>1, <3>1
    <3>3. /\ Sending(s, t).open = s.open /\ Sending(s, t).body = t
          /\ Sending(s, t).refresh = s.refresh /\ Sending(s, t).claiming = s.claiming
      BY <1>3, StreamChanges
    <3> QED BY <1>3, <3>2, <3>3
  <2>3. /\ \A d \in Connections \ {c} : output'[d] = output[d]
        /\ output'[c] # <<>>
        /\ \A u : In(output'[c], u) <=> In(output[c], u) \/ u = t
        /\ \A u : u # t /\ Once(output[c], u) => Once(output'[c], u)
        /\ ~In(output[c], t) => Once(output'[c], t)
    BY <1>6, <2>1, SendEffect
  <2>4. \A o, d : /\ Queued(o, d)' <=> Queued(o, d)
                  /\ QueuedOnce(o, d) => QueuedOnce(o, d)'
    BY <2>1 DEF Queued, QueuedOnce
  <2>5. ASSUME NEW d \in Connections, d # c
        PROVE  ConnectionOK(d)'
    BY <1>1, <1>2, <2>2, <2>3, <2>4, <2>5, OtherSession
  <2>6. ConnectionOK(c)'
    <3>0. stream[c].open
      BY <1>4, <1>6 DEF SessionOK
    <3>1. SessionOK(c)'
      BY <1>1, <1>4, <1>6, <2>2, <3>0 DEF SessionOK, InFlight, Open
    <3>2. EventOK(c)'
      BY <1>1, <1>4, <2>4 DEF EventOK
    <3>3. ClaimOK(c)'
      BY <1>1, <1>4, <2>2, <2>4 DEF ClaimOK, InFlight, Open
    <3>4. Remembers(c)' /\ Looks(c)'
      BY <1>6, <2>2 DEF Remembers, Looks
    <3> QED BY <3>1, <3>2, <3>3, <3>4 DEF ConnectionOK
  <2>7. TasksOK'
    <3> SUFFICES ASSUME NEW u \in Tasks
                 PROVE  TaskKept(u)' /\ \A d \in Connections : TaskAt(d, u)'
      BY DEF TasksOK
    <3>1. TaskKept(u) /\ \A d \in Connections : TaskAt(d, u)
      BY DEF TasksOK
    <3>2. \A d \in Connections : Carries(d, u)' <=> Carries(d, u)
      BY <1>1, <1>2, <2>3 DEF Carries, Sent
    <3>3. TaskKept(u)'
      BY <1>1, <3>1, <3>2 DEF TaskKept
    <3>4. ASSUME NEW d \in Connections
          PROVE  TaskAt(d, u)'
      BY <1>1, <1>2, <2>3, <3>1, <3>2 DEF TaskAt, Sent
    <3> QED BY <3>3, <3>4
  <2> QED BY <2>5, <2>6, <2>7
<1>7. CASE ~Open(c)
  <2>1. UNCHANGED <<stream, output, writes>>
    BY <1>7 DEF OnCommandClaimComplete
  <2>2. \A o, d : /\ Queued(o, d)' <=> Queued(o, d)
                  /\ QueuedOnce(o, d) => QueuedOnce(o, d)'
    BY <2>1 DEF Queued, QueuedOnce
  <2>3. ASSUME NEW d \in Connections, d # c
        PROVE  ConnectionOK(d)'
    BY <1>1, <1>2, <2>1, <2>2, <2>3, OtherSession
  <2>4. ConnectionOK(c)'
    <3>1. SessionOK(c)'
      BY <1>1, <1>4, <2>1 DEF SessionOK, InFlight, Open
    <3>2. EventOK(c)'
      BY <1>1, <1>4, <2>2 DEF EventOK
    <3>3. ClaimOK(c)'
      BY <1>1, <1>4, <1>7, <2>1, <2>2 DEF ClaimOK, InFlight, Open
    <3>4. Remembers(c)' /\ Looks(c)'
      BY <1>1, <1>4, <1>7, <2>1 DEF SessionOK, Remembers, Looks, Live, Open
    <3> QED BY <3>1, <3>2, <3>3, <3>4 DEF ConnectionOK
  <2>5. TasksOK'
    <3> SUFFICES ASSUME NEW u \in Tasks
                 PROVE  TaskKept(u)' /\ \A d \in Connections : TaskAt(d, u)'
      BY DEF TasksOK
    <3>1. TaskKept(u) /\ \A d \in Connections : TaskAt(d, u)
      BY DEF TasksOK
    <3>2. \A d \in Connections : Sent(d, u)' <=> Sent(d, u)
      BY <2>1 DEF Sent
    <3>3. session[c] = "closed"
      BY <1>4, <1>7 DEF TypeOK, Open
    <3>4. TaskKept(u)'
      BY <1>1, <1>2, <3>1, <3>2, <3>3 DEF TaskKept, Carries
    <3>5. ASSUME NEW d \in Connections
          PROVE  TaskAt(d, u)'
      BY <1>1, <1>2, <2>1, <3>1, <3>2 DEF TaskAt, Carries
    <3> QED BY <3>4, <3>5
  <2> QED BY <2>3, <2>4, <2>5
<1> QED BY <1>5, <1>6, <1>7

(* A task that was written is with the agent, and the session looks again. *)
LEMMA OnWriteKeeps ==
  ASSUME Inv, NEW c \in Connections, OnWrite(c)
  PROVE  (\A d \in Connections : ConnectionOK(d)') /\ TasksOK'
<1> USE ConstantsOK DEF Inv
<1> DEFINE s == IF stream[c].body = Nil THEN stream[c] ELSE Finished(stream[c])
           h == Head(output[c])
<1>1. /\ UNCHANGED <<session, client, event, replies, state, claimer, publishing,
                     notified, current>>
      /\ Open(c) /\ output[c] # <<>> /\ output' = [output EXCEPT ![c] = Tail(@)]
      /\ TryStartQueuedCommands(c, s)
  BY DEF OnWrite, taskVars, registryVars, Finished
<1>2. /\ received' = IF h \in Tasks /\ client[c] # "gone"
                     THEN received \cup {<<c, h>>} ELSE received
      /\ \A d, u : Answered(d, u)' <=> Answered(d, u)
  BY <1>1 DEF OnWrite, Received, Answered
<1>3. /\ SessionOK(c) /\ EventOK(c) /\ ClaimOK(c) /\ Remembers(c) /\ Looks(c)
      /\ stream[c] \in Streams
  BY DEF ConnectionOK, TypeOK
<1>4. /\ s \in Streams /\ s.open = stream[c].open /\ s.body = Nil
      /\ s.claiming = stream[c].claiming
      /\ stream[c].refresh \/ stream[c].body # Nil => s.refresh
      /\ stream[c].body = Nil => s.refresh = stream[c].refresh
  BY <1>3, StreamChanges
<1>5. /\ \A d \in Connections \ {c} : output'[d] = output[d]
      /\ \A u : In(output'[c], u) => In(output[c], u)
      /\ \A u : In(output[c], u) /\ u # h => In(output'[c], u)
      /\ \A u : Once(output[c], u) => Once(output'[c], u)
      /\ In(output[c], h)
      /\ Once(output[c], h) => ~In(output'[c], h)
  <2>1. output[c] \in Seq({"frame"} \cup Tasks)
    BY DEF TypeOK
  <2>2. /\ output'[c] = Tail(output[c])
        /\ \A d \in Connections \ {c} : output'[d] = output[d]
    BY <1>1 DEF TypeOK
  <2>3. /\ In(output[c], Head(output[c]))
        /\ \A u : In(Tail(output[c]), u) => In(output[c], u)
        /\ \A u : In(output[c], u) /\ u # Head(output[c]) => In(Tail(output[c]), u)
        /\ \A u : Once(output[c], u) => Once(Tail(output[c]), u)
        /\ Once(output[c], Head(output[c])) => ~In(Tail(output[c]), Head(output[c]))
    BY <1>1, <2>1, TailOfQueue
  <2> QED BY <2>2, <2>3
<1> HIDE DEF s, h
<1>6. /\ \A d \in Connections \ {c} : stream'[d] = stream[d]
      /\ stream'[c].open = stream[c].open /\ stream'[c].body = Nil
      /\ \A o, d : o # "claim" \/ d # c =>
             /\ Queued(o, d)' <=> Queued(o, d)
             /\ QueuedOnce(o, d) => QueuedOnce(o, d)'
      /\ \/ /\ stream[c].open /\ ~stream[c].claiming
            /\ ~stream'[c].refresh /\ stream'[c].claiming
            /\ Queued("claim", c)'
            /\ ~Queued("claim", c) => QueuedOnce("claim", c)'
         \/ /\ stream'[c].refresh = s.refresh
            /\ stream'[c].claiming = stream[c].claiming
            /\ ~(Bound(c) /\ stream[c].open /\ s.refresh /\ ~stream[c].claiming)
            /\ Queued("claim", c)' <=> Queued("claim", c)
            /\ QueuedOnce("claim", c) => QueuedOnce("claim", c)'
  BY <1>1, <1>4, TryStartEffect DEF MayClaim
<1>7. ASSUME NEW d \in Connections, d # c
      PROVE  ConnectionOK(d)'
  BY <1>1, <1>2, <1>5, <1>6, <1>7, OtherSession
<1>8. ConnectionOK(c)'
  <2>1. SessionOK(c)'
    <3>1. stream[c].open => client[c] \in {"streaming", "gone"}
      BY <1>3 DEF SessionOK, TypeOK
    <3>2. ~stream[c].open => ~s.refresh
      BY <1>3, <1>4 DEF SessionOK
    <3> QED BY <1>1, <1>2, <1>3, <1>6, <3>1, <3>2 DEF SessionOK, InFlight, Open
  <2>2. EventOK(c)'
    BY <1>1, <1>3, <1>6 DEF EventOK
  <2>3. ClaimOK(c)'
    BY <1>1, <1>2, <1>3, <1>6 DEF ClaimOK, InFlight, Open
  <2>4. Remembers(c)'
    BY <1>1, <1>2, <1>3, <1>4, <1>6 DEF Remembers
  <2>5. Looks(c)'
    <3>1. Live(c) => Bound(c)
      BY DEF Live, Bound, RegistryInv, RegistryConsistent
    <3> QED BY <3>1, <1>1, <1>3, <1>6 DEF Looks, Live, Open, SessionOK
  <2> QED BY <2>1, <2>2, <2>3, <2>4, <2>5 DEF ConnectionOK
<1>9. TasksOK'
  <2> SUFFICES ASSUME NEW u \in Tasks
               PROVE  TaskKept(u)' /\ \A d \in Connections : TaskAt(d, u)'
    BY DEF TasksOK
  <2>1. TaskKept(u) /\ \A d \in Connections : TaskAt(d, u)
    BY DEF TasksOK
  <2>2. /\ \A d \in Connections \ {c} : /\ Sent(d, u)' <=> Sent(d, u)
                                        /\ Got(d, u)' <=> Got(d, u)
        /\ u # h => /\ Sent(c, u)' <=> Sent(c, u)
                    /\ Got(c, u)' <=> Got(c, u)
        /\ u = h => /\ Sent(c, u) /\ ~Sent(c, u)'
                    /\ Got(c, u)' => Got(c, u) \/ client[c] # "gone"
                    /\ Got(c, u)' \/ client[c] = "gone"
    BY <1>2, <1>5, <2>1 DEF Sent, Got, TaskAt
  <2>3. TaskKept(u)'
    BY <1>1, <1>2, <2>1, <2>2 DEF TaskKept, Carries
  <2>4. ASSUME NEW d \in Connections
        PROVE  TaskAt(d, u)'
    <3>1. Once(output'[d], u)
      BY <1>5, <2>1 DEF TaskAt
    <3> QED BY <1>1, <1>2, <2>1, <2>2, <3>1 DEF TaskAt, Carries
  <2> QED BY <2>3, <2>4
<1> QED BY <1>7, <1>8, <1>9

(* A closed session keeps no stream; its tasks may be lost. *)
LEMMA CloseKeeps ==
  ASSUME Inv, NEW c \in Connections, Close(c)
  PROVE  (\A d \in Connections : ConnectionOK(d)') /\ TasksOK'
<1> USE ConstantsOK DEF Inv
<1>1. /\ UNCHANGED <<event, received, replies, state, claimer, publishing>>
      /\ Open(c) /\ session'[c] = "closed" /\ client'[c] = "gone"
      /\ stream'[c] = NoStream /\ output'[c] = <<>> /\ notified' = notified \ {c}
      /\ current' \in {Nil, current}
      /\ \A d \in Connections \ {c} : /\ session'[d] = session[d]
                                      /\ client'[d] = client[d]
                                      /\ stream'[d] = stream[d]
                                      /\ output'[d] = output[d]
      /\ Submit("offline", c) \/ writes' = writes
  BY DEF Close, CloseConnection, TypeOK, taskVars
<1>2. /\ \A o, d : o # "offline" =>
             /\ Queued(o, d)' <=> Queued(o, d)
             /\ QueuedOnce(o, d) => QueuedOnce(o, d)'
      /\ \A d, u : /\ Answered(d, u)' <=> Answered(d, u)
                   /\ Got(d, u)' <=> Got(d, u)
  <2>1. \A d, u : /\ Answered(d, u)' <=> Answered(d, u)
                  /\ Got(d, u)' <=> Got(d, u)
    BY <1>1 DEF Answered, Got
  <2>2. CASE Submit("offline", c)
    BY <2>1, <2>2, SubmitEffect
  <2>3. CASE writes' = writes
    BY <2>1, <2>3 DEF Queued, QueuedOnce
  <2> QED BY <1>1, <2>2, <2>3
<1>3. ASSUME NEW d \in Connections, d # c
      PROVE  ConnectionOK(d)'
  BY <1>1, <1>2, <1>3, OtherSession
<1>4. ConnectionOK(c)'
  <2> USE DEF ConnectionOK
  <2>1. SessionOK(c)'
    BY <1>1, <1>2 DEF SessionOK, InFlight, Open, NoStream
  <2>2. EventOK(c)'
    BY <1>1, <1>2 DEF EventOK
  <2>3. ClaimOK(c)'
    BY <1>1, <1>2 DEF ClaimOK, InFlight, Open, NoStream
  <2>4. Remembers(c)' /\ Looks(c)'
    BY <1>1, <1>2 DEF Remembers, Looks, Open, Live, NoStream
  <2> QED BY <2>1, <2>2, <2>3, <2>4
<1>5. TasksOK'
  <2>1. \A u : ~In(output'[c], u) /\ Once(output'[c], u)
    BY <1>1 DEF In, Once
  <2> QED BY <1>1, <1>2, <2>1, TasksAtRest DEF Sent
<1> QED BY <1>3, <1>4, <1>5

(* The upsert leaves the queue it was in once. *)
LEMMA WriteUpsertAgentKeeps ==
  ASSUME Inv, NEW c \in Connections, WriteUpsertAgent(c)
  PROVE  (\A d \in Connections : ConnectionOK(d)') /\ TasksOK'
<1> USE ConstantsOK DEF Inv
<1>1. /\ UNCHANGED <<session, client, stream, output, received, replies,
                     state, claimer, publishing, notified, current>>
      /\ AtHead("upsert", c) /\ event'[c] = "upserted"
      /\ \A d \in Connections \ {c} : event'[d] = event[d]
  BY DEF WriteUpsertAgent, TypeOK, taskVars, registryVars
<1>2. /\ \A o, d : o # "upsert" \/ d # c =>
             /\ Queued(o, d)' <=> Queued(o, d)
             /\ QueuedOnce(o, d) => QueuedOnce(o, d)'
      /\ QueuedOnce("upsert", c) => QueuedOnce("upsert", c)' /\ ~Queued("upsert", c)'
      /\ Queued("upsert", c)
      /\ \A d, t : Answered(d, t)' <=> Answered(d, t)
  BY <1>1, AtHeadEffect DEF Answered
<1>3. ASSUME NEW d \in Connections, d # c
      PROVE  ConnectionOK(d)'
  BY <1>1, <1>2, <1>3, OtherSession
<1>4. ConnectionOK(c)'
  <2> USE DEF ConnectionOK
  <2>1. SessionOK(c)'
    BY <1>1, <1>2 DEF SessionOK, EventOK, InFlight, Open
  <2>2. EventOK(c)'
    BY <1>1, <1>2 DEF EventOK
  <2>3. ClaimOK(c)'
    BY <1>1, <1>2 DEF ClaimOK, InFlight, Open
  <2>4. Remembers(c)' /\ Looks(c)'
    BY <1>1, <1>2 DEF Remembers, Looks, EventOK, Open, Live
  <2> QED BY <2>1, <2>2, <2>3, <2>4
<1>5. TasksOK'
  BY <1>1, <1>2, TasksAtRest DEF Sent, Got
<1> QED BY <1>3, <1>4, <1>5

(* An offline mark touches the status only. *)
LEMMA WriteMarkAgentOfflineKeeps ==
  ASSUME Inv, NEW c \in Connections, WriteMarkAgentOffline(c)
  PROVE  (\A d \in Connections : ConnectionOK(d)') /\ TasksOK'
<1> USE ConstantsOK DEF Inv
<1>1. /\ UNCHANGED <<session, client, event, stream, output, received, replies,
                     state, claimer, publishing, notified, current>>
      /\ AtHead("offline", c)
  BY DEF WriteMarkAgentOffline, taskVars, registryVars
<1>2. /\ \A o, d : o # "offline" =>
             /\ Queued(o, d)' <=> Queued(o, d)
             /\ QueuedOnce(o, d) => QueuedOnce(o, d)'
      /\ \A d, t : Answered(d, t)' <=> Answered(d, t)
  BY <1>1, AtHeadEffect DEF Answered
<1>3. \A d \in Connections : ConnectionOK(d)'
  BY <1>1, <1>2, OtherSession
<1>4. TasksOK'
  BY <1>1, <1>2, TasksAtRest DEF Sent, Got
<1> QED BY <1>3, <1>4

(* A claim turns into one answer, and takes a task nobody has. *)
LEMMA WriteClaimKeeps ==
  ASSUME Inv, NEW c \in Connections, WriteClaim(c)
  PROVE  (\A d \in Connections : ConnectionOK(d)') /\ TasksOK'
<1> USE ConstantsOK DEF Inv
<1>1. /\ UNCHANGED <<session, client, event, stream, output, received,
                     publishing, current>>
      /\ AtHead("claim", c)
  BY DEF WriteClaim, registryVars
<1>2. /\ \A o, d : o # "claim" \/ d # c =>
             /\ Queued(o, d)' <=> Queued(o, d)
             /\ QueuedOnce(o, d) => QueuedOnce(o, d)'
      /\ QueuedOnce("claim", c) => QueuedOnce("claim", c)' /\ ~Queued("claim", c)'
      /\ Queued("claim", c)
      /\ \A d, u : Got(d, u)' <=> Got(d, u)
  BY <1>1, AtHeadEffect DEF Got
<1>3. /\ SessionOK(c) /\ EventOK(c) /\ ClaimOK(c) /\ Remembers(c) /\ Looks(c)
      /\ session[c] # "new" /\ ~Queued("claim", c)' /\ QueuedOnce("claim", c)'
      /\ \A u \in Tasks \cup {Nil} : ~Answered(c, u)
  <2>1. SessionOK(c) /\ EventOK(c) /\ ClaimOK(c) /\ Remembers(c) /\ Looks(c)
    BY DEF ConnectionOK
  <2> QED BY <2>1, <1>2 DEF SessionOK, ClaimOK, InFlight
<1>4. PICK t \in Tasks \cup {Nil} :
        /\ replies' = replies \cup {<<c, t>>}
        /\ \/ /\ t \in Tasks /\ Claimable(t)
              /\ state' = [state EXCEPT ![t] = "assigned"]
              /\ claimer' = [claimer EXCEPT ![t] = c]
              /\ notified' = notified \cup Subscribed
           \/ /\ t = Nil /\ \A u \in Tasks : ~Claimable(u)
              /\ UNCHANGED <<state, claimer, notified>>
  BY DEF WriteClaim, taskVars
<1>5. /\ \A d, u : Answered(d, u)' <=> Answered(d, u) \/ (d = c /\ u = t)
      /\ \A d \in Connections : d \in notified => d \in notified'
      /\ \A d \in Connections : d \in notified' => d \in notified \/ Open(d)
      /\ \A u \in Tasks : state'[u] = "queued" => state[u] = "queued"
      /\ t = Nil => \A u \in Tasks : state'[u] # "queued"
  BY <1>4 DEF Answered, Subscribed, Claimable, TypeOK
<1>6. ASSUME NEW d \in Connections, d # c
      PROVE  ConnectionOK(d)'
  BY <1>1, <1>2, <1>5, <1>6, OtherSession
<1>7. ConnectionOK(c)'
  <2>0. InFlight(c) /\ InFlight(c)'
    BY <1>2, <1>5 DEF InFlight
  <2>1. SessionOK(c)'
    BY <1>1, <1>3, <1>5 DEF SessionOK, Open
  <2>2. EventOK(c)'
    BY <1>1, <1>2, <1>3 DEF EventOK
  <2>3. ClaimOK(c)'
    BY <1>1, <1>3, <1>5, <2>0 DEF ClaimOK, Open
  <2>4. Remembers(c)'
    BY <1>4, <1>5 DEF Remembers
  <2>5. Looks(c)'
    BY <1>1, <1>3 DEF Looks, Live, Open
  <2> QED BY <2>1, <2>2, <2>3, <2>4, <2>5 DEF ConnectionOK
<1>8. TasksOK'
  <2> SUFFICES ASSUME NEW u \in Tasks
               PROVE  TaskKept(u)' /\ \A d \in Connections : TaskAt(d, u)'
    BY DEF TasksOK
  <2>1. TaskKept(u) /\ \A d \in Connections : TaskAt(d, u)
    BY DEF TasksOK
  <2>2. \A d \in Connections : Sent(d, u)' <=> Sent(d, u)
    BY <1>1 DEF Sent
  <2>3. CASE u # t
    <3>1. state'[u] = state[u] /\ claimer'[u] = claimer[u]
      BY <1>4, <2>3 DEF TypeOK
    <3> QED BY <1>1, <1>2, <1>5, <2>1, <2>2, <2>3, <3>1 DEF TaskKept, TaskAt, Carries
  <2>4. CASE u = t
    <3>1. /\ state[u] = "queued" /\ state'[u] = "assigned" /\ claimer'[u] = c
      BY <1>4, <2>4 DEF TypeOK, Claimable
    <3>2. \A d \in Connections : ~Carries(d, u)
      BY <2>1, <3>1 DEF TaskAt
    <3>3. TaskKept(u)'
      BY <1>5, <2>4, <3>1 DEF TaskKept, Carries
    <3>4. ASSUME NEW d \in Connections
          PROVE  TaskAt(d, u)'
      BY <1>1, <1>2, <1>5, <2>1, <2>2, <2>4, <3>1, <3>2 DEF TaskAt, Carries
    <3> QED BY <3>3, <3>4
  <2> QED BY <2>3, <2>4
<1> QED BY <1>6, <1>7, <1>8

(* A task nobody has becomes claimable, and the sessions are to be told. *)
LEMMA QueueTaskKeeps ==
  ASSUME Inv, NEW t \in Tasks, QueueTask(t)
  PROVE  (\A d \in Connections : ConnectionOK(d)') /\ TasksOK'
<1> USE ConstantsOK DEF Inv
<1>1. /\ UNCHANGED <<session, client, event, stream, output, received, replies, writes,
                     claimer, notified, current>>
      /\ state[t] = "none" /\ publishing'
      /\ state' = [state EXCEPT ![t] = "queued"]
  BY DEF QueueTask, registryVars
<1>2. \A d, o : /\ Queued(o, d)' <=> Queued(o, d)
                /\ QueuedOnce(o, d)' <=> QueuedOnce(o, d)
                /\ Answered(d, o)' <=> Answered(d, o)
                /\ Sent(d, o)' <=> Sent(d, o)
                /\ Got(d, o)' <=> Got(d, o)
                /\ Carries(d, o)' <=> Carries(d, o)
  BY <1>1 DEF Queued, QueuedOnce, Answered, Sent, Got, Carries
<1>3. \A d \in Connections : ConnectionOK(d)'
  BY <1>1, <1>2, OtherSession
<1>4. TasksOK'
  <2> SUFFICES ASSUME NEW u \in Tasks
               PROVE  TaskKept(u)' /\ \A d \in Connections : TaskAt(d, u)'
    BY DEF TasksOK
  <2>1. TaskKept(u) /\ \A d \in Connections : TaskAt(d, u)
    BY DEF TasksOK
  <2>2. state'[u] = IF u = t THEN "queued" ELSE state[u]
    BY <1>1 DEF TypeOK
  <2>3. TaskKept(u)'
    BY <1>1, <1>2, <2>1, <2>2 DEF TaskKept
  <2>4. ASSUME NEW d \in Connections
        PROVE  TaskAt(d, u)'
    <3>1. u = t => ~Carries(d, u)
      BY <1>1, <2>1 DEF TaskAt
    <3> QED BY <1>1, <1>2, <2>1, <2>2, <3>1 DEF TaskAt
  <2> QED BY <2>3, <2>4
<1> QED BY <1>3, <1>4

(* Every open session is told. *)
LEMMA NotifyTaskQueueChangedKeeps ==
  ASSUME Inv, NotifyTaskQueueChanged
  PROVE  (\A d \in Connections : ConnectionOK(d)') /\ TasksOK'
<1> USE ConstantsOK DEF Inv
<1>1. /\ UNCHANGED <<session, client, event, stream, output, received, replies, writes,
                     state, claimer, current>>
      /\ notified' = notified \cup Subscribed
  BY DEF NotifyTaskQueueChanged, registryVars, taskVars
<1>2. \A d, o : /\ Queued(o, d)' <=> Queued(o, d)
                /\ QueuedOnce(o, d)' <=> QueuedOnce(o, d)
                /\ Answered(d, o)' <=> Answered(d, o)
                /\ Got(d, o)' <=> Got(d, o)
  BY <1>1 DEF Queued, QueuedOnce, Answered, Got
<1>3. \A d \in Connections : ConnectionOK(d)'
  BY <1>1, <1>2, OtherSession DEF Subscribed
<1>4. TasksOK'
  BY <1>1, <1>2, TasksAtRest DEF Sent
<1> QED BY <1>3, <1>4

(* Nothing happens. *)
LEMMA StutterKeeps ==
  ASSUME Inv, UNCHANGED vars
  PROVE  (\A d \in Connections : ConnectionOK(d)') /\ TasksOK'
<1> USE ConstantsOK DEF Inv
<1>1. UNCHANGED <<session, client, event, stream, output, received, replies, writes,
                  state, claimer, current, notified, publishing>>
  BY DEF vars
<1>2. \A d, o : /\ Queued(o, d)' <=> Queued(o, d)
                /\ QueuedOnce(o, d)' <=> QueuedOnce(o, d)
                /\ Answered(d, o)' <=> Answered(d, o)
                /\ Got(d, o)' <=> Got(d, o)
  BY <1>1 DEF Queued, QueuedOnce, Answered, Got
<1>3. \A d \in Connections : ConnectionOK(d)'
  BY <1>1, <1>2, OtherSession
<1>4. TasksOK'
  BY <1>1, <1>2, TasksAtRest DEF Sent
<1> QED BY <1>3, <1>4

(* The invariant is inductive. *)
LEMMA InvStep ==
  ASSUME Inv, [Next]_vars
  PROVE  Inv'
<1>1. RegistryInv'
  BY RegistryStep DEF Inv
<1>2. TypeOK'
  BY <1>1, TypeStep DEF Inv
<1>3. (\A d \in Connections : ConnectionOK(d)') /\ TasksOK'
  BY AcceptKeeps, PostKeeps, DisconnectKeeps, HandleRegisterKeeps,
     RecordAcceptedEventKeeps, OnEventsCompleteKeeps, HandleCommandHeadersEndKeeps,
     OnTaskQueueChangedKeeps, OnCommandClaimCompleteKeeps, OnWriteKeeps, CloseKeeps,
     WriteUpsertAgentKeeps, WriteMarkAgentOfflineKeeps, WriteClaimKeeps,
     QueueTaskKeeps, NotifyTaskQueueChangedKeeps, StutterKeeps
     DEF Next, AgentStep, WorkerStep, StrandStep, WriteActorStep
<1> QED BY <1>1, <1>2, <1>3 DEF Inv

(* Sessions, streams, queues and tasks always have the types TypeOK gives. *)
THEOREM TypesHold == Spec => []TypeOK
<1>1. Inv => TypeOK
  BY DEF Inv
<1> QED BY <1>1, InitInv, InvStep, PTL DEF Spec

----------------------------------------------------------------------------
(* What the invariant says of claims, counted. *)
LEMMA InvOneClaim == Inv => OneClaimInFlight
<1> SUFFICES ASSUME Inv, NEW c \in Connections, Open(c)
             PROVE  /\ ClaimsOf(c) = IF stream[c].claiming THEN 1 ELSE 0
                    /\ stream[c].claiming => stream[c].body = Nil
  BY DEF OneClaimInFlight
<1> DEFINE Q == {i \in DOMAIN writes : writes[i] = [op |-> "claim", conn |-> c]}
           R == {p \in replies : p[1] = c}
<1>1. ClaimOK(c)
  BY DEF Inv, ConnectionOK
<1>2. DOMAIN writes = 1..Len(writes) /\ replies \subseteq Connections \X (Tasks \cup {Nil})
  BY DEF Inv, TypeOK
<1>3. Cardinality(Q) = IF Queued("claim", c) THEN 1 ELSE 0
  <2>1. \A i, j \in Q : i = j
    BY <1>1, <1>2 DEF ClaimOK, QueuedOnce, Once
  <2>2. Q = {} <=> ~Queued("claim", c)
    BY <1>2 DEF Queued, In
  <2> HIDE DEF Q
  <2> QED BY <2>1, <2>2, AtMostOne
<1>4. Cardinality(R) = IF \E t \in Tasks \cup {Nil} : Answered(c, t) THEN 1 ELSE 0
  <2>1. \A p \in R : p[2] \in Tasks \cup {Nil} /\ p = <<c, p[2]>> /\ Answered(c, p[2])
    BY <1>2 DEF Answered
  <2>2. \A p, q \in R : p = q
    BY <1>1, <2>1 DEF ClaimOK
  <2>3. R = {} <=> ~\E t \in Tasks \cup {Nil} : Answered(c, t)
    <3>1. \A t : Answered(c, t) => <<c, t>> \in R
      BY DEF Answered
    <3> QED BY <2>1, <3>1
  <2> HIDE DEF R
  <2> QED BY <2>2, <2>3, AtMostOne
<1>5. ClaimsOf(c) = Cardinality(Q) + Cardinality(R)
  BY DEF ClaimsOf
<1> HIDE DEF Q, R
<1> QED BY <1>1, <1>3, <1>4, <1>5 DEF ClaimOK, InFlight

(* The flag a session keeps for its claim is exact: one claim is with the  *)
(* actor or on its way back when it is set, none when it is not, and no    *)
(* claim is out while a task is being sent. *)
THEOREM OneClaimHolds == Spec => []OneClaimInFlight
BY InitInv, InvStep, InvOneClaim, PTL DEF Spec

(* What the invariant says of the places of a task. *)
LEMMA InvOnePlace == Inv => TaskInOnePlace
<1> SUFFICES ASSUME Inv, NEW t \in Tasks
             PROVE  /\ Cardinality(Whereabouts(t)) <= 1
                    /\ \A w \in Whereabouts(t) : w[2] = claimer[t]
                    /\ (state[t] = "assigned" /\ Open(claimer[t])
                          /\ client[claimer[t]] # "gone") => Whereabouts(t) # {}
  BY DEF TaskInOnePlace
<1> DEFINE W == Whereabouts(t)
<1>1. /\ TaskKept(t) /\ \A c \in Connections : TaskAt(c, t)
      /\ replies \subseteq Connections \X (Tasks \cup {Nil})
      /\ received \subseteq Connections \X Tasks
      /\ \A c \in Connections : DOMAIN output[c] = 1..Len(output[c])
  BY DEF Inv, TasksOK, TypeOK
<1>2. ASSUME NEW w \in W
      PROVE  \E c \in Connections :
               \/ w = <<"answer", c>> /\ Answered(c, t)
               \/ \E i \in 1..Len(output[c]) : w = <<"output", c, i>> /\ output[c][i] = t
               \/ w = <<"agent", c>> /\ Got(c, t)
  <2>1. CASE \E p \in replies : p[2] = t /\ w = <<"answer", p[1]>>
    BY <1>1, <2>1 DEF Answered
  <2>2. CASE \E c \in Connections : \E i \in DOMAIN output[c] :
               output[c][i] = t /\ w = <<"output", c, i>>
    BY <1>1, <2>2
  <2>3. CASE \E p \in received : p[2] = t /\ w = <<"agent", p[1]>>
    BY <1>1, <2>3 DEF Got
  <2> QED BY <2>1, <2>2, <2>3 DEF Whereabouts
<1>3. ASSUME NEW c \in Connections
      PROVE  /\ Answered(c, t) => <<"answer", c>> \in W
             /\ \A i \in 1..Len(output[c]) : output[c][i] = t => <<"output", c, i>> \in W
             /\ Got(c, t) => <<"agent", c>> \in W
  <2>1. Answered(c, t) => <<"answer", c>> \in W
    BY DEF Answered, Whereabouts
  <2>2. \A i \in 1..Len(output[c]) : output[c][i] = t => <<"output", c, i>> \in W
    BY <1>1 DEF Whereabouts
  <2>3. Got(c, t) => <<"agent", c>> \in W
    BY DEF Got, Whereabouts
  <2> QED BY <2>1, <2>2, <2>3
<1> HIDE DEF W
<1>4. \A w \in W : w[2] = claimer[t]
  BY <1>1, <1>2 DEF TaskAt, Carries, Sent, In
<1>5. \A v, w \in W : v = w
  BY <1>1, <1>2 DEF TaskAt, Carries, Sent, In, Once
<1>6. Cardinality(W) <= 1
  BY <1>5, AtMostOne
<1>7. ASSUME state[t] = "assigned", Open(claimer[t]), client[claimer[t]] # "gone"
      PROVE  W # {}
  BY <1>1, <1>3, <1>7 DEF TaskKept, Open, Carries, Sent, In
<1> QED BY <1>4, <1>6, <1>7 DEF W

(* A task is handed to one connection, is in one place on its way to the   *)
(* agent, and is not lost while that session and its agent are there. *)
THEOREM TaskInOnePlaceHolds == Spec => []TaskInOnePlace
BY InitInv, InvStep, InvOnePlace, PTL DEF Spec

(* What the invariant says of queued tasks. *)
LEMMA InvWakeup == Inv => WakeupPending
<1> SUFFICES ASSUME Inv, NEW c \in Connections, Live(c),
                    \E t \in Tasks : state[t] = "queued"
             PROVE  \/ publishing \/ c \in notified
                    \/ [op |-> "claim", conn |-> c] \in ToSet(writes)
                    \/ \E t \in Tasks : <<c, t>> \in replies
                    \/ stream[c].body # Nil
                    \/ /\ stream[c].refresh
                       /\ stream[c].claiming \/ output[c] # <<>> \/ event[c] = "answered"
  BY DEF WakeupPending
<1>1. SessionOK(c) /\ Remembers(c) /\ Looks(c)
  BY DEF Inv, ConnectionOK
<1>2. Queued("claim", c) => [op |-> "claim", conn |-> c] \in ToSet(writes)
  BY DEF Inv, TypeOK, Queued, In, ToSet
<1>3. stream[c].open
  BY <1>1 DEF SessionOK, Live
<1> QED BY <1>1, <1>2, <1>3 DEF Remembers, Looks, Answered

(* No wakeup is lost: while a task is queued and the agent's current       *)
(* connection has a command stream, something is due that will make it     *)
(* look again. *)
THEOREM WakeupHolds == Spec => []WakeupPending
BY InitInv, InvStep, InvWakeup, PTL DEF Spec
=============================================================================
