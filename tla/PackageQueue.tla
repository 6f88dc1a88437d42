---------------------------- MODULE PackageQueue -----------------------------
(***************************************************************************)
(* The package stream (app/utils/redis_queue.py): server processes that    *)
(* add messages on behalf of requests, the consumer group Redis keeps for  *)
(* them, and consumers that acknowledge or dead-letter what they were      *)
(* given.  The consumers belong to another service, the Dagster extractor; *)
(* they are modelled from the operations this class offers them, they may  *)
(* crash between any two steps, and Redis hands what they leave pending to *)
(* another one.  A step is one round trip to Redis.                        *)
(***************************************************************************)
EXTENDS Integers, FiniteSets

CONSTANTS
  Servers,      \* processes of this service, each with one RedisQueue
  Requests,     \* calls of add_package_message; each is also its message
  ServerOf,     \* the process that serves a request
  Consumers,
  MaxAttempts,  \* bound on how often a message is delivered
  MaxCuts,      \* bound on requests hit by a failure or a restart
  None

ASSUME ServersAssumption == ServerOf \in [Requests -> Servers]
ASSUME LimitsAssumption == MaxAttempts \in Nat /\ MaxCuts \in Nat
ASSUME ConsumersAssumption == IsFiniteSet(Consumers)
ASSUME NoMessageAssumption == None \notin Requests /\ None \notin Consumers

VARIABLES
  ready,      \* servers whose _stream_initialized is set
  call,       \* where each add_package_message stands
  cut,        \* requests that a failing round trip or a restart hit
  group,      \* Redis: has the consumer group been created?
  stream,     \* Redis: the messages in the stream; an ack removes none
  delivered,  \* Redis: the part of it the group has handed out
  pending,    \* Redis: who holds each delivered, unacknowledged message
  letters,    \* Redis: how often each message is in the dead letter stream
  stage, msg, \* where each consumer stands, and with which message
  processed,  \* history: how often each message was processed with success
  attempts    \* history: how often each message was delivered

producers == <<ready, call, cut>>
vars == <<producers, group, stream, delivered, pending, letters, stage, msg,
          processed, attempts>>

TypeOK ==
  /\ ready \subseteq Servers
  /\ call \in [Requests -> {"new", "create", "add", "queued", "failed"}]
  /\ cut \subseteq Requests
  /\ group \in BOOLEAN
  /\ stream \subseteq Requests
  /\ delivered \subseteq stream
  /\ pending \in [Requests -> Consumers \cup {None}]
  /\ letters \in [Requests -> Nat]
  /\ stage \in [Consumers -> {"idle", "work", "bury", "ack"}]
  /\ msg \in [Consumers -> Requests \cup {None}]
  /\ processed \in [Requests -> Nat]
  /\ attempts \in [Requests -> Nat]
  /\ \A c \in Consumers : stage[c] = "idle" <=> msg[c] = None

Never == [m \in Requests |-> 0]

Init ==
  /\ ready = {} /\ call = [m \in Requests |-> "new"] /\ cut = {}
  /\ group = FALSE /\ stream = {} /\ delivered = {}
  /\ pending = [m \in Requests |-> None] /\ letters = Never
  /\ stage = [c \in Consumers |-> "idle"] /\ msg = [c \in Consumers |-> None]
  /\ processed = Never /\ attempts = Never

-----------------------------------------------------------------------------
(* add_package_message, for POST /graph/package/init and queue_packages.   *)

Call(m, here, there) == call[m] = here /\ call' = [call EXCEPT ![m] = there]

\* _ensure_stream returns at once when the flag of the process is set.
EnterCall(m) ==
  /\ Call(m, "new", IF ServerOf[m] \in ready THEN "add" ELSE "create")
  /\ UNCHANGED <<ready, cut, group, stream, delivered, pending, letters, stage,
                 msg, processed, attempts>>

\* Mutant: BUSYGROUP is raised like any other error.
CreateGroup_Busy(m) ==
  /\ Call(m, "create", IF group THEN "failed" ELSE "add")
  /\ group' = TRUE /\ ready' = ready \cup {ServerOf[m]}
  /\ UNCHANGED <<cut, stream, delivered, pending, letters, stage, msg,
                 processed, attempts>>

\* Mutant: the flag is set before the group is created, and the error dropped.
CreateGroup_FlagOnly(m) ==
  /\ Call(m, "create", "add")
  /\ ready' = ready \cup {ServerOf[m]}
  /\ UNCHANGED <<cut, group, stream, delivered, pending, letters, stage, msg,
                 processed, attempts>>

\* xgroup_create; BUSYGROUP, when another request or process was faster, is as
\* good.
CreateGroup(m) ==
  /\ Call(m, "create", "add")
  /\ group' = TRUE /\ ready' = ready \cup {ServerOf[m]}
  /\ UNCHANGED <<cut, stream, delivered, pending, letters, stage, msg,
                 processed, attempts>>

\* xadd; then the caller answers or goes on.
AddMessage(m) ==
  /\ Call(m, "add", "queued")
  /\ stream' = stream \cup {m}
  /\ UNCHANGED <<ready, cut, group, delivered, pending, letters, stage, msg,
                 processed, attempts>>

\* A round trip fails, before or after Redis has carried the command out, and
\* the exception reaches the caller.
Unreachable(m) ==
  /\ call[m] \in {"create", "add"} /\ Cardinality(cut) < MaxCuts
  /\ call' = [call EXCEPT ![m] = "failed"]
  /\ cut' = cut \cup {m}
  /\ group' \in {group, group \/ call[m] = "create"}
  /\ stream' \in {stream, stream \cup {x \in {m} : call[m] = "add"}}
  /\ UNCHANGED <<ready, delivered, pending, letters, stage, msg, processed,
                 attempts>>

\* A server stops and starts again: its flag and the calls it served are gone.
Restart(s) ==
  LET lost == {m \in Requests : ServerOf[m] = s /\ call[m] \in {"create", "add"}}
  IN /\ Cardinality(cut \cup lost) <= MaxCuts
     /\ ready' = ready \ {s}
     /\ call' = [m \in Requests |-> IF m \in lost THEN "failed" ELSE call[m]]
     /\ cut' = cut \cup lost
     /\ UNCHANGED <<group, stream, delivered, pending, letters, stage, msg,
                    processed, attempts>>

-----------------------------------------------------------------------------
(* The consumer group, and what its consumers do with this class.          *)

Take(c, m) ==
  /\ stage[c] = "idle"
  /\ stage' = [stage EXCEPT ![c] = "work"] /\ msg' = [msg EXCEPT ![c] = m]
  /\ pending' = [pending EXCEPT ![m] = c]
  /\ attempts' = [attempts EXCEPT ![m] = @ + 1]
  /\ UNCHANGED <<producers, group, stream, letters, processed>>

Deliver(c, m) ==
  /\ group /\ m \in stream \ delivered
  /\ Take(c, m)
  /\ delivered' = delivered \cup {m}

\* A message that has been pending for long is given to another consumer, its
\* holder having crashed or not.
Orphaned(m) == pending[m] # None /\ msg[pending[m]] # m

Redeliver(c, m) ==
  /\ pending[m] # None /\ (Orphaned(m) \/ attempts[m] < MaxAttempts)
  /\ Take(c, m)
  /\ UNCHANGED delivered

Stage(c, here, there) ==
  stage[c] = here /\ stage' = [stage EXCEPT ![c] = there]

\* Mutant: the consumer forgets which message it holds before the ack.
Succeed_Forgotten(c) ==
  /\ Stage(c, "work", "ack")
  /\ processed' = [processed EXCEPT ![msg[c]] = @ + 1]
  /\ msg' = [msg EXCEPT ![c] = None]
  /\ UNCHANGED <<producers, group, stream, delivered, pending, letters,
                 attempts>>

Succeed(c) ==
  /\ Stage(c, "work", "ack")
  /\ processed' = [processed EXCEPT ![msg[c]] = @ + 1]
  /\ UNCHANGED <<producers, group, stream, delivered, pending, letters, msg,
                 attempts>>

\* Mutant: dead_letter acknowledges first.
GiveUp_AckFirst(c) ==
  /\ Stage(c, "work", "bury")
  /\ pending' = [pending EXCEPT ![msg[c]] = None]
  /\ UNCHANGED <<producers, group, stream, delivered, letters, msg, processed,
                 attempts>>

\* Processing failed: the consumer calls dead_letter.
GiveUp(c) ==
  /\ Stage(c, "work", "bury")
  /\ UNCHANGED <<producers, group, stream, delivered, pending, letters, msg,
                 processed, attempts>>

\* Mutant: the dead letter is written again before the ack.
Bury_Twice(c) ==
  /\ stage[c] = "bury"
  /\ stage' \in {stage, [stage EXCEPT ![c] = "ack"]}
  /\ letters[msg[c]] < 3
  /\ letters' = [letters EXCEPT ![msg[c]] = @ + 1]
  /\ UNCHANGED <<producers, group, stream, delivered, pending, msg, processed,
                 attempts>>

\* dead_letter: xadd to the dead letter stream, then the ack below.
Bury(c) ==
  /\ Stage(c, "bury", "ack")
  /\ letters' = [letters EXCEPT ![msg[c]] = @ + 1]
  /\ UNCHANGED <<producers, group, stream, delivered, pending, msg, processed,
                 attempts>>

\* xack, whoever holds the message by now.
Ack(c) ==
  /\ Stage(c, "ack", "idle")
  /\ pending' = [pending EXCEPT ![msg[c]] = None]
  /\ msg' = [msg EXCEPT ![c] = None]
  /\ UNCHANGED <<producers, group, stream, delivered, letters, processed,
                 attempts>>

Crash(c) ==
  /\ stage[c] # "idle" /\ attempts[msg[c]] < MaxAttempts
  /\ stage' = [stage EXCEPT ![c] = "idle"] /\ msg' = [msg EXCEPT ![c] = None]
  /\ UNCHANGED <<producers, group, stream, delivered, pending, letters,
                 processed, attempts>>

-----------------------------------------------------------------------------
Produce(m) == EnterCall(m) \/ CreateGroup(m) \/ AddMessage(m)

Settle(c) == Succeed(c) \/ GiveUp(c) \/ Bury(c) \/ Ack(c)

Consume(c) ==
  Settle(c) \/ \E m \in Requests : Deliver(c, m) \/ Redeliver(c, m)

Next ==
  \/ \E m \in Requests : Produce(m) \/ Unreachable(m)
  \/ \E s \in Servers : Restart(s)
  \/ \E c \in Consumers : Consume(c) \/ Crash(c)

Spec == Init /\ [][Next]_vars

\* The event loop of a server goes on with the calls it holds.  That consumers
\* run, read what is new and reclaim what a crashed one left is assumed of the
\* extractor; without it nothing could be promised about a message.
FairSpec ==
  /\ Spec
  /\ \A m \in Requests : WF_vars(Produce(m) /\ call[m] # "new")
  /\ \A c \in Consumers : WF_vars(Settle(c))
  /\ \A m \in Requests :
       /\ SF_vars(\E c \in Consumers : Deliver(c, m))
       /\ SF_vars(\E c \in Consumers : Orphaned(m) /\ Redeliver(c, m))

-----------------------------------------------------------------------------
(* What the stream promises.                                               *)

\* A message in the stream is still to be delivered, is held by a consumer, or
\* was processed or dead-lettered: wherever a consumer crashes, also inside
\* dead_letter, it is not lost.
NothingLost ==
  \A m \in stream :
    m \notin delivered \/ pending[m] # None \/ processed[m] + letters[m] > 0

\* A message is processed or dead-lettered at most once for each time it was
\* delivered: only a redelivery, after a crash between the dead letter and its
\* ack for instance, makes a duplicate.
OnlyRedeliveryRepeats ==
  \A m \in Requests : processed[m] + letters[m] <= attempts[m]

\* However the calls of several processes race to create the group, a call
\* fails only when Redis cannot be reached or its server stops.
FailsOnlyIfCut == \A m \in Requests : call[m] = "failed" => m \in cut

\* Every message that was added is at last processed or dead-lettered, and
\* acknowledged.
EventuallySettled ==
  \A m \in Requests : m \in stream ~>
    m \in delivered /\ pending[m] = None /\ processed[m] + letters[m] > 0
=============================================================================
