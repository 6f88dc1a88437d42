-------------------------- MODULE PackageQueueProofs --------------------------
(***************************************************************************)
(* Type correctness and the safety of the package stream, for any number   *)
(* of servers, requests and consumers and without the bounds' help.        *)
(***************************************************************************)
EXTENDS PackageQueue, FiniteSetTheorems, TLAPS

(* No message or consumer is ever in a state that RedisQueue has no name for. *)
THEOREM TypeCorrect == Spec => []TypeOK
<1> USE ServersAssumption, NoMessageAssumption DEF TypeOK
<1>1. Init => TypeOK
  <2> SUFFICES ASSUME Init PROVE TypeOK
    OBVIOUS
  <2>1. letters \in [Requests -> Nat] /\ processed \in [Requests -> Nat]
        /\ attempts \in [Requests -> Nat]
    BY DEF Init, Never
  <2> QED
    BY <2>1 DEF Init
<1>2. TypeOK /\ [Next]_vars => TypeOK'
  <2> SUFFICES ASSUME TypeOK, [Next]_vars PROVE TypeOK'
    OBVIOUS
  <2> USE DEF producers
  <2>1. ASSUME NEW m \in Requests, Produce(m) PROVE TypeOK'
    <3>1. CASE EnterCall(m)
      BY <3>1 DEF EnterCall, Call
    <3>2. CASE CreateGroup(m)
      BY <3>2 DEF CreateGroup, Call
    <3>3. CASE AddMessage(m)
      BY <3>3 DEF AddMessage, Call
    <3> QED
      BY <2>1, <3>1, <3>2, <3>3 DEF Produce
  <2>2. ASSUME NEW m \in Requests, Unreachable(m) PROVE TypeOK'
    BY <2>2 DEF Unreachable
  <2>3. ASSUME NEW s \in Servers, Restart(s) PROVE TypeOK'
    BY <2>3 DEF Restart
  <2>4. ASSUME NEW c \in Consumers, NEW m \in Requests, Take(c, m),
               delivered' \subseteq stream
        PROVE  TypeOK'
    BY <2>4 DEF Take
  <2>5. ASSUME NEW c \in Consumers, Settle(c) \/ Crash(c) PROVE TypeOK'
    <3>1. msg[c] \in Requests
      BY <2>5 DEF Settle, Succeed, GiveUp, Bury, Ack, Crash, Stage
    <3> QED
      BY <2>5, <3>1 DEF Settle, Succeed, GiveUp, Bury, Ack, Crash, Stage
  <2>6. CASE UNCHANGED vars
    BY <2>6 DEF vars
  <2> QED
    BY <2>1, <2>2, <2>3, <2>4, <2>5, <2>6
       DEF Next, Consume, Deliver, Redeliver
<1> QED
  BY <1>1, <1>2, PTL DEF Spec

-----------------------------------------------------------------------------
(* Nothing is lost: a consumer holds only delivered messages, and reaches   *)
(* its ack only with the message processed or dead-lettered.               *)

Coherent ==
  /\ \A m \in Requests : pending[m] # None => m \in delivered
  /\ \A c \in Consumers :
       /\ msg[c] # None => msg[c] \in delivered
       /\ stage[c] = "ack" => processed[msg[c]] + letters[msg[c]] > 0

LEMMA SettleFacts ==
  ASSUME TypeOK, NEW c \in Consumers, stage[c] # "idle"
  PROVE  /\ msg[c] \in Requests /\ processed[msg[c]] \in Nat
         /\ letters[msg[c]] \in Nat /\ attempts[msg[c]] \in Nat
BY DEF TypeOK

LEMMA NextKeeps ==
  TypeOK /\ TypeOK' /\ Coherent /\ NothingLost /\ [Next]_vars
    => Coherent' /\ NothingLost'
<1> SUFFICES ASSUME TypeOK, TypeOK', Coherent, NothingLost, [Next]_vars
             PROVE  Coherent' /\ NothingLost'
  OBVIOUS
<1> USE DEF Coherent, NothingLost, producers
<1>1. ASSUME UNCHANGED <<delivered, pending, letters, stage, msg, processed>>,
             stream \subseteq stream'
      PROVE  Coherent' /\ NothingLost'
  BY <1>1 DEF TypeOK
<1>2. ASSUME NEW m \in Requests, Produce(m) \/ Unreachable(m)
      PROVE  Coherent' /\ NothingLost'
  BY <1>1, <1>2
     DEF Produce, EnterCall, CreateGroup, AddMessage, Unreachable
<1>3. ASSUME NEW s \in Servers, Restart(s) PROVE Coherent' /\ NothingLost'
  BY <1>1, <1>3 DEF Restart
<1>4. ASSUME NEW c \in Consumers, NEW m \in Requests, Take(c, m),
             delivered \subseteq delivered', m \in delivered',
             delivered' \subseteq delivered \cup {m}
      PROVE  Coherent' /\ NothingLost'
  BY <1>4, NoMessageAssumption DEF Take, TypeOK
<1>5. ASSUME NEW c \in Consumers, Settle(c) \/ Crash(c)
      PROVE  Coherent' /\ NothingLost'
  <2> DEFINE m == msg[c]
  <2>1. /\ m \in Requests /\ processed[m] \in Nat /\ letters[m] \in Nat
        /\ \A x \in Requests : processed[x] \in Nat /\ letters[x] \in Nat
    BY <1>5, SettleFacts DEF Settle, Succeed, GiveUp, Bury, Ack, Crash, Stage,
       TypeOK
  <2>2. CASE Succeed(c)
    BY <2>1, <2>2 DEF Succeed, Stage, TypeOK
  <2>3. CASE GiveUp(c)
    BY <2>1, <2>3 DEF GiveUp, Stage, TypeOK
  <2>4. CASE Bury(c)
    BY <2>1, <2>4 DEF Bury, Stage, TypeOK
  <2>5. CASE Ack(c)
    BY <2>1, <2>5 DEF Ack, Stage, TypeOK
  <2>6. CASE Crash(c)
    BY <2>1, <2>6 DEF Crash, TypeOK
  <2> QED
    BY <1>5, <2>2, <2>3, <2>4, <2>5, <2>6 DEF Settle
<1>6. ASSUME NEW c \in Consumers, NEW m \in Requests,
             Deliver(c, m) \/ Redeliver(c, m)
      PROVE  Coherent' /\ NothingLost'
  BY <1>4, <1>6 DEF Deliver, Redeliver
<1>7. CASE UNCHANGED vars
  BY <1>7 DEF vars
<1> QED
  BY <1>2, <1>3, <1>5, <1>6, <1>7 DEF Next, Consume

(* Whatever fails and whoever crashes, a message that reached the stream is *)
(* to be delivered, held, processed or dead-lettered.                      *)
THEOREM NeverLost == Spec => []NothingLost
<1>1. Init => Coherent /\ NothingLost
  BY DEF Init, Coherent, NothingLost
<1> QED
  BY <1>1, TypeCorrect, NextKeeps, PTL DEF Spec

(* Calls fail only when a round trip does or their server stops.           *)
THEOREM NeverBusy == Spec => []FailsOnlyIfCut
<1>1. Init => FailsOnlyIfCut
  BY DEF Init, FailsOnlyIfCut
<1>2. TypeOK /\ FailsOnlyIfCut /\ [Next]_vars => FailsOnlyIfCut'
  <2> SUFFICES ASSUME TypeOK, FailsOnlyIfCut, [Next]_vars PROVE FailsOnlyIfCut'
    OBVIOUS
  <2> USE DEF FailsOnlyIfCut
  <2>1. ASSUME NEW m \in Requests, Produce(m) PROVE FailsOnlyIfCut'
    BY <2>1 DEF Produce, EnterCall, CreateGroup, AddMessage, Call, TypeOK
  <2>2. ASSUME NEW m \in Requests, Unreachable(m) PROVE FailsOnlyIfCut'
    BY <2>2 DEF Unreachable, TypeOK
  <2>3. ASSUME NEW s \in Servers, Restart(s) PROVE FailsOnlyIfCut'
    BY <2>3 DEF Restart, TypeOK
  <2>4. ASSUME UNCHANGED <<call, cut>> PROVE FailsOnlyIfCut'
    BY <2>4
  <2> QED
    BY <2>1, <2>2, <2>3, <2>4
       DEF Next, Consume, Settle, Succeed, GiveUp, Bury, Ack, Crash, Deliver,
           Redeliver, Take, producers, vars
<1> QED
  BY <1>1, <1>2, TypeCorrect, PTL DEF Spec

-----------------------------------------------------------------------------
(* Each attempt ends in at most one of a success and a dead letter: the     *)
(* attempts that are not over yet are counted with the outcomes.           *)

Holders(m) == {c \in Consumers : msg[c] = m /\ stage[c] \in {"work", "bury"}}

Counted ==
  \A m \in Requests :
    processed[m] + letters[m] + Cardinality(Holders(m)) <= attempts[m]

LEMMA HoldersFinite ==
  ASSUME NEW m
  PROVE  IsFiniteSet(Holders(m)) /\ Cardinality(Holders(m)) \in Nat
<1>1. Holders(m) \subseteq Consumers
  BY DEF Holders
<1> QED
  BY <1>1, ConsumersAssumption, FS_Subset, FS_CardinalityType

LEMMA CountedSame ==
  ASSUME Counted, UNCHANGED <<letters, processed, attempts>>,
         \A m \in Requests : Holders(m)' = Holders(m)
  PROVE  Counted'
BY DEF Counted

(* One holder less.                                                        *)
LEMMA CountedDown ==
  ASSUME TypeOK, Counted, NEW c \in Consumers, stage[c] \in {"work", "bury"},
         UNCHANGED attempts,
         \A m \in Requests : Holders(m)' = Holders(m) \ {c},
         \A m \in Requests : m # msg[c] =>
           processed'[m] = processed[m] /\ letters'[m] = letters[m],
         processed'[msg[c]] + letters'[msg[c]]
           <= processed[msg[c]] + letters[msg[c]] + 1,
         processed'[msg[c]] \in Nat, letters'[msg[c]] \in Nat
  PROVE  Counted'
<1> SUFFICES ASSUME NEW m \in Requests
             PROVE  processed'[m] + letters'[m] + Cardinality(Holders(m)')
                      <= attempts'[m]
  BY DEF Counted
<1>1. Cardinality(Holders(m)') = IF c \in Holders(m)
                                 THEN Cardinality(Holders(m)) - 1
                                 ELSE Cardinality(Holders(m))
  BY HoldersFinite, FS_RemoveElement
<1>2. c \in Holders(m) <=> m = msg[c]
  BY DEF Holders
<1>3. processed[m] \in Nat /\ letters[m] \in Nat /\ attempts[m] \in Nat
  BY DEF TypeOK
<1>4. Cardinality(Holders(m)) \in Nat
  BY HoldersFinite
<1>5. processed[m] + letters[m] + Cardinality(Holders(m)) <= attempts[m]
  BY DEF Counted
<1> QED
  BY <1>1, <1>2, <1>3, <1>4, <1>5

LEMMA TakeCounted ==
  ASSUME TypeOK, Counted, NEW c \in Consumers, NEW m \in Requests, Take(c, m)
  PROVE  Counted'
<1> SUFFICES ASSUME NEW x \in Requests
             PROVE  processed'[x] + letters'[x] + Cardinality(Holders(x)')
                      <= attempts'[x]
  BY DEF Counted
<1>1. Holders(x)' = IF x = m THEN Holders(x) \cup {c} ELSE Holders(x)
  BY NoMessageAssumption DEF Holders, Take, TypeOK
<1>2. c \notin Holders(x)
  BY DEF Holders, Take
<1>3. Cardinality(Holders(x) \cup {c}) = Cardinality(Holders(x)) + 1
  BY <1>2, HoldersFinite, FS_AddElement
<1>4. Cardinality(Holders(x)') = IF x = m THEN Cardinality(Holders(x)) + 1
                                 ELSE Cardinality(Holders(x))
  BY <1>1, <1>3
<1>5. /\ processed[x] \in Nat /\ letters[x] \in Nat /\ attempts[x] \in Nat
      /\ processed'[x] = processed[x] /\ letters'[x] = letters[x]
      /\ attempts'[x] = IF x = m THEN attempts[x] + 1 ELSE attempts[x]
  BY DEF TypeOK, Take
<1>6. processed[x] + letters[x] + Cardinality(Holders(x)) <= attempts[x]
  BY DEF Counted
<1> QED
  BY <1>4, <1>5, <1>6, HoldersFinite

LEMMA SettleCounted ==
  ASSUME TypeOK, Counted, NEW c \in Consumers, Settle(c) \/ Crash(c)
  PROVE  Counted'
<1> DEFINE m == msg[c]
<1>1. /\ m \in Requests /\ processed[m] \in Nat /\ letters[m] \in Nat
      /\ \A x \in Requests : processed[x] \in Nat /\ letters[x] \in Nat
  BY SettleFacts DEF Settle, Succeed, GiveUp, Bury, Ack, Crash, Stage, TypeOK
<1>2. CASE Succeed(c)
  <2>1. \A x \in Requests : Holders(x)' = Holders(x) \ {c}
    BY <1>2 DEF Succeed, Stage, Holders, TypeOK
  <2>2. /\ \A x \in Requests : x # m => processed'[x] = processed[x]
        /\ processed'[m] = processed[m] + 1 /\ UNCHANGED <<letters, attempts>>
    BY <1>1, <1>2 DEF Succeed, TypeOK
  <2> QED
    BY <1>1, <1>2, <2>1, <2>2, CountedDown DEF Succeed, Stage
<1>3. CASE Bury(c)
  <2>1. \A x \in Requests : Holders(x)' = Holders(x) \ {c}
    BY <1>3 DEF Bury, Stage, Holders, TypeOK
  <2>2. /\ \A x \in Requests : x # m => letters'[x] = letters[x]
        /\ letters'[m] = letters[m] + 1 /\ UNCHANGED <<processed, attempts>>
    BY <1>1, <1>3 DEF Bury, TypeOK
  <2> QED
    BY <1>1, <1>3, <2>1, <2>2, CountedDown DEF Bury, Stage
<1>4. CASE GiveUp(c)
  <2>1. \A x \in Requests : Holders(x)' = Holders(x)
    BY <1>4 DEF GiveUp, Stage, Holders, TypeOK
  <2> QED
    BY <1>4, <2>1, CountedSame DEF GiveUp
<1>5. CASE Ack(c)
  <2>1. \A x \in Requests : Holders(x)' = Holders(x)
    BY <1>5, NoMessageAssumption DEF Ack, Stage, Holders, TypeOK
  <2> QED
    BY <1>5, <2>1, CountedSame DEF Ack
<1>6. CASE Crash(c)
  <2>1. CASE stage[c] = "ack"
    <3>1. \A x \in Requests : Holders(x)' = Holders(x)
      BY <1>6, <2>1, NoMessageAssumption DEF Crash, Holders, TypeOK
    <3> QED
      BY <1>6, <3>1, CountedSame DEF Crash
  <2>2. CASE stage[c] # "ack"
    <3>1. \A x \in Requests : Holders(x)' = Holders(x) \ {c}
      BY <1>6, <2>2, NoMessageAssumption DEF Crash, Holders, TypeOK
    <3>2. stage[c] \in {"work", "bury"}
      BY <1>6, <2>2 DEF Crash, TypeOK
    <3> QED
      BY <1>1, <1>6, <3>1, <3>2, CountedDown DEF Crash
  <2> QED
    BY <2>1, <2>2
<1> QED
  BY <1>2, <1>3, <1>4, <1>5, <1>6 DEF Settle

(* No message has more outcomes than deliveries.                           *)
THEOREM NeverRepeated == Spec => []OnlyRedeliveryRepeats
<1>1. Init => Counted
  <2> SUFFICES ASSUME Init PROVE Counted
    OBVIOUS
  <2>1. \A m \in Requests : Holders(m) = {}
    BY DEF Init, Holders
  <2> QED
    BY <2>1, FS_EmptySet DEF Init, Never, Counted
<1>2. TypeOK /\ Counted /\ [Next]_vars => Counted'
  <2> SUFFICES ASSUME TypeOK, Counted, [Next]_vars PROVE Counted'
    OBVIOUS
  <2>1. ASSUME UNCHANGED <<letters, processed, attempts, msg, stage>>
        PROVE  Counted'
    BY <2>1, CountedSame DEF Holders
  <2>2. ASSUME NEW m \in Requests, Produce(m) \/ Unreachable(m) PROVE Counted'
    BY <2>1, <2>2
       DEF Produce, EnterCall, CreateGroup, AddMessage, Unreachable
  <2>3. ASSUME NEW s \in Servers, Restart(s) PROVE Counted'
    BY <2>1, <2>3 DEF Restart
  <2>4. CASE UNCHANGED vars
    BY <2>1, <2>4 DEF vars
  <2> QED
    BY <2>2, <2>3, <2>4, TakeCounted, SettleCounted
       DEF Next, Consume, Deliver, Redeliver
<1>3. TypeOK /\ Counted => OnlyRedeliveryRepeats
  <2> SUFFICES ASSUME TypeOK, Counted, NEW m \in Requests
               PROVE  processed[m] + letters[m] <= attempts[m]
    BY DEF OnlyRedeliveryRepeats
  <2>1. /\ processed[m] \in Nat /\ letters[m] \in Nat /\ attempts[m] \in Nat
        /\ Cardinality(Holders(m)) \in Nat
    BY HoldersFinite DEF TypeOK
  <2> QED
    BY <2>1 DEF Counted
<1> QED
  BY <1>1, <1>2, <1>3, TypeCorrect, PTL DEF Spec
=============================================================================
