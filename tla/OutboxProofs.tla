---------------------------- MODULE OutboxProofs ----------------------------
(***************************************************************************)
(* The safety properties of Outbox, and that it implements Delivery, for   *)
(* any messages, relays and batch size.                                    *)
(***************************************************************************)
EXTENDS Outbox, TLAPS

(* Stamps are the order in which messages were built.                      *)
Stamps ==
  /\ \A m \in log : stamp[m] > 0
  /\ \A m, o \in Message : stamp[m] > 0 /\ stamp[m] = stamp[o] => m = o
  /\ \A m \in Message : \A o \in known[m] : stamp[o] < stamp[m]

(* A round that still has a message has all its older companions too, or   *)
(* they were delivered; the message it waits to delete was.                *)
Rounds ==
  \A k \in Relay :
    /\ \A m \in todo[k] : known[m] \subseteq todo[k] \cup got
    /\ acked[k] => /\ todo[k] # {}
                   /\ \A m \in Message : IsHead(k, m) => m \in got

(* A call can arrive late only if it could have arrived in time.           *)
Lates == \A m \in late : known[m] \subseteq got

Inv ==
  /\ TypeOK /\ NothingInvented /\ NothingLost /\ CausalOrder
  /\ Stamps /\ Rounds /\ Lates

(* Everything a head was built after has been delivered.                   *)
LEMMA HeadIsNext ==
  ASSUME Inv, NEW k \in Relay, NEW m \in Message, IsHead(k, m)
  PROVE  m \in log /\ known[m] \subseteq got
<1>1. m \in todo[k] /\ m \in log
  BY DEF Inv, TypeOK, IsHead
<1> SUFFICES ASSUME NEW o \in known[m], o \notin got
             PROVE  FALSE
  BY <1>1
<1>2. o \in todo[k]
  BY <1>1 DEF Inv, Rounds
<1>3. o \in Message /\ stamp[o] \in Nat /\ stamp[m] \in Nat
  BY DEF Inv, TypeOK
<1>4. stamp[o] < stamp[m] /\ stamp[m] <= stamp[o]
  BY <1>2 DEF Inv, Stamps, IsHead
<1> QED
  BY <1>3, <1>4

-----------------------------------------------------------------------------
LEMMA InitInv == Init => Inv
BY DEF Init, Inv, TypeOK, NothingInvented, NothingLost, CausalOrder, Stamps,
       Rounds, Lates

LEMMA CreateInv ==
  ASSUME Inv, NEW m \in Message, Create(m)
  PROVE  Inv'
<1> USE DEF Create
<1>1. clock \in Nat /\ \A o \in Message : stamp[o] \in 0 .. clock
  BY DEF Inv, TypeOK
<1>2. m \notin log
  BY DEF Inv, Stamps
<1>3. /\ clock' = clock + 1 /\ stamp'[m] = clock + 1 /\ known'[m] = log
      /\ \A o \in Message \ {m} : stamp'[o] = stamp[o] /\ known'[o] = known[o]
  BY DEF Inv, TypeOK
<1>4. TypeOK'
  BY <1>1 DEF Inv, TypeOK
<1>5. NothingInvented' /\ NothingLost'
  BY DEF Inv, NothingInvented, NothingLost
<1>6. m \notin got /\ m \notin late /\ \A k \in Relay : m \notin todo[k]
  BY <1>2 DEF Inv, TypeOK, NothingInvented
<1>7. CausalOrder'
  BY <1>3, <1>6 DEF Inv, CausalOrder, NothingInvented, TypeOK
<1>8. Stamps'
  <2>1. \A o \in log' : stamp'[o] > 0
    BY <1>2, <1>3 DEF Inv, Stamps, TypeOK
  <2>2. \A o \in Message : stamp'[o] = stamp[o] \/ o = m
    BY <1>3
  <2>3. \A o, p \in Message :
          stamp'[o] > 0 /\ stamp'[o] = stamp'[p] => o = p
    BY <1>1, <1>3, <2>2 DEF Inv, Stamps
  <2>4. \A o \in Message : \A p \in known'[o] : stamp'[p] < stamp'[o]
    <3> SUFFICES ASSUME NEW o \in Message, NEW p \in known'[o]
                 PROVE  stamp'[p] < stamp'[o]
      OBVIOUS
    <3>1. CASE o = m
      BY <1>1, <1>2, <1>3, <3>1 DEF Inv, TypeOK
    <3>2. CASE o # m
      BY <1>2, <1>3, <3>2 DEF Inv, TypeOK, Stamps
    <3> QED
      BY <3>1, <3>2
  <2> QED
    BY <2>1, <2>3, <2>4 DEF Stamps
<1>9. Rounds'
  <2>1. \A k \in Relay : \A o \in todo[k] : known'[o] = known[o]
    BY <1>3, <1>6 DEF Inv, TypeOK
  <2>2. \A k \in Relay, o \in Message : IsHead(k, o)' => IsHead(k, o)
    BY <1>3, <1>6 DEF Inv, TypeOK, IsHead
  <2> QED
    BY <2>1, <2>2 DEF Inv, Rounds
<1>10. Lates'
  BY <1>3, <1>6 DEF Inv, TypeOK, Lates
<1> QED
  BY <1>4, <1>5, <1>7, <1>8, <1>9, <1>10 DEF Inv

LEMMA CommitInv ==
  ASSUME Inv, NEW m \in Message, Commit(m)
  PROVE  Inv'
<1> USE DEF Commit
<1>1. TypeOK'
  BY DEF Inv, TypeOK
<1>2. NothingInvented' /\ NothingLost' /\ CausalOrder' /\ Stamps' /\ Lates'
  BY DEF Inv, NothingInvented, NothingLost, CausalOrder, Stamps, Lates
<1>3. Rounds'
  BY DEF Inv, Rounds, IsHead
<1> QED
  BY <1>1, <1>2, <1>3 DEF Inv

(* A batch is closed: what is older than a listed row is listed with it,   *)
(* or is not in the queue any more and was delivered.                      *)
LEMMA ListInv ==
  ASSUME Inv, NEW k \in Relay, List(k)
  PROVE  Inv'
<1> USE DEF List
<1>1. PICK S \in SUBSET queue :
        IsBatch(S) /\ todo' = [todo EXCEPT ![k] = S]
  OBVIOUS
<1>2. TypeOK'
  BY <1>1 DEF Inv, TypeOK
<1>3. NothingInvented' /\ NothingLost' /\ CausalOrder' /\ Stamps' /\ Lates'
  BY DEF Inv, NothingInvented, NothingLost, CausalOrder, Stamps, Lates
<1>4. \A m \in S : known[m] \subseteq S \cup got
  <2> SUFFICES ASSUME NEW m \in S, NEW o \in known[m], o \notin got
               PROVE  o \in S
    OBVIOUS
  <2>1. m \in Message /\ o \in Message /\ o \in log
    BY DEF Inv, TypeOK
  <2>2. o \in queue
    BY <2>1 DEF Inv, NothingLost
  <2>3. stamp[o] < stamp[m] /\ stamp[o] \in Nat /\ stamp[m] \in Nat
    BY <2>1 DEF Inv, TypeOK, Stamps
  <2>4. ~ (stamp[m] < stamp[o])
    BY <2>3
  <2> QED
    BY <1>1, <2>2, <2>4 DEF IsBatch
<1>5. ~ acked[k]
  BY DEF Inv, Rounds
<1>6. ASSUME NEW j \in Relay
      PROVE  /\ \A m \in todo'[j] : known[m] \subseteq todo'[j] \cup got
             /\ acked[j] => /\ todo'[j] # {}
                            /\ \A m \in Message : IsHead(j, m)' => m \in got
  <2>1. CASE j = k
    BY <1>1, <1>4, <1>5, <2>1 DEF Inv, TypeOK
  <2>2. CASE j # k
    BY <1>1, <2>2 DEF Inv, TypeOK, Rounds, IsHead
  <2> QED
    BY <2>1, <2>2
<1>7. Rounds'
  BY <1>6 DEF Rounds
<1> QED
  BY <1>2, <1>3, <1>7 DEF Inv

(* Whatever delivers a message that could be delivered keeps the order.    *)
LEMMA DeliveryKeepsOrder ==
  ASSUME Inv, NEW m \in Message, m \in log, known[m] \subseteq got,
         got' = got \cup {m}, UNCHANGED <<log, queue, known, stamp, clock>>
  PROVE  /\ (got \subseteq Message)' /\ NothingInvented' /\ NothingLost'
         /\ CausalOrder' /\ Stamps'
BY DEF Inv, TypeOK, NothingInvented, NothingLost, CausalOrder, Stamps

LEMMA PublishInv ==
  ASSUME Inv, NEW k \in Relay, NEW m \in Message, Publish(k, m)
  PROVE  Inv'
<1> USE DEF Publish
<1>1. m \in log /\ known[m] \subseteq got
  BY HeadIsNext
<1>2. NothingInvented' /\ NothingLost' /\ CausalOrder' /\ Stamps'
  BY <1>1, DeliveryKeepsOrder
<1>3. TypeOK'
  BY DEF Inv, TypeOK
<1>4. Lates'
  BY DEF Inv, Lates
<1>5. ASSUME NEW j \in Relay
      PROVE  /\ \A o \in todo'[j] : known'[o] \subseteq todo'[j] \cup got'
             /\ acked'[j] => /\ todo'[j] # {}
                             /\ \A o \in Message : IsHead(j, o)' => o \in got'
  <2>1. \A o \in todo'[j] : known'[o] \subseteq todo'[j] \cup got'
    BY DEF Inv, Rounds
  <2>2. \A o \in Message : IsHead(j, o)' <=> IsHead(j, o)
    BY DEF IsHead
  <2>3. CASE j = k
    <3>1. todo[k] # {}
      BY DEF IsHead
    <3>2. ASSUME NEW o \in Message, IsHead(k, o) PROVE o = m
      <4>1. stamp[o] \in Nat /\ stamp[m] \in Nat /\ stamp[m] > 0
        BY <1>1 DEF Inv, TypeOK, Stamps
      <4>2. stamp[o] <= stamp[m] /\ stamp[m] <= stamp[o]
        BY <3>2 DEF IsHead
      <4>3. stamp[o] = stamp[m]
        BY <4>1, <4>2
      <4> QED
        BY <4>1, <4>3 DEF Inv, Stamps
    <3> QED
      BY <2>1, <2>2, <2>3, <3>1, <3>2
  <2>4. CASE j # k
    BY <2>1, <2>2, <2>4 DEF Inv, TypeOK, Rounds
  <2> QED
    BY <2>3, <2>4
<1>6. Rounds'
  BY <1>5 DEF Rounds
<1> QED
  BY <1>2, <1>3, <1>4, <1>6 DEF Inv

LEMMA FailInv ==
  ASSUME Inv, NEW k \in Relay, NEW m \in Message, Fail(k, m)
  PROVE  Inv'
<1> USE DEF Fail
<1>1. m \in log /\ known[m] \subseteq got
  BY HeadIsNext
<1>2. TypeOK'
  BY <1>1 DEF Inv, TypeOK
<1>3. NothingInvented' /\ NothingLost' /\ CausalOrder' /\ Stamps'
  BY DEF Inv, NothingInvented, NothingLost, CausalOrder, Stamps
<1>4. Lates'
  BY <1>1 DEF Inv, Lates
<1>5. Rounds'
  BY DEF Inv, TypeOK, Rounds, IsHead
<1> QED
  BY <1>2, <1>3, <1>4, <1>5 DEF Inv

LEMMA ArriveLateInv ==
  ASSUME Inv, NEW m \in Message, ArriveLate(m)
  PROVE  Inv'
<1> USE DEF ArriveLate
<1>1. m \in log /\ known[m] \subseteq got
  BY DEF Inv, TypeOK, Lates
<1>2. NothingInvented' /\ NothingLost' /\ CausalOrder' /\ Stamps'
  BY <1>1, DeliveryKeepsOrder
<1>3. TypeOK'
  BY DEF Inv, TypeOK
<1>4. Lates'
  BY DEF Inv, Lates
<1>5. Rounds'
  BY DEF Inv, Rounds, IsHead
<1> QED
  BY <1>2, <1>3, <1>4, <1>5 DEF Inv

LEMMA MarkInv ==
  ASSUME Inv, NEW k \in Relay, NEW m \in Message, Mark(k, m)
  PROVE  Inv'
<1> USE DEF Mark
<1>1. m \in got
  BY DEF Inv, Rounds
<1>2. TypeOK'
  BY DEF Inv, TypeOK
<1>3. NothingInvented' /\ NothingLost' /\ CausalOrder' /\ Stamps' /\ Lates'
  BY <1>1 DEF Inv, NothingInvented, NothingLost, CausalOrder, Stamps, Lates
<1>4. Rounds'
  BY <1>1 DEF Inv, TypeOK, Rounds, IsHead
<1> QED
  BY <1>2, <1>3, <1>4 DEF Inv

LEMMA StopInv ==
  ASSUME Inv, NEW k \in Relay, Stop(k)
  PROVE  Inv'
<1> USE DEF Stop
<1>1. TypeOK'
  BY DEF Inv, TypeOK
<1>2. NothingInvented' /\ NothingLost' /\ CausalOrder' /\ Stamps' /\ Lates'
  BY DEF Inv, NothingInvented, NothingLost, CausalOrder, Stamps, Lates
<1>3. Rounds'
  BY DEF Inv, TypeOK, Rounds, IsHead
<1> QED
  BY <1>1, <1>2, <1>3 DEF Inv

LEMMA StutterInv == Inv /\ UNCHANGED vars => Inv'
BY DEF Inv, TypeOK, NothingInvented, NothingLost, CausalOrder, Stamps,
       Rounds, Lates, IsHead, vars

LEMMA NextInv == Inv /\ [Next]_vars => Inv'
<1> SUFFICES ASSUME Inv, [Next]_vars
             PROVE  Inv'
  OBVIOUS
<1>1. ASSUME NEW m \in Message, Create(m) PROVE Inv'
  BY <1>1, CreateInv
<1>2. ASSUME NEW m \in Message, Commit(m) PROVE Inv'
  BY <1>2, CommitInv
<1>3. ASSUME NEW m \in Message, ArriveLate(m) PROVE Inv'
  BY <1>3, ArriveLateInv
<1>4. ASSUME NEW k \in Relay, List(k) PROVE Inv'
  BY <1>4, ListInv
<1>5. ASSUME NEW k \in Relay, Stop(k) PROVE Inv'
  BY <1>5, StopInv
<1>6. ASSUME NEW k \in Relay, NEW m \in Message, Publish(k, m) PROVE Inv'
  BY <1>6, PublishInv
<1>7. ASSUME NEW k \in Relay, NEW m \in Message, Fail(k, m) PROVE Inv'
  BY <1>7, FailInv
<1>8. ASSUME NEW k \in Relay, NEW m \in Message, Mark(k, m) PROVE Inv'
  BY <1>8, MarkInv
<1>9. CASE UNCHANGED vars
  BY <1>9, StutterInv
<1> QED
  BY <1>1, <1>2, <1>3, <1>4, <1>5, <1>6, <1>7, <1>8, <1>9
     DEF Next, Relaying

(* The invariant holds in every reachable state.                           *)
THEOREM InvHolds == Spec => []Inv
BY InitInv, NextInv, PTL DEF Spec

(* No relay ever handles a message whose transaction did not commit.       *)
THEOREM TypeCorrect == Spec => []TypeOK
<1>1. Inv => TypeOK
  BY DEF Inv
<1> QED
  BY <1>1, InvHolds, PTL

(* Only committed messages are delivered.                                  *)
THEOREM OnlyCommitted == Spec => []NothingInvented
<1>1. Inv => NothingInvented
  BY DEF Inv
<1> QED
  BY <1>1, InvHolds, PTL

(* A committed message is in the queue until it was delivered, whatever    *)
(* stops or fails and however many relays there are.                       *)
THEOREM NeverLost == Spec => []NothingLost
<1>1. Inv => NothingLost
  BY DEF Inv
<1> QED
  BY <1>1, InvHolds, PTL

(* First deliveries respect the order in which messages were committed and *)
(* built, although several relays work on the queue and calls arrive late. *)
THEOREM OrderKept == Spec => []CausalOrder
<1>1. Inv => CausalOrder
  BY DEF Inv
<1> QED
  BY <1>1, InvHolds, PTL

-----------------------------------------------------------------------------
(* The outbox implements the safety part of at-least-once delivery: each   *)
(* step is one of Delivery or leaves the log, the deliveries and what      *)
(* messages knew unchanged.                                                *)
THEOREM DeliveryImplemented == Spec => ImplementsDelivery
<1>1. Init => Promise!Init
  BY DEF Init, Promise!Init
<1>2. Inv /\ [Next]_vars => [Promise!Next]_(Promise!vars)
  <2> SUFFICES ASSUME Inv, [Next]_vars
               PROVE  [Promise!Next]_(Promise!vars)
    OBVIOUS
  <2>1. ASSUME NEW m \in Message, Create(m) PROVE Promise!Create(m)
    BY <2>1 DEF Create, Promise!Create, Inv, Stamps
  <2>2. ASSUME NEW m \in Message, Commit(m) PROVE Promise!Commit(m)
    BY <2>2 DEF Commit, Promise!Commit
  <2>3. ASSUME NEW m \in Message, ArriveLate(m) PROVE Promise!Deliver(m)
    BY <2>3 DEF ArriveLate, Promise!Deliver, Inv, TypeOK, Lates
  <2>4. ASSUME NEW k \in Relay, NEW m \in Message, Publish(k, m)
        PROVE  Promise!Deliver(m)
    <3>1. m \in log /\ known[m] \subseteq got
      BY <2>4, HeadIsNext DEF Publish
    <3> QED
      BY <2>4, <3>1 DEF Publish, Promise!Deliver
  <2>5. ASSUME NEW k \in Relay,
               \/ List(k) \/ Stop(k)
               \/ \E m \in Message : Fail(k, m) \/ Mark(k, m)
        PROVE  UNCHANGED Promise!vars
    BY <2>5 DEF List, Stop, Fail, Mark, Promise!vars
  <2>6. CASE UNCHANGED vars
    BY <2>6 DEF vars, Promise!vars
  <2> QED
    BY <2>1, <2>2, <2>3, <2>4, <2>5, <2>6 DEF Next, Relaying, Promise!Next
<1> QED
  BY <1>1, <1>2, InvHolds, PTL DEF Spec, ImplementsDelivery, Promise!Spec
=============================================================================
