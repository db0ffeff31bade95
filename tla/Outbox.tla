------------------------------- MODULE Outbox -------------------------------
(***************************************************************************)
(* The transactional outbox and its relay (shared/outbox, and the outbox   *)
(* and events tables of a context).  A use case builds a message, stamped  *)
(* with the time, and writes it to the queue and to the log in the         *)
(* transaction that stores its aggregate.  Relays, one in each process of  *)
(* the service, list the oldest rows, publish them one by one and delete   *)
(* each row after its message was accepted.                                *)
(*                                                                         *)
(* A publish whose answer does not come in time ends the round; the call   *)
(* may be lost or may reach the consumer late, after other calls.          *)
(***************************************************************************)
EXTENDS Integers, FiniteSets

CONSTANTS
  Message,      \* the messages that may be built, each once
  Relay,        \* the relays that share the queue
  Batch         \* most rows one round lists

ASSUME BatchAssumption == Batch \in Nat \ {0}

VARIABLES
  clock,        \* the last time stamped on a message
  stamp,        \* occurred_at of each message, 0 before it is built
  log,          \* committed messages: the events table
  queue,        \* committed and not yet deleted: the outbox table
  todo,         \* rows of its round each relay has not deleted yet
  acked,        \* the oldest of them was accepted by the consumer
  late,         \* messages of calls their relay no longer waits for
  got,          \* history: messages the consumer has received
  known         \* history: what was committed when a message was built

vars == <<clock, stamp, log, queue, todo, acked, late, got, known>>

Init ==
  /\ clock = 0
  /\ stamp = [m \in Message |-> 0]
  /\ log = {}
  /\ queue = {}
  /\ todo = [k \in Relay |-> {}]
  /\ acked = [k \in Relay |-> FALSE]
  /\ late = {}
  /\ got = {}
  /\ known = [m \in Message |-> {}]

-----------------------------------------------------------------------------
(* Mutant: the row is written before the transaction, not in it.           *)
CreateAndEnqueue(m) ==
  /\ stamp[m] = 0
  /\ clock' = clock + 1
  /\ stamp' = [stamp EXCEPT ![m] = clock']
  /\ known' = [known EXCEPT ![m] = log]
  /\ queue' = queue \cup {m}
  /\ UNCHANGED <<log, todo, acked, late, got>>

(* A use case builds a message and its transaction is still open.          *)
Create(m) ==
  /\ stamp[m] = 0
  /\ clock' = clock + 1
  /\ stamp' = [stamp EXCEPT ![m] = clock']
  /\ known' = [known EXCEPT ![m] = log]
  /\ UNCHANGED <<log, queue, todo, acked, late, got>>

(* The transaction commits; one that rolls back leaves no trace.           *)
Commit(m) ==
  /\ stamp[m] > 0 /\ m \notin log
  /\ log' = log \cup {m}
  /\ queue' = queue \cup {m}
  /\ UNCHANGED <<clock, stamp, todo, acked, late, got, known>>

(* Mutant: the rows are listed in no particular order.                     *)
IsAnyBatch(S) ==
  /\ S \subseteq queue /\ Cardinality(S) <= Batch
  /\ S = queue \/ Cardinality(S) = Batch

(* The oldest rows, at most Batch of them.                                 *)
IsBatch(S) ==
  /\ S \subseteq queue /\ Cardinality(S) <= Batch
  /\ S = queue \/ Cardinality(S) = Batch
  /\ \A m \in S, o \in queue \ S : stamp[m] < stamp[o]

List(k) ==
  /\ todo[k] = {} /\ queue # {}
  /\ \E S \in SUBSET queue : IsBatch(S) /\ todo' = [todo EXCEPT ![k] = S]
  /\ UNCHANGED <<clock, stamp, log, queue, acked, late, got, known>>

IsHead(k, m) ==
  m \in todo[k] /\ \A o \in todo[k] : stamp[m] <= stamp[o]

(* Publish reaches the consumer and its answer the relay.                  *)
Publish(k, m) ==
  /\ IsHead(k, m) /\ ~ acked[k]
  /\ got' = got \cup {m}
  /\ acked' = [acked EXCEPT ![k] = TRUE]
  /\ UNCHANGED <<clock, stamp, log, queue, todo, late, known>>

(* Mutants: the round goes on with the next message; the row is deleted    *)
(* whether or not the message was accepted.                                *)
FailAndGoOn(k, m) ==
  /\ IsHead(k, m) /\ ~ acked[k]
  /\ todo' = [todo EXCEPT ![k] = @ \ {m}]
  /\ late' = late \cup {m}
  /\ UNCHANGED <<clock, stamp, log, queue, acked, got, known>>

FailAndDelete(k, m) ==
  /\ IsHead(k, m) /\ ~ acked[k]
  /\ todo' = [todo EXCEPT ![k] = @ \ {m}]
  /\ queue' = queue \ {m}
  /\ UNCHANGED <<clock, stamp, log, acked, late, got, known>>

(* Publish returns an error, and the round ends.                           *)
Fail(k, m) ==
  /\ IsHead(k, m) /\ ~ acked[k]
  /\ todo' = [todo EXCEPT ![k] = {}]
  /\ late' = late \cup {m}
  /\ UNCHANGED <<clock, stamp, log, queue, acked, got, known>>

ArriveLate(m) ==
  /\ m \in late
  /\ late' = late \ {m}
  /\ got' = got \cup {m}
  /\ UNCHANGED <<clock, stamp, log, queue, todo, acked, known>>

(* Mutant: the row stays.                                                  *)
MarkKeeping(k, m) ==
  /\ IsHead(k, m) /\ acked[k]
  /\ todo' = [todo EXCEPT ![k] = @ \ {m}]
  /\ acked' = [acked EXCEPT ![k] = FALSE]
  /\ UNCHANGED <<clock, stamp, log, queue, late, got, known>>

(* MarkPublished deletes the row, if another relay has not.                *)
Mark(k, m) ==
  /\ IsHead(k, m) /\ acked[k]
  /\ queue' = queue \ {m}
  /\ todo' = [todo EXCEPT ![k] = @ \ {m}]
  /\ acked' = [acked EXCEPT ![k] = FALSE]
  /\ UNCHANGED <<clock, stamp, log, late, got, known>>

(* The process ends, or MarkPublished fails: the round is forgotten.       *)
Stop(k) ==
  /\ todo[k] # {}
  /\ todo' = [todo EXCEPT ![k] = {}]
  /\ acked' = [acked EXCEPT ![k] = FALSE]
  /\ UNCHANGED <<clock, stamp, log, queue, late, got, known>>

Relaying(k) ==
  List(k) \/ Stop(k) \/ \E m \in Message : Publish(k, m) \/ Fail(k, m)
                                             \/ Mark(k, m)

Next ==
  \/ \E m \in Message : Create(m) \/ Commit(m) \/ ArriveLate(m)
  \/ \E k \in Relay : Relaying(k)

Spec == Init /\ [][Next]_vars

(* A round begins at every interval.  The other service and the database   *)
(* may fail again and again, but not whenever they are called.             *)
FairSpec ==
  /\ Spec
  /\ \A k \in Relay :
       /\ WF_vars(List(k))
       /\ SF_vars(\E m \in Message : Publish(k, m))
       /\ SF_vars(\E m \in Message : Mark(k, m))

-----------------------------------------------------------------------------
(* What a relay lists, publishes or has lost sight of was committed.       *)
TypeOK ==
  /\ clock \in Nat
  /\ stamp \in [Message -> 0 .. clock]
  /\ log \subseteq Message
  /\ queue \subseteq log
  /\ todo \in [Relay -> SUBSET log]
  /\ acked \in [Relay -> BOOLEAN]
  /\ late \subseteq log
  /\ got \subseteq Message
  /\ known \in [Message -> SUBSET log]

(* No message is delivered whose transaction did not commit: the queue is  *)
(* written in the transaction of the aggregate (outbox.go: Enqueue).  A run*)
(* checks it as part of ImplementsDelivery, whose Deliver wants m in log.  *)
NothingInvented == got \subseteq log

(* No committed message disappears from the queue before it was delivered, *)
(* whenever a relay stops, an answer is lost or two relays handle the same *)
(* row (outbox.go: RunOnce publishes first and deletes afterwards).        *)
NothingLost == log \subseteq queue \cup got

(* A message is not delivered for the first time before those that were    *)
(* committed when it was built, however many relays there are and whatever *)
(* arrives late: rounds go from the oldest row and end at the first error  *)
(* (queries.sql: ListUnpublishedOutbox; outbox.go: RunOnce).               *)
CausalOrder == \A m \in got : known[m] \subseteq got

(* Messages being finite in number, every committed one leaves the queue:  *)
(* neither a relay that stops, nor one that holds rows another has already *)
(* deleted, nor a batch full of old rows keeps the rest back for ever      *)
(* (outbox.go: Run begins a round at every interval).                      *)
Drained == []<>(queue = {})

Promise == INSTANCE Delivery

(* The outbox implements at-least-once delivery in causal order.           *)
ImplementsDelivery == Promise!Spec
=============================================================================
