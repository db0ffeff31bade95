------------------------------ MODULE Delivery ------------------------------
(***************************************************************************)
(* What the transactional outbox promises (shared/outbox): a message is    *)
(* committed together with the aggregate it speaks of, every committed     *)
(* message is delivered, possibly several times, and a message is not      *)
(* delivered for the first time before the messages that were committed    *)
(* when it was built.                                                      *)
(***************************************************************************)
CONSTANT Message

VARIABLES
  log,          \* committed messages, the permanent record
  got,          \* messages the consumer has received at least once
  known         \* known[m]: what was committed when m was built

vars == <<log, got, known>>

Init ==
  /\ log = {}
  /\ got = {}
  /\ known = [m \in Message |-> {}]

Create(m) ==
  /\ m \notin log
  /\ known' = [known EXCEPT ![m] = log]
  /\ UNCHANGED <<log, got>>

Commit(m) ==
  /\ m \notin log
  /\ log' = log \cup {m}
  /\ UNCHANGED <<got, known>>

Deliver(m) ==
  /\ m \in log
  /\ known[m] \subseteq got
  /\ got' = got \cup {m}
  /\ UNCHANGED <<log, known>>

Next == \E m \in Message : Create(m) \/ Commit(m) \/ Deliver(m)

Spec == Init /\ [][Next]_vars

(* Whether messages are sent is up to the use cases.                       *)
FairSpec == Spec /\ \A m \in Message : WF_vars(Deliver(m))
=============================================================================
