-------------------------------- MODULE Serve --------------------------------
(***************************************************************************)
(* The life of the processes: serve.Run starts the HTTP servers of a       *)
(* process, waits for a signal or for the first server that fails, shuts   *)
(* the servers down one after another within one grace period, and returns;*)
(* then the process ends.  A call is one HTTP request from its acceptance  *)
(* by a server to its answer.                                              *)
(***************************************************************************)
EXTENDS Naturals, Sequences, FiniteSets

CONSTANTS
  Process,
  Server,
  Servers,      \* the servers of each process, in the order they are given
  Call

ASSUME ServersAssumption ==
  /\ Servers \in [Process -> Seq(Server)]
  /\ \A p \in Process : Servers[p] # <<>>
  /\ \A s \in Server : \E p \in Process : \E i \in DOMAIN Servers[p] :
       Servers[p][i] = s

VARIABLES
  to,           \* the server each call is made to
  server,       \* where the goroutine and the listener of each server are
  errCh,        \* the errors of servers that nobody has read yet
  asked,        \* whether the process was told to stop (ctx.Done)
  phase,        \* where Run is in each process
  turn,         \* the number of servers whose Shutdown has returned
  expired,      \* whether the grace period is over
  runErr,       \* whether a server's error was read
  shutdownErr,  \* whether a Shutdown failed
  call          \* where each call is

vars == <<to, server, errCh, asked, phase, turn, expired, runErr, shutdownErr,
          call>>

Home(s) == CHOOSE p \in Process : \E i \in DOMAIN Servers[p] : Servers[p][i] = s

OpenAt(s) == {c \in Call : call[c] = "open" /\ to[c] = s}

(* Mutant: calls that were answered are cut off too.                       *)
AnyIn(p) == {c \in Call : call[c] \in {"open", "answered"} /\ Home(to[c]) = p}

OpenIn(p) == {c \in Call : call[c] = "open" /\ Home(to[c]) = p}

Alive(p) == phase[p] # "ended"

Init ==
  /\ to \in [Call -> Server]
  /\ server = [s \in Server |-> "starting"]
  /\ errCh = [p \in Process |-> <<>>]
  /\ asked = [p \in Process |-> FALSE]
  /\ phase = [p \in Process |-> "serving"]
  /\ turn = [p \in Process |-> 0]
  /\ expired = [p \in Process |-> FALSE]
  /\ runErr = [p \in Process |-> FALSE]
  /\ shutdownErr = [p \in Process |-> FALSE]
  /\ call = [c \in Call |-> "new"]

runner == <<errCh, asked, phase, turn, expired, runErr, shutdownErr>>

-----------------------------------------------------------------------------
(* The goroutine of a server.                                              *)
Listen(s) ==
  /\ server[s] = "starting" /\ Alive(Home(s))
  /\ server' = [server EXCEPT ![s] = "listening"]
  /\ UNCHANGED <<to, runner, call>>

(* Mutant: a channel for one error.                                        *)
CapacityOne(p) == 1

(* The channel holds an error of every server, so that a goroutine never   *)
(* waits to send.                                                          *)
Capacity(p) == Len(Servers[p])

(* ListenAndServe fails: the port is taken, or accepting fails.  Calls that*)
(* were accepted go on.                                                    *)
Fail(s) ==
  /\ server[s] \in {"starting", "listening"} /\ Alive(Home(s))
  /\ server' = [server EXCEPT ![s] = "failing"]
  /\ UNCHANGED <<to, runner, call>>

SendError(s) ==
  LET p == Home(s)
  IN  /\ server[s] = "failing" /\ Alive(p) /\ Len(errCh[p]) < Capacity(p)
      /\ server' = [server EXCEPT ![s] = "failed"]
      /\ errCh' = [errCh EXCEPT ![p] = Append(@, s)]
      /\ UNCHANGED <<to, asked, phase, turn, expired, runErr, shutdownErr, call>>

-----------------------------------------------------------------------------
(* Run.                                                                    *)
Signal(p) ==
  /\ ~ asked[p] /\ Alive(p)
  /\ asked' = [asked EXCEPT ![p] = TRUE]
  /\ UNCHANGED <<to, server, errCh, phase, turn, expired, runErr, shutdownErr,
                 call>>

(* Mutant: the errors of the servers are not awaited.                      *)
WakeOnSignal(p) ==
  /\ phase[p] = "serving" /\ asked[p]
  /\ phase' = [phase EXCEPT ![p] = "closing"]
  /\ UNCHANGED <<to, server, errCh, asked, turn, expired, runErr, shutdownErr, call>>

(* When a signal and an error are both there, either is taken.             *)
Wake(p) ==
  /\ phase[p] = "serving"
  /\ \/ asked[p] /\ UNCHANGED <<errCh, runErr>>
     \/ /\ errCh[p] # <<>>
        /\ errCh' = [errCh EXCEPT ![p] = Tail(@)]
        /\ runErr' = [runErr EXCEPT ![p] = TRUE]
  /\ phase' = [phase EXCEPT ![p] = "closing"]
  /\ UNCHANGED <<to, server, asked, turn, expired, shutdownErr, call>>

Current(p) == Servers[p][turn[p] + 1]

(* Shutdown closes the listener first; a server that has not come to listen*)
(* will not.                                                               *)
CloseListener(p) ==
  /\ phase[p] = "closing"
  /\ server' = [server EXCEPT ![Current(p)] =
                  IF @ \in {"failing", "failed"} THEN @ ELSE "closed"]
  /\ phase' = [phase EXCEPT ![p] = "waiting"]
  /\ UNCHANGED <<to, errCh, asked, turn, expired, runErr, shutdownErr, call>>

(* Then it waits for the calls of the server.                              *)
NextServer(p) ==
  /\ turn' = [turn EXCEPT ![p] = @ + 1]
  /\ phase' = [phase EXCEPT ![p] =
                 IF turn[p] + 1 = Len(Servers[p]) THEN "returned" ELSE "closing"]
  /\ UNCHANGED <<to, server, errCh, asked, expired, runErr, call>>

Drain(p) ==
  /\ phase[p] = "waiting" /\ OpenAt(Current(p)) = {}
  /\ NextServer(p)
  /\ UNCHANGED shutdownErr

(* Mutant: the error of Shutdown is only logged.                           *)
GiveUpQuietly(p) ==
  /\ phase[p] = "waiting" /\ expired[p] /\ OpenAt(Current(p)) # {}
  /\ NextServer(p)
  /\ UNCHANGED shutdownErr

GiveUp(p) ==
  /\ phase[p] = "waiting" /\ expired[p] /\ OpenAt(Current(p)) # {}
  /\ NextServer(p)
  /\ shutdownErr' = [shutdownErr EXCEPT ![p] = TRUE]

Expire(p) ==
  /\ phase[p] \in {"closing", "waiting"} /\ ~ expired[p]
  /\ expired' = [expired EXCEPT ![p] = TRUE]
  /\ UNCHANGED <<to, server, errCh, asked, phase, turn, runErr, shutdownErr, call>>

(* Run returned nil.                                                       *)
Clean(p) ==
  /\ phase[p] \in {"returned", "ended"} /\ turn[p] = Len(Servers[p])
  /\ ~ runErr[p] /\ ~ shutdownErr[p]

(* main returns, or the process is killed: what is open is cut off.        *)
Die(p) ==
  /\ phase' = [phase EXCEPT ![p] = "ended"]
  /\ server' = [s \in Server |-> IF Home(s) = p THEN "gone" ELSE server[s]]
  /\ call' = [c \in Call |-> IF c \in OpenIn(p) THEN "lost" ELSE call[c]]
  /\ UNCHANGED <<to, errCh, asked, turn, expired, runErr, shutdownErr>>

Exit(p) == phase[p] = "returned" /\ Die(p)

Kill(p) == phase[p] \in {"serving", "closing", "waiting"} /\ Die(p)

-----------------------------------------------------------------------------
(* Calls.                                                                  *)
Accept(c) ==
  /\ call[c] = "new" /\ server[to[c]] = "listening"
  /\ call' = [call EXCEPT ![c] = "open"]
  /\ UNCHANGED <<to, server, runner>>

Refuse(c) ==
  /\ call[c] = "new" /\ server[to[c]] # "listening"
  /\ call' = [call EXCEPT ![c] = "refused"]
  /\ UNCHANGED <<to, server, runner>>

Answer(c) ==
  /\ call[c] = "open"
  /\ call' = [call EXCEPT ![c] = "answered"]
  /\ UNCHANGED <<to, server, runner>>

Running(p) ==
  \/ Wake(p) \/ CloseListener(p) \/ Drain(p) \/ GiveUp(p) \/ Expire(p)

Next ==
  \/ \E s \in Server : Listen(s) \/ Fail(s) \/ SendError(s)
  \/ \E p \in Process : Signal(p) \/ Running(p) \/ Exit(p) \/ Kill(p)
  \/ \E c \in Call : Accept(c) \/ Refuse(c) \/ Answer(c)

Spec == Init /\ [][Next]_vars

(* The goroutines of the servers and of Run go on, and time passes.  The   *)
(* calls need not end, and neither does what main does after Run.          *)
Fairness ==
  /\ \A s \in Server : WF_vars(SendError(s))
  /\ \A p \in Process : WF_vars(Running(p))

FairSpec == Spec /\ Fairness

-----------------------------------------------------------------------------
(* The values of the state.                                                *)
ServersTypeOK ==
  /\ to \in [Call -> Server]
  /\ server \in [Server -> {"starting", "listening", "failing", "failed",
                            "closed", "gone"}]
  /\ errCh \in [Process -> Seq(Server)]
  /\ asked \in [Process -> BOOLEAN]
  /\ phase \in [Process -> {"serving", "closing", "waiting", "returned", "ended"}]
  /\ turn \in [Process -> Nat]
  /\ \A p \in Process : turn[p] <= Len(Servers[p])
  /\ expired \in [Process -> BOOLEAN]
  /\ runErr \in [Process -> BOOLEAN]
  /\ shutdownErr \in [Process -> BOOLEAN]
  /\ call \in [Call -> {"new", "open", "answered", "refused", "lost"}]

(* A process reports a clean stop only when it was told to stop and every  *)
(* request that any of its servers had accepted was answered, however many *)
(* servers share the grace period and whichever of them is slow (run in    *)
(* serve.go: the requests of a server whose Shutdown gave up, or of one    *)
(* that was never shut down, are cut off when main returns).               *)
CleanStop ==
  \A p \in Process :
    Clean(p) =>
      /\ asked[p]
      /\ \A c \in Call : Home(to[c]) = p => call[c] \notin {"open", "lost"}

(* When Run has returned, no goroutine of a server is left that can never  *)
(* hand over its error, although nobody reads the channel any more ("the   *)
(* goroutines do not leak", serve.go:84).                                  *)
NoSenderStuck ==
  \A s \in Server :
    phase[Home(s)] = "returned" /\ server[s] = "failing"
      => Len(errCh[Home(s)]) < Capacity(Home(s))

(* A signal, or the failure of one server, stops all the servers of the    *)
(* process and makes Run return, even when requests never end.             *)
Stops ==
  \A p \in Process :
    (asked[p] \/ \E s \in Server : Home(s) = p /\ server[s] = "failing")
      ~> (/\ phase[p] \in {"returned", "ended"}
          /\ \A s \in Server : Home(s) = p => server[s] # "listening")
=============================================================================
