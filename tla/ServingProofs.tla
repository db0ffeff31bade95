--------------------------- MODULE ServingProofs ---------------------------
(***************************************************************************)
(* The stop of the processes, for any processes, servers and calls, and    *)
(* what the clients of the two services see, for any requests and messages *)
(* that are sent.                                                          *)
(*                                                                         *)
(* Run goes through the servers of its process in their order: the ones it *)
(* has passed have stopped listening, and none of their calls is open      *)
(* unless it gave one of them up.  What a killed process cuts off is never *)
(* counted as a clean stop, since a server is left that Run has not passed.*)
(*                                                                         *)
(* Above that life, each call that was accepted asks for what was sent, and*)
(* is answered readably: what the adapters write is read back by the same  *)
(* contract, and the use cases return only errors that the contract names. *)
(***************************************************************************)
EXTENDS Serving, FiniteSetTheorems, WellFoundedInduction, TLAPS

(* How far Run has come, and why it began to stop.                         *)
TurnInv(p) ==
  /\ phase[p] = "serving" => turn[p] = 0
  /\ phase[p] \in {"closing", "waiting"} => turn[p] < Len(Servers[p])
  /\ phase[p] = "returned" => turn[p] = Len(Servers[p])
  /\ phase[p] \in {"closing", "waiting", "returned"} \/ turn[p] > 0
       => asked[p] \/ runErr[p]

(* The servers that Shutdown was called for.                               *)
Passed(p, i) == i <= turn[p] \/ (phase[p] = "waiting" /\ i = turn[p] + 1)

ClosedInv(p) ==
  \A i \in DOMAIN Servers[p] :
    /\ Passed(p, i) => server[Servers[p][i]] \notin {"starting", "listening"}
    /\ i <= turn[p] /\ ~ shutdownErr[p] => OpenAt(Servers[p][i]) = {}

LostInv(c) ==
  call[c] = "lost" =>
    LET p == Home(to[c])
    IN  phase[p] = "ended" /\ (turn[p] = Len(Servers[p]) => shutdownErr[p])

(* The errors that wait in the channel are of different servers, each of   *)
(* which has sent its only one.                                            *)
ErrorsInv(p) ==
  /\ \A i \in DOMAIN errCh[p] :
       Home(errCh[p][i]) = p /\ (Alive(p) => server[errCh[p][i]] = "failed")
  /\ Alive(p) =>
       \A i, j \in DOMAIN errCh[p] : i # j => errCh[p][i] # errCh[p][j]

ServeInv ==
  /\ ServersTypeOK
  /\ \A p \in Process : TurnInv(p) /\ ClosedInv(p) /\ ErrorsInv(p)
  /\ \A c \in Call : LostInv(c)

-----------------------------------------------------------------------------
(* Every server has a home, which runs it.                                 *)
LEMMA Homes ==
  ASSUME NEW s \in Server
  PROVE  /\ Home(s) \in Process
         /\ \E i \in DOMAIN Servers[Home(s)] : Servers[Home(s)][i] = s
BY ServersAssumption DEF Home

LEMMA ServerAt ==
  ASSUME NEW p \in Process
  PROVE  /\ Len(Servers[p]) \in Nat \ {0}
         /\ DOMAIN Servers[p] = 1 .. Len(Servers[p])
         /\ \A i \in 1 .. Len(Servers[p]) : Servers[p][i] \in Server
<1>1. Servers[p] \in Seq(Server) /\ Servers[p] # <<>>
  BY ServersAssumption
<1> QED
  BY <1>1

LEMMA UpTo ==
  ASSUME NEW n \in Nat
  PROVE  IsFiniteSet(1 .. n) /\ Cardinality(1 .. n) = n
<1>1. 1 \in Int /\ n \in Int
  OBVIOUS
<1>2. /\ IsFiniteSet(1 .. n)
      /\ Cardinality(1 .. n) = IF 1 > n THEN 0 ELSE n - 1 + 1
  BY <1>1, FS_Interval, Zenon
<1> QED
  BY <1>2

(* Different members of a list are at different places of it, so that a    *)
(* sequence of different members that lacks one is shorter than the list.  *)
LEMMA OneMore ==
  ASSUME NEW T, NEW list \in Seq(T), NEW taken \in Seq(T), NEW x \in T,
         \E j \in 1 .. Len(list) : list[j] = x,
         \A i \in 1 .. Len(taken) :
           taken[i] # x /\ \E j \in 1 .. Len(list) : list[j] = taken[i],
         \A i, j \in 1 .. Len(taken) : i # j => taken[i] # taken[j]
  PROVE  Len(taken) < Len(list)
<1> DEFINE n == Len(taken)
           m == Len(list)
           who == Append(taken, x)
           at == [i \in 1 .. n + 1 |-> CHOOSE j \in 1 .. m : list[j] = who[i]]
<1>1. n \in Nat /\ m \in Nat
  OBVIOUS
<1>2. \A i \in 1 .. n : who[i] = taken[i]
  OBVIOUS
<1>3. who[n + 1] = x
  OBVIOUS
<1> HIDE DEF n, m, who
<1>4. \A i \in 1 .. n + 1 : i \in 1 .. n \/ i = n + 1
  BY <1>1
<1>5. ASSUME NEW i \in 1 .. n + 1, NEW j \in 1 .. n + 1, i # j
      PROVE  who[i] # who[j]
  <2>1. CASE i \in 1 .. n /\ j \in 1 .. n
    BY <1>2, <1>5, <2>1 DEF n
  <2>2. CASE i = n + 1
    BY <1>2, <1>3, <1>4, <1>5, <2>2 DEF n
  <2>3. CASE j = n + 1
    BY <1>2, <1>3, <1>4, <1>5, <2>3 DEF n
  <2> QED
    BY <1>4, <2>1, <2>2, <2>3
<1>6. ASSUME NEW i \in 1 .. n + 1
      PROVE  at[i] \in 1 .. m /\ list[at[i]] = who[i]
  <2>1. \E j \in 1 .. m : list[j] = who[i]
    BY <1>2, <1>3, <1>4 DEF n, m
  <2> QED
    BY <2>1
<1>7. at \in [1 .. n + 1 -> 1 .. m]
  BY <1>6
<1> HIDE DEF at
<1>8. ~ (m < n + 1)
  <2> SUFFICES ASSUME m < n + 1 PROVE FALSE
    OBVIOUS
  <2>1. IsFiniteSet(1 .. m) /\ Cardinality(1 .. m) = m
    BY <1>1, UpTo
  <2>5. IsFiniteSet(1 .. n + 1) /\ Cardinality(1 .. n + 1) = n + 1
    BY <1>1, UpTo
  <2>2. Cardinality(1 .. m) < Cardinality(1 .. n + 1)
    BY <2>1, <2>5
  <2>3. \E i, j \in 1 .. n + 1 : i # j /\ at[i] = at[j]
    <3> DEFINE S == 1 .. n + 1
               U == 1 .. m
    <3>1. /\ IsFiniteSet(S) /\ IsFiniteSet(U) /\ at \in [S -> U]
          /\ Cardinality(U) < Cardinality(S)
      BY <1>7, <2>1, <2>2, <2>5
    <3> HIDE DEF S, U
    <3>2. \E i, j \in S : i # j /\ at[i] = at[j]
      BY <3>1, FS_PigeonHole
    <3> QED
      BY <3>2 DEF S
  <2>6. PICK i \in 1 .. n + 1, j \in 1 .. n + 1 : i # j /\ at[i] = at[j]
    BY <2>3
  <2>4. who[i] = who[j]
    BY <1>6, <2>6
  <2> QED
    BY <1>5, <2>4, <2>6
<1> QED
  BY <1>1, <1>8 DEF n, m

(* There is room for the error of a server that has not sent it.           *)
LEMMA Room ==
  ASSUME ServeInv, NEW s \in Server, NEW p \in Process, Home(s) = p,
         server[s] = "failing", Alive(p)
  PROVE  Len(errCh[p]) < Capacity(p)
<1>1. errCh[p] \in Seq(Server) /\ ErrorsInv(p)
  BY DEF ServeInv, ServersTypeOK
<1>2. DOMAIN errCh[p] = 1 .. Len(errCh[p])
  BY <1>1
<1>3. \A i \in 1 .. Len(errCh[p]) : errCh[p][i] \in Server
  BY <1>1
<1>4. \A t \in Server : Home(t) = p =>
        \E j \in 1 .. Len(Servers[p]) : Servers[p][j] = t
  BY Homes, ServerAt
<1>5. ASSUME NEW i \in 1 .. Len(errCh[p])
      PROVE  Home(errCh[p][i]) = p /\ server[errCh[p][i]] = "failed"
  BY <1>1, <1>2, <1>5 DEF ErrorsInv
<1>6. \A i \in 1 .. Len(errCh[p]) :
        errCh[p][i] # s /\ \E j \in 1 .. Len(Servers[p]) : Servers[p][j] = errCh[p][i]
  BY <1>3, <1>4, <1>5
<1>7. \A i, j \in 1 .. Len(errCh[p]) : i # j => errCh[p][i] # errCh[p][j]
  BY <1>1, <1>2 DEF ErrorsInv
<1>8. Servers[p] \in Seq(Server) /\ \E j \in 1 .. Len(Servers[p]) : Servers[p][j] = s
  BY <1>4, ServersAssumption
<1>9. Len(errCh[p]) < Len(Servers[p])
  <2> DEFINE taken == errCh[p]
             list == Servers[p]
  <2>1. taken \in Seq(Server) /\ list \in Seq(Server)
    BY <1>1, <1>8
  <2>2. \A i \in 1 .. Len(taken) :
          taken[i] # s /\ \E j \in 1 .. Len(list) : list[j] = taken[i]
    BY <1>6
  <2>3. \A i, j \in 1 .. Len(taken) : i # j => taken[i] # taken[j]
    BY <1>7
  <2>4. \E j \in 1 .. Len(list) : list[j] = s
    BY <1>8
  <2> HIDE DEF taken, list
  <2>5. Len(taken) < Len(list)
    BY <2>1, <2>2, <2>3, <2>4, OneMore
  <2> QED
    BY <2>5 DEF taken, list
<1> QED
  BY <1>9 DEF Capacity

-----------------------------------------------------------------------------
LEMMA ServeInit == Init => ServeInv
<1> SUFFICES ASSUME Init PROVE ServeInv
  OBVIOUS
<1>1. ServersTypeOK
  BY ServerAt DEF Init, ServersTypeOK
<1>2. ASSUME NEW p \in Process
      PROVE  TurnInv(p) /\ ClosedInv(p) /\ ErrorsInv(p)
  BY ServerAt DEF Init, TurnInv, ClosedInv, Passed, OpenAt, ErrorsInv
<1>3. \A c \in Call : LostInv(c)
  BY DEF Init, LostInv
<1> QED
  BY <1>1, <1>2, <1>3 DEF ServeInv

-----------------------------------------------------------------------------
(* The servers: none listens again once it does not.                       *)
LEMMA ServerStep ==
  ASSUME ServeInv, NEW s \in Server,
         NEW to1 \in {"listening", "failing", "failed"},
         server' = [server EXCEPT ![s] = to1],
         to1 = "listening" => server[s] = "starting",
         to1 = "failing" => server[s] \in {"starting", "listening"},
         to1 = "failed" => server[s] = "failing",
         UNCHANGED <<to, asked, phase, turn, expired, runErr, shutdownErr, call>>,
         \/ errCh' = errCh
         \/ /\ to1 = "failed" /\ Alive(Home(s))
            /\ errCh' = [errCh EXCEPT ![Home(s)] = Append(@, s)]
  PROVE  ServeInv'
<1>1. ServersTypeOK /\ Home(s) \in Process
  BY Homes DEF ServeInv
<1>2. server[s] \notin {"starting", "listening"} =>
        server'[s] \notin {"starting", "listening"}
  BY <1>1 DEF ServersTypeOK
<1>3. \A t \in Server : server[t] \notin {"starting", "listening"} =>
        server'[t] \notin {"starting", "listening"}
  BY <1>1, <1>2 DEF ServersTypeOK
<1>4. \A t \in Server : server[t] = "failed" => server'[t] = "failed"
  BY <1>1 DEF ServersTypeOK
<1>5. ServersTypeOK'
  <2>1. errCh' \in [Process -> Seq(Server)]
    <3>1. errCh \in [Process -> Seq(Server)]
      BY <1>1 DEF ServersTypeOK
    <3>2. Append(errCh[Home(s)], s) \in Seq(Server)
      BY <1>1, <3>1
    <3> QED
      BY <3>1, <3>2
  <2> QED
    BY <1>1, <2>1 DEF ServersTypeOK
<1>6. ASSUME NEW p \in Process PROVE TurnInv(p)' /\ ClosedInv(p)'
  <2>1. TurnInv(p) /\ ClosedInv(p)
    BY DEF ServeInv
  <2>2. TurnInv(p)'
    BY <2>1 DEF TurnInv
  <2>3. ClosedInv(p)'
    BY <1>3, <2>1, ServerAt DEF ClosedInv, Passed, OpenAt
  <2> QED
    BY <2>2, <2>3
<1>7. ASSUME NEW p \in Process PROVE ErrorsInv(p)'
  <2>1. ErrorsInv(p) /\ errCh[p] \in Seq(Server)
    BY <1>1 DEF ServeInv, ServersTypeOK
  <2>2. Alive(p)' = Alive(p)
    BY DEF Alive
  <2>3. CASE errCh'[p] = errCh[p]
    BY <1>4, <2>1, <2>2, <2>3 DEF ErrorsInv
  <2>4. CASE /\ to1 = "failed" /\ p = Home(s) /\ Alive(p)
             /\ errCh'[p] = Append(errCh[p], s)
    <3>8. \A i \in DOMAIN errCh[p] : errCh[p][i] \in Server
      BY <2>1
    <3>9. server[s] = "failing"
      BY <2>4
    <3>1. \A i \in DOMAIN errCh[p] :
            /\ errCh[p][i] \in Server /\ Home(errCh[p][i]) = p
            /\ server[errCh[p][i]] = "failed" /\ errCh[p][i] # s
      BY <2>1, <2>4, <3>8, <3>9 DEF ErrorsInv
    <3>2. /\ DOMAIN errCh'[p] = 1 .. Len(errCh[p]) + 1
          /\ \A i \in 1 .. Len(errCh[p]) : errCh'[p][i] = errCh[p][i]
          /\ errCh'[p][Len(errCh[p]) + 1] = s
      BY <2>1, <2>4
    <3>3. DOMAIN errCh[p] = 1 .. Len(errCh[p]) /\ Len(errCh[p]) \in Nat
      BY <2>1
    <3>4. server'[s] = "failed"
      BY <1>1, <2>4 DEF ServersTypeOK
    <3>5. \A i \in 1 .. Len(errCh[p]) + 1 :
            i \in 1 .. Len(errCh[p]) \/ i = Len(errCh[p]) + 1
      BY <3>3
    <3>6. \A i \in DOMAIN errCh'[p] :
            Home(errCh'[p][i]) = p /\ server'[errCh'[p][i]] = "failed"
      BY <1>4, <2>4, <3>1, <3>2, <3>3, <3>4, <3>5
    <3>7. \A i, j \in DOMAIN errCh'[p] : i # j => errCh'[p][i] # errCh'[p][j]
      <4>1. \A i, j \in DOMAIN errCh[p] : i # j => errCh[p][i] # errCh[p][j]
        BY <2>1, <2>4 DEF ErrorsInv
      <4>2. \A i, j \in 1 .. Len(errCh[p]) : i # j => errCh'[p][i] # errCh'[p][j]
        BY <3>2, <3>3, <4>1
      <4>3. \A i \in 1 .. Len(errCh[p]) : errCh'[p][i] # s
        <5>1. \A i \in 1 .. Len(errCh[p]) : errCh[p][i] # s
          BY <3>1, <3>3
        <5> QED
          BY <3>2, <5>1
      <4> QED
        BY <3>2, <3>5, <4>2, <4>3
    <3> QED
      BY <3>6, <3>7 DEF ErrorsInv
  <2>5. \/ errCh'[p] = errCh[p]
        \/ /\ to1 = "failed" /\ p = Home(s) /\ Alive(p)
           /\ errCh'[p] = Append(errCh[p], s)
    <3>1. DOMAIN errCh = Process /\ errCh \in [Process -> Seq(Server)]
      BY <1>1 DEF ServersTypeOK
    <3>2. CASE p = Home(s)
      BY <3>1, <3>2
    <3>3. CASE p # Home(s)
      BY <3>1, <3>3
    <3> QED
      BY <3>2, <3>3
  <2> QED
    BY <2>3, <2>4, <2>5
<1>8. ASSUME NEW c \in Call PROVE LostInv(c)'
  BY DEF ServeInv, LostInv
<1> QED
  BY <1>5, <1>6, <1>7, <1>8 DEF ServeInv

LEMMA ListenInv ==
  ASSUME ServeInv, NEW s \in Server, Listen(s) \/ Fail(s) \/ SendError(s)
  PROVE  ServeInv'
<1>1. CASE Listen(s)
  BY <1>1, ServerStep DEF Listen, runner
<1>2. CASE Fail(s)
  BY <1>2, ServerStep DEF Fail, runner
<1>3. CASE SendError(s)
  BY <1>3, ServerStep DEF SendError
<1> QED
  BY <1>1, <1>2, <1>3

-----------------------------------------------------------------------------
(* Run, until it shuts the servers down.                                   *)
LEMMA SignalInv ==
  ASSUME ServeInv, NEW p \in Process, Signal(p)
  PROVE  ServeInv'
<1>1. /\ UNCHANGED <<to, server, errCh, phase, turn, expired, runErr, shutdownErr,
         call>>
      /\ asked' = [asked EXCEPT ![p] = TRUE] /\ ServersTypeOK
  BY DEF Signal, ServeInv
<1>2. \A q \in Process : asked[q] => asked'[q]
  BY <1>1 DEF ServersTypeOK
<1>3. ServersTypeOK'
  BY <1>1 DEF ServersTypeOK
<1>4. ASSUME NEW q \in Process PROVE TurnInv(q)' /\ ClosedInv(q)' /\ ErrorsInv(q)'
  BY <1>1, <1>2
     DEF ServeInv, TurnInv, ClosedInv, Passed, OpenAt, ErrorsInv, Alive
<1>5. ASSUME NEW c \in Call PROVE LostInv(c)'
  BY <1>1 DEF ServeInv, LostInv
<1> QED
  BY <1>3, <1>4, <1>5 DEF ServeInv

LEMMA ExpireInv ==
  ASSUME ServeInv, NEW p \in Process, Expire(p)
  PROVE  ServeInv'
<1>1. /\ UNCHANGED <<to, server, errCh, asked, phase, turn, runErr, shutdownErr, call>>
      /\ expired' = [expired EXCEPT ![p] = TRUE] /\ ServersTypeOK
  BY DEF Expire, ServeInv
<1>3. ServersTypeOK'
  BY <1>1 DEF ServersTypeOK
<1>4. ASSUME NEW q \in Process PROVE TurnInv(q)' /\ ClosedInv(q)' /\ ErrorsInv(q)'
  BY <1>1 DEF ServeInv, TurnInv, ClosedInv, Passed, OpenAt, ErrorsInv, Alive
<1>5. ASSUME NEW c \in Call PROVE LostInv(c)'
  BY <1>1 DEF ServeInv, LostInv
<1> QED
  BY <1>3, <1>4, <1>5 DEF ServeInv

LEMMA WakeInv ==
  ASSUME ServeInv, NEW p \in Process, Wake(p)
  PROVE  ServeInv'
<1>1. /\ UNCHANGED <<to, server, asked, turn, expired, shutdownErr, call>>
      /\ phase[p] = "serving" /\ phase' = [phase EXCEPT ![p] = "closing"]
      /\ \/ asked[p] /\ UNCHANGED <<errCh, runErr>>
         \/ /\ errCh[p] # <<>> /\ errCh' = [errCh EXCEPT ![p] = Tail(errCh[p])]
            /\ runErr' = [runErr EXCEPT ![p] = TRUE]
  BY DEF Wake
<1>2. ServersTypeOK /\ errCh \in [Process -> Seq(Server)] /\ errCh[p] \in Seq(Server)
  BY DEF ServeInv, ServersTypeOK
<1>3. errCh' \in [Process -> Seq(Server)]
  <2>1. errCh[p] # <<>> => Tail(errCh[p]) \in Seq(Server)
    BY <1>2
  <2> QED
    BY <1>1, <1>2, <2>1
<1>4. ServersTypeOK'
  BY <1>1, <1>2, <1>3 DEF ServersTypeOK
<1>5. ASSUME NEW q \in Process PROVE TurnInv(q)'
  <2>1. TurnInv(q)
    BY DEF ServeInv
  <2>2. CASE q = p
    <3>1. turn[p] = 0 /\ Len(Servers[p]) > 0
      BY <1>1, <2>1, <2>2, ServerAt DEF TurnInv
    <3>2. phase'[p] = "closing" /\ (asked'[p] \/ runErr'[p])
      BY <1>1, <1>2 DEF ServersTypeOK
    <3> QED
      BY <1>1, <2>2, <3>1, <3>2 DEF TurnInv
  <2>3. CASE q # p
    BY <1>1, <1>2, <2>1, <2>3 DEF TurnInv, ServersTypeOK
  <2> QED
    BY <2>2, <2>3
<1>6. ASSUME NEW q \in Process PROVE ClosedInv(q)'
  <2>1. \A i : Passed(q, i)' => Passed(q, i)
    BY <1>1, <1>2 DEF Passed, ServersTypeOK
  <2> QED
    BY <1>1, <2>1 DEF ServeInv, ClosedInv, OpenAt
<1>7. ASSUME NEW q \in Process PROVE ErrorsInv(q)'
  <2>1. ErrorsInv(q) /\ errCh[q] \in Seq(Server)
    BY <1>2 DEF ServeInv, ServersTypeOK
  <2>2. Alive(q)' = Alive(q)
    BY <1>1, <1>2 DEF Alive, ServersTypeOK
  <2>3. CASE errCh'[q] = errCh[q]
    BY <1>1, <2>1, <2>2, <2>3 DEF ErrorsInv
  <2>4. CASE errCh[q] # <<>> /\ errCh'[q] = Tail(errCh[q])
    <3>1. /\ DOMAIN errCh[q] = 1 .. Len(errCh[q]) /\ Len(errCh[q]) \in Nat \ {0}
          /\ DOMAIN errCh'[q] = 1 .. Len(errCh[q]) - 1
          /\ \A i \in 1 .. Len(errCh[q]) - 1 : errCh'[q][i] = errCh[q][i + 1]
      BY <2>1, <2>4
    <3>2. \A i \in DOMAIN errCh'[q] : i + 1 \in DOMAIN errCh[q]
      BY <3>1
    <3>3. \A i \in DOMAIN errCh'[q] :
            Home(errCh'[q][i]) = q /\ (Alive(q) => server[errCh'[q][i]] = "failed")
      BY <2>1, <3>1, <3>2 DEF ErrorsInv
    <3>4. ASSUME Alive(q), NEW i \in DOMAIN errCh'[q], NEW j \in DOMAIN errCh'[q],
                 i # j
          PROVE  errCh'[q][i] # errCh'[q][j]
      <4>1. i + 1 # j + 1
        BY <3>1, <3>4
      <4>2. errCh[q][i + 1] # errCh[q][j + 1]
        BY <2>1, <3>2, <3>4, <4>1 DEF ErrorsInv
      <4> QED
        BY <3>1, <4>2
    <3> QED
      BY <1>1, <2>2, <3>3, <3>4 DEF ErrorsInv
  <2>5. errCh'[q] = errCh[q] \/ (errCh[q] # <<>> /\ errCh'[q] = Tail(errCh[q]))
    <3>1. CASE q = p
      BY <1>1, <1>2, <3>1
    <3>2. CASE q # p
      BY <1>1, <1>2, <3>2
    <3> QED
      BY <3>1, <3>2
  <2> QED
    BY <2>3, <2>4, <2>5
<1>8. ASSUME NEW c \in Call PROVE LostInv(c)'
  <2>1. phase[Home(to[c])] = "ended" => Home(to[c]) # p
    BY <1>1
  <2> QED
    BY <1>1, <2>1, <1>2, Homes DEF ServeInv, LostInv, ServersTypeOK
<1> QED
  BY <1>4, <1>5, <1>6, <1>7, <1>8 DEF ServeInv

-----------------------------------------------------------------------------
(* Shutdown of one server after another.                                   *)
LEMMA CloseListenerInv ==
  ASSUME ServeInv, NEW p \in Process, CloseListener(p)
  PROVE  ServeInv'
<1> DEFINE s == Servers[p][turn[p] + 1]
<1>1. /\ UNCHANGED <<to, errCh, asked, turn, expired, runErr, shutdownErr, call>>
      /\ phase[p] = "closing" /\ phase' = [phase EXCEPT ![p] = "waiting"]
      /\ server' = [server EXCEPT ![s] = IF server[s] \in {"failing", "failed"}
                                         THEN server[s] ELSE "closed"]
  BY DEF CloseListener, Current
<1>2. ServersTypeOK /\ TurnInv(p)
  BY DEF ServeInv
<1>3. turn[p] + 1 \in 1 .. Len(Servers[p]) /\ s \in Server
  <2>1. turn[p] \in Nat /\ turn[p] < Len(Servers[p])
    BY <1>1, <1>2 DEF TurnInv, ServersTypeOK
  <2>2. turn[p] + 1 \in 1 .. Len(Servers[p])
    BY <2>1, ServerAt
  <2> QED
    BY <2>2, ServerAt
<1> HIDE DEF s
<1>4. server'[s] \in {"failing", "failed", "closed"}
  BY <1>1, <1>2, <1>3 DEF ServersTypeOK
<1>5. \A t \in Server :
        /\ server[t] \notin {"starting", "listening"} =>
             server'[t] \notin {"starting", "listening"}
        /\ server[t] = "failed" => server'[t] = "failed"
  BY <1>1, <1>2, <1>3, <1>4 DEF ServersTypeOK
<1>6. ServersTypeOK'
  BY <1>1, <1>2, <1>3 DEF ServersTypeOK
<1>7. ASSUME NEW q \in Process PROVE TurnInv(q)'
  BY <1>1, <1>2, <1>7 DEF ServeInv, TurnInv, ServersTypeOK
<1>8. ASSUME NEW q \in Process PROVE ClosedInv(q)'
  <2>1. ClosedInv(q)
    BY DEF ServeInv
  <2>2. ASSUME NEW i \in DOMAIN Servers[q], Passed(q, i)',
               ~ Passed(q, i)
        PROVE  q = p /\ i = turn[p] + 1
    BY <1>1, <1>2, <2>2 DEF Passed, ServersTypeOK
  <2>3. ASSUME NEW i \in DOMAIN Servers[q], Passed(q, i)'
        PROVE  server'[Servers[q][i]] \notin {"starting", "listening"}
    <3>1. Servers[q][i] \in Server
      BY ServerAt
    <3>2. CASE Passed(q, i)
      BY <1>5, <2>1, <3>1, <3>2 DEF ClosedInv
    <3>3. CASE ~ Passed(q, i)
      BY <1>4, <2>2, <2>3, <3>3 DEF s
    <3> QED
      BY <3>2, <3>3
  <2> QED
    BY <1>1, <2>1, <2>3 DEF ClosedInv, OpenAt
<1>9. ASSUME NEW q \in Process PROVE ErrorsInv(q)'
  <2>1. ErrorsInv(q) /\ errCh[q] \in Seq(Server)
    BY <1>2 DEF ServeInv, ServersTypeOK
  <2>2. Alive(q)' = Alive(q)
    BY <1>1, <1>2 DEF Alive, ServersTypeOK
  <2>3. \A i \in DOMAIN errCh[q] : errCh[q][i] \in Server
    BY <2>1
  <2> QED
    BY <1>1, <1>5, <2>1, <2>2, <2>3 DEF ErrorsInv
<1>10. ASSUME NEW c \in Call PROVE LostInv(c)'
  <2>1. phase[Home(to[c])] = "ended" => Home(to[c]) # p
    BY <1>1
  <2> QED
    BY <1>1, <2>1, <1>2, Homes DEF ServeInv, LostInv, ServersTypeOK
<1> QED
  BY <1>6, <1>7, <1>8, <1>9, <1>10 DEF ServeInv

LEMMA NextServerInv ==
  ASSUME ServeInv, NEW p \in Process, Drain(p) \/ GiveUp(p)
  PROVE  ServeInv'
<1>1. /\ UNCHANGED <<to, server, errCh, asked, expired, runErr, call>>
      /\ phase[p] = "waiting" /\ turn' = [turn EXCEPT ![p] = turn[p] + 1]
      /\ phase' = [phase EXCEPT ![p] = IF turn[p] + 1 = Len(Servers[p])
                                       THEN "returned" ELSE "closing"]
      /\ \/ /\ OpenAt(Servers[p][turn[p] + 1]) = {} /\ shutdownErr' = shutdownErr
         \/ shutdownErr' = [shutdownErr EXCEPT ![p] = TRUE]
  BY DEF Drain, GiveUp, NextServer, Current
<1>2. /\ ServersTypeOK /\ TurnInv(p) /\ turn[p] \in Nat
      /\ turn[p] < Len(Servers[p]) /\ Len(Servers[p]) \in Nat
      /\ asked[p] \/ runErr[p]
  BY <1>1, ServerAt DEF ServeInv, ServersTypeOK, TurnInv
<1>4. /\ phase'[p] \in {"returned", "closing"} /\ turn'[p] = turn[p] + 1
      /\ phase'[p] = "returned" <=> turn[p] + 1 = Len(Servers[p])
      /\ \A q \in Process \ {p} : phase'[q] = phase[q] /\ turn'[q] = turn[q]
                                  /\ shutdownErr'[q] = shutdownErr[q]
      /\ shutdownErr[p] => shutdownErr'[p]
      /\ ~ shutdownErr'[p] => OpenAt(Servers[p][turn[p] + 1]) = {}
  <2>1. /\ phase \in [Process -> {"serving", "closing", "waiting", "returned",
                                  "ended"}]
        /\ turn \in [Process -> Nat] /\ shutdownErr \in [Process -> BOOLEAN]
    BY <1>2 DEF ServersTypeOK
  <2>2. /\ phase'[p] = IF turn[p] + 1 = Len(Servers[p]) THEN "returned" ELSE "closing"
        /\ turn'[p] = turn[p] + 1
        /\ \A q \in Process \ {p} : phase'[q] = phase[q] /\ turn'[q] = turn[q]
    BY <1>1, <2>1
  <2>3. \A q \in Process \ {p} : shutdownErr'[q] = shutdownErr[q]
    BY <1>1, <2>1
  <2>4. shutdownErr'[p] = shutdownErr[p] \/ shutdownErr'[p]
    BY <1>1, <2>1
  <2>5. ~ shutdownErr'[p] => OpenAt(Servers[p][turn[p] + 1]) = {}
    BY <1>1, <2>1
  <2> QED
    BY <2>2, <2>3, <2>4, <2>5
<1>3. ServersTypeOK'
  <2>1. phase' \in [Process -> {"serving", "closing", "waiting", "returned", "ended"}]
    BY <1>1, <1>2 DEF ServersTypeOK
  <2>2. turn' \in [Process -> Nat]
    BY <1>1, <1>2 DEF ServersTypeOK
  <2>3. shutdownErr' \in [Process -> BOOLEAN]
    BY <1>1, <1>2 DEF ServersTypeOK
  <2>4. \A q \in Process : turn'[q] <= Len(Servers[q])
    <3>1. turn[p] + 1 <= Len(Servers[p])
      BY <1>2
    <3>2. \A q \in Process : turn[q] <= Len(Servers[q])
      BY <1>2 DEF ServersTypeOK
    <3> QED
      BY <1>4, <3>1, <3>2
  <2> QED
    BY <1>1, <1>2, <2>1, <2>2, <2>3, <2>4 DEF ServersTypeOK
<1>5. ASSUME NEW q \in Process PROVE TurnInv(q)'
  BY <1>1, <1>2, <1>4 DEF ServeInv, TurnInv
<1>6. ASSUME NEW q \in Process PROVE ClosedInv(q)'
  <2>1. ClosedInv(q)
    BY DEF ServeInv
  <2>2. CASE q = p
    <3>1. ASSUME NEW i \in DOMAIN Servers[p], Passed(p, i)'
          PROVE  Passed(p, i)
      BY <1>1, <1>2, <1>4, <3>1, ServerAt DEF Passed
    <3>2. ASSUME NEW i \in DOMAIN Servers[p], i <= turn'[p], ~ shutdownErr'[p]
          PROVE  OpenAt(Servers[p][i]) = {}
      <4>1. i <= turn[p] \/ i = turn[p] + 1
        BY <1>2, <1>4, <3>2, ServerAt
      <4> QED
        BY <1>4, <2>1, <2>2, <3>2, <4>1 DEF ClosedInv
    <3> QED
      BY <1>1, <2>1, <2>2, <3>1, <3>2 DEF ClosedInv, OpenAt
  <2>3. CASE q # p
    BY <1>1, <1>4, <2>1, <2>3 DEF ClosedInv, Passed, OpenAt
  <2> QED
    BY <2>2, <2>3
<1>7. ASSUME NEW q \in Process PROVE ErrorsInv(q)'
  <2>1. Alive(q)' = Alive(q)
    BY <1>1, <1>4 DEF Alive
  <2> QED
    BY <1>1, <2>1 DEF ServeInv, ErrorsInv
<1>8. ASSUME NEW c \in Call PROVE LostInv(c)'
  <2>1. phase[Home(to[c])] = "ended" => Home(to[c]) # p
    BY <1>1
  <2>2. Home(to[c]) \in Process
    BY <1>2, Homes DEF ServersTypeOK
  <2> QED
    BY <1>1, <1>4, <2>1, <2>2 DEF ServeInv, LostInv
<1> QED
  BY <1>3, <1>5, <1>6, <1>7, <1>8 DEF ServeInv

-----------------------------------------------------------------------------
(* The end of a process cuts off what is open in it.                       *)
LEMMA DieInv ==
  ASSUME ServeInv, NEW p \in Process, Exit(p) \/ Kill(p)
  PROVE  ServeInv'
<1>1. /\ UNCHANGED <<to, errCh, asked, turn, expired, runErr, shutdownErr>>
      /\ phase[p] \in {"serving", "closing", "waiting", "returned"}
      /\ phase' = [phase EXCEPT ![p] = "ended"]
      /\ server' = [s \in Server |-> IF Home(s) = p THEN "gone" ELSE server[s]]
      /\ call' = [c \in Call |-> IF c \in OpenIn(p) THEN "lost" ELSE call[c]]
  BY DEF Exit, Kill, Die
<1>2. ServersTypeOK /\ TurnInv(p) /\ ClosedInv(p)
  BY DEF ServeInv
<1>3. ServersTypeOK'
  <2>1. server' \in [Server -> {"starting", "listening", "failing", "failed",
                                "closed", "gone"}]
    BY <1>1, <1>2 DEF ServersTypeOK
  <2>2. call' \in [Call -> {"new", "open", "answered", "refused", "lost"}]
    BY <1>1, <1>2 DEF ServersTypeOK
  <2> QED
    BY <1>1, <1>2, <2>1, <2>2 DEF ServersTypeOK
<1>4. phase'[p] = "ended" /\ \A q \in Process \ {p} : phase'[q] = phase[q]
  BY <1>1, <1>2 DEF ServersTypeOK
<1>5. ASSUME NEW q \in Process PROVE TurnInv(q)'
  BY <1>1, <1>4 DEF ServeInv, TurnInv
<1>6. ASSUME NEW q \in Process PROVE ClosedInv(q)'
  <2>1. \A i : Passed(q, i)' => Passed(q, i)
    BY <1>1, <1>4 DEF Passed
  <2>2. \A s \in Server : OpenAt(s) = {} => OpenAt(s)' = {}
    BY <1>1 DEF OpenAt
  <2>3. \A i \in DOMAIN Servers[q] : Servers[q][i] \in Server
    BY ServerAt
  <2> QED
    BY <1>1, <2>1, <2>2, <2>3 DEF ServeInv, ClosedInv
<1>7. ASSUME NEW q \in Process PROVE ErrorsInv(q)'
  <2>1. ErrorsInv(q) /\ errCh[q] \in Seq(Server)
    BY <1>2 DEF ServeInv, ServersTypeOK
  <2>2. Alive(q)' => q # p /\ Alive(q)
    BY <1>4 DEF Alive
  <2>3. \A i \in DOMAIN errCh[q] : errCh[q][i] \in Server
    BY <2>1
  <2> QED
    BY <1>1, <2>1, <2>2, <2>3 DEF ErrorsInv
<1>8. ASSUME NEW c \in Call PROVE LostInv(c)'
  <2>1. to[c] \in Server /\ Home(to[c]) \in Process
    BY <1>2, Homes DEF ServersTypeOK
  <2>2. CASE c \in OpenIn(p)
    <3>1. call[c] = "open" /\ Home(to[c]) = p
      BY <2>2 DEF OpenIn
    <3>2. PICK i \in DOMAIN Servers[p] : Servers[p][i] = to[c]
      BY <2>1, <3>1, Homes
    <3>3. OpenAt(Servers[p][i]) # {}
      BY <3>1, <3>2 DEF OpenAt
    <3>4. ASSUME turn[p] = Len(Servers[p]) PROVE shutdownErr[p]
      <4>1. i <= turn[p]
        BY <3>4, ServerAt
      <4> QED
        BY <1>2, <3>3, <4>1 DEF ClosedInv, ServersTypeOK
    <3> QED
      BY <1>1, <1>4, <3>1, <3>4 DEF LostInv
  <2>3. CASE c \notin OpenIn(p)
    BY <1>1, <1>4, <2>1, <2>3 DEF ServeInv, LostInv
  <2> QED
    BY <2>2, <2>3
<1> QED
  BY <1>3, <1>5, <1>6, <1>7, <1>8 DEF ServeInv

(* A call is accepted only where a server listens.                         *)
LEMMA CallInv ==
  ASSUME ServeInv, NEW c \in Call, Accept(c) \/ Refuse(c) \/ Answer(c)
  PROVE  ServeInv'
<1>1. /\ UNCHANGED <<to, server, errCh, asked, phase, turn, expired, runErr,
                     shutdownErr>>
      /\ \/ server[to[c]] = "listening" /\ call' = [call EXCEPT ![c] = "open"]
         \/ call' = [call EXCEPT ![c] = "refused"]
         \/ call' = [call EXCEPT ![c] = "answered"]
  BY DEF Accept, Refuse, Answer, runner
<1>2. ServersTypeOK
  BY DEF ServeInv
<1>3. ServersTypeOK'
  BY <1>1, <1>2 DEF ServersTypeOK
<1>4. ASSUME NEW q \in Process PROVE TurnInv(q)' /\ ErrorsInv(q)'
  BY <1>1 DEF ServeInv, TurnInv, ErrorsInv, Alive
<1>5. ASSUME NEW q \in Process PROVE ClosedInv(q)'
  <2>1. ASSUME NEW i \in DOMAIN Servers[q], i <= turn[q], ~ shutdownErr[q]
        PROVE  OpenAt(Servers[q][i])' = {}
    <3>1. server[Servers[q][i]] # "listening" /\ OpenAt(Servers[q][i]) = {}
      BY <2>1 DEF ServeInv, ClosedInv, Passed
    <3> QED
      BY <1>1, <1>2, <3>1 DEF OpenAt, ServersTypeOK
  <2> QED
    BY <1>1, <2>1 DEF ServeInv, ClosedInv, Passed
<1>6. ASSUME NEW d \in Call PROVE LostInv(d)'
  BY <1>1, <1>2 DEF ServeInv, LostInv, ServersTypeOK
<1> QED
  BY <1>3, <1>4, <1>5, <1>6 DEF ServeInv

-----------------------------------------------------------------------------
LEMMA ServeNext == ServeInv /\ [Next]_vars => ServeInv'
<1> SUFFICES ASSUME ServeInv, [Next]_vars PROVE ServeInv'
  OBVIOUS
<1>1. ASSUME NEW s \in Server, Listen(s) \/ Fail(s) \/ SendError(s)
      PROVE  ServeInv'
  BY <1>1, ListenInv
<1>2. ASSUME NEW p \in Process, Signal(p) \/ Running(p) \/ Exit(p) \/ Kill(p)
      PROVE  ServeInv'
  BY <1>2, SignalInv, WakeInv, CloseListenerInv, NextServerInv, ExpireInv,
     DieInv DEF Running
<1>3. ASSUME NEW c \in Call, Accept(c) \/ Refuse(c) \/ Answer(c)
      PROVE  ServeInv'
  BY <1>3, CallInv
<1>4. CASE UNCHANGED vars
  <2>1. UNCHANGED <<to, server, errCh, asked, phase, turn, expired, runErr,
                    shutdownErr, call>>
    BY <1>4 DEF vars
  <2>2. ServersTypeOK'
    BY <2>1 DEF ServeInv, ServersTypeOK
  <2>3. ASSUME NEW q \in Process
        PROVE  TurnInv(q)' /\ ClosedInv(q)' /\ ErrorsInv(q)'
    BY <2>1 DEF ServeInv, TurnInv, ClosedInv, Passed, OpenAt, ErrorsInv, Alive
  <2>4. \A c \in Call : LostInv(c)'
    BY <2>1 DEF ServeInv, LostInv
  <2> QED
    BY <2>2, <2>3, <2>4 DEF ServeInv
<1> QED
  BY <1>1, <1>2, <1>3, <1>4 DEF Next

(* The invariant that the results below rest on.                           *)
THEOREM ServeInvHolds == Spec => []ServeInv
<1> QED
  BY ServeInit, ServeNext, PTL DEF Spec

(* A process that reports a clean stop was told to stop, and every request *)
(* that one of its servers had accepted was answered, however many servers *)
(* share the grace period (serve.go Run, shutdown).                        *)
THEOREM StopIsClean == Spec => []CleanStop
<1>1. ASSUME ServeInv, NEW p \in Process, Clean(p) PROVE asked[p]
  <2>1. turn[p] > 0
    BY <1>1, ServerAt DEF Clean
  <2> QED
    BY <1>1, <2>1 DEF Clean, ServeInv, TurnInv
<1>2. ASSUME ServeInv, NEW p \in Process, Clean(p), NEW c \in Call,
             Home(to[c]) = p
      PROVE  call[c] \notin {"open", "lost"}
  <2>1. to[c] \in Server
    BY <1>2 DEF ServeInv, ServersTypeOK
  <2>2. PICK i \in DOMAIN Servers[p] : Servers[p][i] = to[c]
    BY <1>2, <2>1, Homes
  <2>3. i <= turn[p] /\ ~ shutdownErr[p]
    BY <1>2, ServerAt DEF Clean
  <2>4. call[c] # "open"
    BY <1>2, <2>2, <2>3 DEF ServeInv, ClosedInv, OpenAt
  <2>5. call[c] # "lost"
    BY <1>2, <2>3 DEF ServeInv, LostInv, Clean
  <2> QED
    BY <2>4, <2>5
<1>3. ServeInv => CleanStop
  BY <1>1, <1>2 DEF CleanStop
<1> QED
  BY ServeInvHolds, <1>3, PTL

(* No goroutine of a server waits for ever to hand over its error: while   *)
(* the process lives the channel has room for it, although Run reads at    *)
(* most one error (serve.go Run).                                          *)
THEOREM SendersGetRid == Spec => []NoSenderStuck
<1>1. ASSUME ServeInv, NEW s \in Server, phase[Home(s)] = "returned",
             server[s] = "failing"
      PROVE  Len(errCh[Home(s)]) < Capacity(Home(s))
  BY <1>1, Room, Homes DEF Alive
<1>2. ServeInv => NoSenderStuck
  BY <1>1 DEF NoSenderStuck
<1> QED
  BY ServeInvHolds, <1>2, PTL

-----------------------------------------------------------------------------
(* Documents: what is encoded is read back.                                *)

(* The first of some numbers is one of them.                               *)
LEMMA FirstIn ==
  ASSUME NEW S \in SUBSET Nat, S # {}
  PROVE  First(S) \in S
<1> DEFINE Less == OpToRel(<, Nat)
<1>1. IsWellFoundedOn(Less, Nat)
  BY NatLessThanWellFounded
<1>2. \E i \in S : \A j \in S : ~ (<<j, i>> \in Less)
  <2> HIDE DEF Less
  <2> QED
    BY <1>1, WFMin
<1>3. \A i, j \in S : ~ (<<j, i>> \in Less) => i <= j
  BY DEF OpToRel
<1>4. \E i \in S : \A j \in S : i <= j
  BY <1>2, <1>3
<1> QED
  BY <1>4 DEF First

(* The first and the last of one number.                                   *)
LEMMA FirstIsOne ==
  ASSUME NEW i \in Int
  PROVE  First({i}) = i /\ Last({i}) = i
BY DEF First, Last

(* A value is no error.                                                    *)
LEMMA ValueIs ==
  ASSUME NEW v, NEW w, w = [val |-> v]
  PROVE  Is("val", w) /\ ~ Is("err", w) /\ w.val = v
BY DEF Is

(* A decoder that meets every required field, and each field once and as it*)
(* was written, gives the struct.                                          *)
LEMMA FieldsRead ==
  ASSUME NEW fs, NEW ms, NEW results, NEW g,
         DOMAIN ms \subseteq Int,
         \A i, j \in DOMAIN ms : ms[i].name = ms[j].name => i = j,
         \A i \in DOMAIN ms : /\ ms[i].name \in FieldNames(fs)
                              /\ results[i] = [val |-> g[ms[i].name]],
         \A f \in DOMAIN fs : fs[f].required =>
           \E i \in DOMAIN ms : ms[i].name = fs[f].name
  PROVE  DecodeFields(fs, ms, results) =
           [val |-> Struct([n \in {ms[i].name : i \in DOMAIN ms} |-> g[n]])]
<1>1. {i \in DOMAIN ms : Is("err", results[i])} = {}
  <2>1. ASSUME NEW i \in DOMAIN ms
        PROVE  ~ Is("err", results[i])
    BY ValueIs
  <2> QED
    BY <2>1
<1>2. {i \in DOMAIN fs : Missing(ms, fs[i])} = {}
  BY DEF Missing, Named
<1>3. {n \in FieldNames(fs) : Named(ms, n) # {}} = {ms[i].name : i \in DOMAIN ms}
  <2>1. \A i \in DOMAIN ms : ms[i].name \in FieldNames(fs)
           /\ i \in Named(ms, ms[i].name)
    BY DEF Named
  <2>2. \A n : \A i \in Named(ms, n) : i \in DOMAIN ms /\ ms[i].name = n
    BY DEF Named
  <2> QED
    BY <2>1, <2>2
<1>4. ASSUME NEW n \in {ms[i].name : i \in DOMAIN ms}
      PROVE  results[Last(Named(ms, n))].val = g[n]
  <2>1. PICK i \in DOMAIN ms : ms[i].name = n
    OBVIOUS
  <2>2. Named(ms, n) = {i}
    BY <2>1 DEF Named
  <2>3. Last({i}) = i
    BY FirstIsOne
  <2>4. results[i] = [val |-> g[n]]
    BY <2>1
  <2> QED
    BY <2>2, <2>3, <2>4
<1>5. [n \in {n \in FieldNames(fs) : Named(ms, n) # {}} |->
         results[Last(Named(ms, n))].val]
      = [n \in {ms[i].name : i \in DOMAIN ms} |-> g[n]]
  BY <1>3, <1>4
<1> QED
  BY <1>1, <1>2, <1>5, Zenon DEF DecodeFields

(* A list whose elements read back reads back.                             *)
LEMMA ListRead ==
  ASSUME NEW D, NEW results, NEW g,
         DOMAIN results = D, \A i \in D : results[i] = [val |-> g[i]]
  PROVE  DecodeList(results) = [val |-> List([i \in D |-> g[i]])]
<1>1. {i \in DOMAIN results : Is("err", results[i])} = {}
  <2>1. ASSUME NEW i \in D
        PROVE  ~ Is("err", results[i])
    BY ValueIs
  <2> QED
    BY <2>1
<1>2. \A i \in D : results[i].val = g[i]
  BY ValueIs
<1>3. [i \in DOMAIN results |-> results[i].val] = [i \in D |-> g[i]]
  BY <1>2
<1> QED
  BY <1>1, <1>3 DEF DecodeList
(* What fields a type of the contracts may have, and what it reads back.   *)
Fields(fs) ==
  /\ DOMAIN fs \subseteq Int
  /\ \A i, j \in DOMAIN fs : fs[i].name = fs[j].name => i = j

Set(fs, f) == FieldNames(fs) \cap DOMAIN f

Complete(fs, f) == \A i \in DOMAIN fs : fs[i].required => fs[i].name \in DOMAIN f

(* What each type reads back from what it wrote, if its parts do. The      *)
(* decoder and the encoder of a type call those of its parts, and there are*)
(* as many levels of them as the contracts nest types: first the types     *)
(* whose parts are scalars.                                                *)
LEMMA FlatScalar ==
  ASSUME NEW k, NEW v, ScalarFits(k, v)
  PROVE  DecodeFlat([scalar |-> k], EncodeFlat([scalar |-> k], v)) = [val |-> v]
BY DEF DecodeFlat, DecodeParts, EncodeFlat, EncodeParts, Is

(* A list of scalars.                                                      *)
LEMMA FlatList ==
  ASSUME NEW s, NEW vs, NEW g,
         \A i \in DOMAIN vs :
           DecodeScalar(s, EncodeScalar(s, vs[i])) = [val |-> g[i]]
  PROVE  DecodeFlat(ListOf(s), EncodeFlat(ListOf(s), List(vs)))
           = [val |-> List([i \in DOMAIN vs |-> g[i]])]
<1> DEFINE ds == [i \in DOMAIN vs |-> EncodeScalar(s, vs[i])]
           results == [i \in DOMAIN ds |-> DecodeScalar(s, ds[i])]
<1>1. EncodeFlat(ListOf(s), List(vs)) = List(ds)
  BY DEF EncodeFlat, EncodeParts, ListOf, List, Is
<1>2. DecodeFlat(ListOf(s), List(ds)) = DecodeList(results)
  BY DEF DecodeFlat, DecodeParts, ListOf, List, Is
<1>3. DOMAIN results = DOMAIN vs /\ \A i \in DOMAIN vs : results[i] = [val |-> g[i]]
  OBVIOUS
<1> HIDE DEF results, ds
<1> QED
  BY <1>1, <1>2, <1>3, ListRead

(* An object of scalars.                                                   *)
LEMMA FlatObject ==
  ASSUME NEW fs, NEW f, NEW g, Fields(fs), Complete(fs, f),
         \A i \in DOMAIN fs : fs[i].name \in DOMAIN f =>
           DecodeScalar(fs[i].schema, EncodeScalar(fs[i].schema, f[fs[i].name]))
             = [val |-> g[fs[i].name]]
  PROVE  DecodeFlat(Object(fs), EncodeFlat(Object(fs), Struct(f)))
           = [val |-> Struct([n \in Set(fs, f) |-> g[n]])]
<1> DEFINE D == {i \in DOMAIN fs : fs[i].name \in DOMAIN f}
           ms == [i \in D |-> Member(fs[i].name,
             EncodeScalar(fs[i].schema, f[fs[i].name]))]
           results ==
             [i \in DOMAIN ms |->
                IF ms[i].name \in FieldNames(fs)
                THEN DecodeScalar(FieldSchema(fs, ms[i].name), ms[i].value)
                ELSE [val |-> Null]]
<1>1. EncodeFlat(Object(fs), Struct(f)) = Members(ms)
  BY DEF EncodeFlat, EncodeParts, SelectFields, Object, Struct, Is
<1>2. DecodeFlat(Object(fs), Members(ms)) = DecodeFields(fs, ms, results)
  BY DEF DecodeFlat, DecodeParts, Object, Members, Is
<1>3. ASSUME NEW i \in D
      PROVE  /\ ms[i].name = fs[i].name
             /\ ms[i].name \in FieldNames(fs)
             /\ results[i] = [val |-> g[ms[i].name]]
  <2>1. ms[i] = Member(fs[i].name, EncodeScalar(fs[i].schema, f[fs[i].name]))
    OBVIOUS
  <2>2. /\ ms[i].name = fs[i].name
        /\ ms[i].value = EncodeScalar(fs[i].schema, f[fs[i].name])
    BY <2>1 DEF Member
  <2>3. fs[i].name \in FieldNames(fs)
    BY DEF FieldNames
  <2>4. FieldSchema(fs, fs[i].name) = fs[i].schema
    <3>1. \A j \in DOMAIN fs : fs[j].name = fs[i].name => j = i
      BY DEF Fields
    <3>2. (CHOOSE j \in DOMAIN fs : fs[j].name = fs[i].name) = i
      BY <3>1
    <3> QED
      BY <3>2 DEF FieldSchema
  <2>5. results[i] = DecodeScalar(fs[i].schema,
          EncodeScalar(fs[i].schema, f[fs[i].name]))
    BY <2>2, <2>3, <2>4
  <2> HIDE DEF results, ms
  <2> QED
    BY <2>2, <2>3, <2>5
<1>4. DOMAIN ms = D
  OBVIOUS
<1>5. \A i, j \in D : ms[i].name = ms[j].name => i = j
  BY <1>3 DEF Fields
<1>6. \A i \in DOMAIN fs : fs[i].required => \E j \in D : ms[j].name = fs[i].name
  BY <1>3 DEF Complete
<1>7. {ms[i].name : i \in D} = Set(fs, f)
  <2>1. \A n : (\E i \in D : n = ms[i].name) <=> (\E i \in D : n = fs[i].name)
    BY <1>3
  <2>2. \A n : (\E i \in D : n = fs[i].name) <=> n \in Set(fs, f)
    BY DEF Set, FieldNames
  <2> HIDE DEF ms, D
  <2> QED
    BY <2>1, <2>2
<1>8. D \subseteq Int
  BY DEF Fields
<1> HIDE DEF results, ms, D
<1>9. DecodeFields(fs, ms, results)
        = [val |-> Struct([n \in {ms[i].name : i \in DOMAIN ms} |-> g[n]])]
  <2>1. DOMAIN ms \subseteq Int
    BY <1>4, <1>8
  <2>2. \A i, j \in DOMAIN ms : ms[i].name = ms[j].name => i = j
    BY <1>4, <1>5
  <2>3. \A i \in DOMAIN ms : /\ ms[i].name \in FieldNames(fs)
                             /\ results[i] = [val |-> g[ms[i].name]]
    BY <1>3, <1>4
  <2>4. \A i \in DOMAIN fs : fs[i].required =>
          \E j \in DOMAIN ms : ms[j].name = fs[i].name
    BY <1>4, <1>6
  <2> QED
    BY <2>1, <2>2, <2>3, <2>4, FieldsRead
<1> QED
  BY <1>1, <1>2, <1>4, <1>7, <1>9

(* Types whose parts are flat.                                             *)
LEMMA NestedScalar ==
  ASSUME NEW k, NEW v, ScalarFits(k, v)
  PROVE  DecodeNested([scalar |-> k], EncodeNested([scalar |-> k], v)) = [val |-> v]
BY DEF DecodeNested, DecodeParts, EncodeNested, EncodeParts, Is

(* A list of flat values.                                                  *)
LEMMA NestedList ==
  ASSUME NEW s, NEW vs, NEW g,
         \A i \in DOMAIN vs :
           DecodeFlat(s, EncodeFlat(s, vs[i])) = [val |-> g[i]]
  PROVE  DecodeNested(ListOf(s), EncodeNested(ListOf(s), List(vs)))
           = [val |-> List([i \in DOMAIN vs |-> g[i]])]
<1> DEFINE ds == [i \in DOMAIN vs |-> EncodeFlat(s, vs[i])]
           results == [i \in DOMAIN ds |-> DecodeFlat(s, ds[i])]
<1>1. EncodeNested(ListOf(s), List(vs)) = List(ds)
  BY DEF EncodeNested, EncodeParts, ListOf, List, Is
<1>2. DecodeNested(ListOf(s), List(ds)) = DecodeList(results)
  BY DEF DecodeNested, DecodeParts, ListOf, List, Is
<1>3. DOMAIN results = DOMAIN vs /\ \A i \in DOMAIN vs : results[i] = [val |-> g[i]]
  OBVIOUS
<1> HIDE DEF results, ds
<1> QED
  BY <1>1, <1>2, <1>3, ListRead

(* An object of flat values.                                               *)
LEMMA NestedObject ==
  ASSUME NEW fs, NEW f, NEW g, Fields(fs), Complete(fs, f),
         \A i \in DOMAIN fs : fs[i].name \in DOMAIN f =>
           DecodeFlat(fs[i].schema, EncodeFlat(fs[i].schema, f[fs[i].name]))
             = [val |-> g[fs[i].name]]
  PROVE  DecodeNested(Object(fs), EncodeNested(Object(fs), Struct(f)))
           = [val |-> Struct([n \in Set(fs, f) |-> g[n]])]
<1> DEFINE D == {i \in DOMAIN fs : fs[i].name \in DOMAIN f}
           ms == [i \in D |-> Member(fs[i].name,
             EncodeFlat(fs[i].schema, f[fs[i].name]))]
           results ==
             [i \in DOMAIN ms |->
                IF ms[i].name \in FieldNames(fs)
                THEN DecodeFlat(FieldSchema(fs, ms[i].name), ms[i].value)
                ELSE [val |-> Null]]
<1>1. EncodeNested(Object(fs), Struct(f)) = Members(ms)
  BY DEF EncodeNested, EncodeParts, SelectFields, Object, Struct, Is
<1>2. DecodeNested(Object(fs), Members(ms)) = DecodeFields(fs, ms, results)
  BY DEF DecodeNested, DecodeParts, Object, Members, Is
<1>3. ASSUME NEW i \in D
      PROVE  /\ ms[i].name = fs[i].name
             /\ ms[i].name \in FieldNames(fs)
             /\ results[i] = [val |-> g[ms[i].name]]
  <2>1. ms[i] = Member(fs[i].name, EncodeFlat(fs[i].schema, f[fs[i].name]))
    OBVIOUS
  <2>2. /\ ms[i].name = fs[i].name
        /\ ms[i].value = EncodeFlat(fs[i].schema, f[fs[i].name])
    BY <2>1 DEF Member
  <2>3. fs[i].name \in FieldNames(fs)
    BY DEF FieldNames
  <2>4. FieldSchema(fs, fs[i].name) = fs[i].schema
    <3>1. \A j \in DOMAIN fs : fs[j].name = fs[i].name => j = i
      BY DEF Fields
    <3>2. (CHOOSE j \in DOMAIN fs : fs[j].name = fs[i].name) = i
      BY <3>1
    <3> QED
      BY <3>2 DEF FieldSchema
  <2>5. results[i] = DecodeFlat(fs[i].schema, EncodeFlat(fs[i].schema, f[fs[i].name]))
    BY <2>2, <2>3, <2>4
  <2> HIDE DEF results, ms
  <2> QED
    BY <2>2, <2>3, <2>5
<1>4. DOMAIN ms = D
  OBVIOUS
<1>5. \A i, j \in D : ms[i].name = ms[j].name => i = j
  BY <1>3 DEF Fields
<1>6. \A i \in DOMAIN fs : fs[i].required => \E j \in D : ms[j].name = fs[i].name
  BY <1>3 DEF Complete
<1>7. {ms[i].name : i \in D} = Set(fs, f)
  <2>1. \A n : (\E i \in D : n = ms[i].name) <=> (\E i \in D : n = fs[i].name)
    BY <1>3
  <2>2. \A n : (\E i \in D : n = fs[i].name) <=> n \in Set(fs, f)
    BY DEF Set, FieldNames
  <2> HIDE DEF ms, D
  <2> QED
    BY <2>1, <2>2
<1>8. D \subseteq Int
  BY DEF Fields
<1> HIDE DEF results, ms, D
<1>9. DecodeFields(fs, ms, results)
        = [val |-> Struct([n \in {ms[i].name : i \in DOMAIN ms} |-> g[n]])]
  <2>1. DOMAIN ms \subseteq Int
    BY <1>4, <1>8
  <2>2. \A i, j \in DOMAIN ms : ms[i].name = ms[j].name => i = j
    BY <1>4, <1>5
  <2>3. \A i \in DOMAIN ms : /\ ms[i].name \in FieldNames(fs)
                             /\ results[i] = [val |-> g[ms[i].name]]
    BY <1>3, <1>4
  <2>4. \A i \in DOMAIN fs : fs[i].required =>
          \E j \in DOMAIN ms : ms[j].name = fs[i].name
    BY <1>4, <1>6
  <2> QED
    BY <2>1, <2>2, <2>3, <2>4, FieldsRead
<1> QED
  BY <1>1, <1>2, <1>4, <1>7, <1>9

(* Types whose parts are nested.                                           *)
LEMMA DeepScalar ==
  ASSUME NEW k, NEW v, ScalarFits(k, v)
  PROVE  DecodeDeep([scalar |-> k], EncodeDeep([scalar |-> k], v)) = [val |-> v]
BY DEF DecodeDeep, DecodeParts, EncodeDeep, EncodeParts, Is

(* A list of nested values.                                                *)
LEMMA DeepList ==
  ASSUME NEW s, NEW vs, NEW g,
         \A i \in DOMAIN vs :
           DecodeNested(s, EncodeNested(s, vs[i])) = [val |-> g[i]]
  PROVE  DecodeDeep(ListOf(s), EncodeDeep(ListOf(s), List(vs)))
           = [val |-> List([i \in DOMAIN vs |-> g[i]])]
<1> DEFINE ds == [i \in DOMAIN vs |-> EncodeNested(s, vs[i])]
           results == [i \in DOMAIN ds |-> DecodeNested(s, ds[i])]
<1>1. EncodeDeep(ListOf(s), List(vs)) = List(ds)
  BY DEF EncodeDeep, EncodeParts, ListOf, List, Is
<1>2. DecodeDeep(ListOf(s), List(ds)) = DecodeList(results)
  BY DEF DecodeDeep, DecodeParts, ListOf, List, Is
<1>3. DOMAIN results = DOMAIN vs /\ \A i \in DOMAIN vs : results[i] = [val |-> g[i]]
  OBVIOUS
<1> HIDE DEF results, ds
<1> QED
  BY <1>1, <1>2, <1>3, ListRead

(* An object of nested values.                                             *)
LEMMA DeepObject ==
  ASSUME NEW fs, NEW f, NEW g, Fields(fs), Complete(fs, f),
         \A i \in DOMAIN fs : fs[i].name \in DOMAIN f =>
           DecodeNested(fs[i].schema, EncodeNested(fs[i].schema, f[fs[i].name]))
             = [val |-> g[fs[i].name]]
  PROVE  DecodeDeep(Object(fs), EncodeDeep(Object(fs), Struct(f)))
           = [val |-> Struct([n \in Set(fs, f) |-> g[n]])]
<1> DEFINE D == {i \in DOMAIN fs : fs[i].name \in DOMAIN f}
           ms == [i \in D |-> Member(fs[i].name,
             EncodeNested(fs[i].schema, f[fs[i].name]))]
           results ==
             [i \in DOMAIN ms |->
                IF ms[i].name \in FieldNames(fs)
                THEN DecodeNested(FieldSchema(fs, ms[i].name), ms[i].value)
                ELSE [val |-> Null]]
<1>1. EncodeDeep(Object(fs), Struct(f)) = Members(ms)
  BY DEF EncodeDeep, EncodeParts, SelectFields, Object, Struct, Is
<1>2. DecodeDeep(Object(fs), Members(ms)) = DecodeFields(fs, ms, results)
  BY DEF DecodeDeep, DecodeParts, Object, Members, Is
<1>3. ASSUME NEW i \in D
      PROVE  /\ ms[i].name = fs[i].name
             /\ ms[i].name \in FieldNames(fs)
             /\ results[i] = [val |-> g[ms[i].name]]
  <2>1. ms[i] = Member(fs[i].name, EncodeNested(fs[i].schema, f[fs[i].name]))
    OBVIOUS
  <2>2. /\ ms[i].name = fs[i].name
        /\ ms[i].value = EncodeNested(fs[i].schema, f[fs[i].name])
    BY <2>1 DEF Member
  <2>3. fs[i].name \in FieldNames(fs)
    BY DEF FieldNames
  <2>4. FieldSchema(fs, fs[i].name) = fs[i].schema
    <3>1. \A j \in DOMAIN fs : fs[j].name = fs[i].name => j = i
      BY DEF Fields
    <3>2. (CHOOSE j \in DOMAIN fs : fs[j].name = fs[i].name) = i
      BY <3>1
    <3> QED
      BY <3>2 DEF FieldSchema
  <2>5. results[i] = DecodeNested(fs[i].schema,
          EncodeNested(fs[i].schema, f[fs[i].name]))
    BY <2>2, <2>3, <2>4
  <2> HIDE DEF results, ms
  <2> QED
    BY <2>2, <2>3, <2>5
<1>4. DOMAIN ms = D
  OBVIOUS
<1>5. \A i, j \in D : ms[i].name = ms[j].name => i = j
  BY <1>3 DEF Fields
<1>6. \A i \in DOMAIN fs : fs[i].required => \E j \in D : ms[j].name = fs[i].name
  BY <1>3 DEF Complete
<1>7. {ms[i].name : i \in D} = Set(fs, f)
  <2>1. \A n : (\E i \in D : n = ms[i].name) <=> (\E i \in D : n = fs[i].name)
    BY <1>3
  <2>2. \A n : (\E i \in D : n = fs[i].name) <=> n \in Set(fs, f)
    BY DEF Set, FieldNames
  <2> HIDE DEF ms, D
  <2> QED
    BY <2>1, <2>2
<1>8. D \subseteq Int
  BY DEF Fields
<1> HIDE DEF results, ms, D
<1>9. DecodeFields(fs, ms, results)
        = [val |-> Struct([n \in {ms[i].name : i \in DOMAIN ms} |-> g[n]])]
  <2>1. DOMAIN ms \subseteq Int
    BY <1>4, <1>8
  <2>2. \A i, j \in DOMAIN ms : ms[i].name = ms[j].name => i = j
    BY <1>4, <1>5
  <2>3. \A i \in DOMAIN ms : /\ ms[i].name \in FieldNames(fs)
                             /\ results[i] = [val |-> g[ms[i].name]]
    BY <1>3, <1>4
  <2>4. \A i \in DOMAIN fs : fs[i].required =>
          \E j \in DOMAIN ms : ms[j].name = fs[i].name
    BY <1>4, <1>6
  <2> QED
    BY <2>1, <2>2, <2>3, <2>4, FieldsRead
<1> QED
  BY <1>1, <1>2, <1>4, <1>7, <1>9

(* The types of whole documents.                                           *)
LEMMA WholeScalar ==
  ASSUME NEW k, NEW v, ScalarFits(k, v)
  PROVE  Decode([scalar |-> k], Encode([scalar |-> k], v)) = [val |-> v]
BY DEF Decode, DecodeParts, Encode, EncodeParts, Is

(* A list as a whole document.                                             *)
LEMMA WholeList ==
  ASSUME NEW s, NEW vs, NEW g,
         \A i \in DOMAIN vs :
           DecodeDeep(s, EncodeDeep(s, vs[i])) = [val |-> g[i]]
  PROVE  Decode(ListOf(s), Encode(ListOf(s), List(vs)))
           = [val |-> List([i \in DOMAIN vs |-> g[i]])]
<1> DEFINE ds == [i \in DOMAIN vs |-> EncodeDeep(s, vs[i])]
           results == [i \in DOMAIN ds |-> DecodeDeep(s, ds[i])]
<1>1. Encode(ListOf(s), List(vs)) = List(ds)
  BY DEF Encode, EncodeParts, ListOf, List, Is
<1>2. Decode(ListOf(s), List(ds)) = DecodeList(results)
  BY DEF Decode, DecodeParts, ListOf, List, Is
<1>3. DOMAIN results = DOMAIN vs /\ \A i \in DOMAIN vs : results[i] = [val |-> g[i]]
  OBVIOUS
<1> HIDE DEF results, ds
<1> QED
  BY <1>1, <1>2, <1>3, ListRead

(* An object as a whole document.                                          *)
LEMMA WholeObject ==
  ASSUME NEW fs, NEW f, NEW g, Fields(fs), Complete(fs, f),
         \A i \in DOMAIN fs : fs[i].name \in DOMAIN f =>
           DecodeDeep(fs[i].schema, EncodeDeep(fs[i].schema, f[fs[i].name]))
             = [val |-> g[fs[i].name]]
  PROVE  Decode(Object(fs), Encode(Object(fs), Struct(f)))
           = [val |-> Struct([n \in Set(fs, f) |-> g[n]])]
<1> DEFINE D == {i \in DOMAIN fs : fs[i].name \in DOMAIN f}
           ms == [i \in D |-> Member(fs[i].name,
             EncodeDeep(fs[i].schema, f[fs[i].name]))]
           results ==
             [i \in DOMAIN ms |->
                IF ms[i].name \in FieldNames(fs)
                THEN DecodeDeep(FieldSchema(fs, ms[i].name), ms[i].value)
                ELSE [val |-> Null]]
<1>1. Encode(Object(fs), Struct(f)) = Members(ms)
  BY DEF Encode, EncodeParts, SelectFields, Object, Struct, Is
<1>2. Decode(Object(fs), Members(ms)) = DecodeFields(fs, ms, results)
  BY DEF Decode, DecodeParts, Object, Members, Is
<1>3. ASSUME NEW i \in D
      PROVE  /\ ms[i].name = fs[i].name
             /\ ms[i].name \in FieldNames(fs)
             /\ results[i] = [val |-> g[ms[i].name]]
  <2>1. ms[i] = Member(fs[i].name, EncodeDeep(fs[i].schema, f[fs[i].name]))
    OBVIOUS
  <2>2. /\ ms[i].name = fs[i].name
        /\ ms[i].value = EncodeDeep(fs[i].schema, f[fs[i].name])
    BY <2>1 DEF Member
  <2>3. fs[i].name \in FieldNames(fs)
    BY DEF FieldNames
  <2>4. FieldSchema(fs, fs[i].name) = fs[i].schema
    <3>1. \A j \in DOMAIN fs : fs[j].name = fs[i].name => j = i
      BY DEF Fields
    <3>2. (CHOOSE j \in DOMAIN fs : fs[j].name = fs[i].name) = i
      BY <3>1
    <3> QED
      BY <3>2 DEF FieldSchema
  <2>5. results[i] = DecodeDeep(fs[i].schema, EncodeDeep(fs[i].schema, f[fs[i].name]))
    BY <2>2, <2>3, <2>4
  <2> HIDE DEF results, ms
  <2> QED
    BY <2>2, <2>3, <2>5
<1>4. DOMAIN ms = D
  OBVIOUS
<1>5. \A i, j \in D : ms[i].name = ms[j].name => i = j
  BY <1>3 DEF Fields
<1>6. \A i \in DOMAIN fs : fs[i].required => \E j \in D : ms[j].name = fs[i].name
  BY <1>3 DEF Complete
<1>7. {ms[i].name : i \in D} = Set(fs, f)
  <2>1. \A n : (\E i \in D : n = ms[i].name) <=> (\E i \in D : n = fs[i].name)
    BY <1>3
  <2>2. \A n : (\E i \in D : n = fs[i].name) <=> n \in Set(fs, f)
    BY DEF Set, FieldNames
  <2> HIDE DEF ms, D
  <2> QED
    BY <2>1, <2>2
<1>8. D \subseteq Int
  BY DEF Fields
<1> HIDE DEF results, ms, D
<1>9. DecodeFields(fs, ms, results)
        = [val |-> Struct([n \in {ms[i].name : i \in DOMAIN ms} |-> g[n]])]
  <2>1. DOMAIN ms \subseteq Int
    BY <1>4, <1>8
  <2>2. \A i, j \in DOMAIN ms : ms[i].name = ms[j].name => i = j
    BY <1>4, <1>5
  <2>3. \A i \in DOMAIN ms : /\ ms[i].name \in FieldNames(fs)
                             /\ results[i] = [val |-> g[ms[i].name]]
    BY <1>3, <1>4
  <2>4. \A i \in DOMAIN fs : fs[i].required =>
          \E j \in DOMAIN ms : ms[j].name = fs[i].name
    BY <1>4, <1>6
  <2> QED
    BY <2>1, <2>2, <2>3, <2>4, FieldsRead
<1> QED
  BY <1>1, <1>2, <1>4, <1>7, <1>9

(* The fields of a struct are texts, numbers and the like.                 *)
PlainField(fld, f) ==
  LET k == fld.schema.scalar
  IN  fld.schema = [scalar |-> k] /\ ScalarFits(k, f[fld.name])

Plain(fs, f) == \A i \in DOMAIN fs : fs[i].name \in DOMAIN f => PlainField(fs[i], f)

(* A text fits a field for a text, or for a URI.                           *)
LEMMA TextField ==
  ASSUME NEW n, NEW f, NEW t, f[n] = Str(t)
  PROVE  /\ PlainField(Required(n, String), f)
         /\ PlainField(Optional(n, String), f)
         /\ PlainField(Required(n, Uri), f)
         /\ PlainField(Optional(n, Uri), f)
BY DEF PlainField, Required, Optional, String, Uri, ScalarFits, Str, Is

(* A number fits a field for an integer.                                   *)
LEMMA NumberField ==
  ASSUME NEW n, NEW f, NEW t, f[n] = Num(t)
  PROVE  PlainField(Required(n, Integer), f)
BY DEF PlainField, Required, Integer, ScalarFits, Num, Is

(* An object of fields that fit reads back, at every level.                *)
LEMMA FlatPlain ==
  ASSUME NEW fs, NEW f, Fields(fs), Complete(fs, f), Plain(fs, f)
  PROVE  DecodeFlat(Object(fs), EncodeFlat(Object(fs), Struct(f)))
           = [val |-> Struct([n \in Set(fs, f) |-> f[n]])]
<1>1. ASSUME NEW i \in DOMAIN fs, fs[i].name \in DOMAIN f
      PROVE  DecodeScalar(fs[i].schema, EncodeScalar(fs[i].schema, f[fs[i].name]))
               = [val |-> f[fs[i].name]]
  <2>1. PICK k : fs[i].schema = [scalar |-> k] /\ ScalarFits(k, f[fs[i].name])
    BY <1>1 DEF Plain, PlainField
  <2>2. DecodeScalar([scalar |-> k], EncodeScalar([scalar |-> k], f[fs[i].name]))
          = [val |-> f[fs[i].name]]
    BY <2>1 DEF DecodeScalar, EncodeScalar, Is
  <2> QED
    BY <2>1, <2>2
<1> QED
  BY <1>1, FlatObject

(* The same one level up.                                                  *)
LEMMA NestedPlain ==
  ASSUME NEW fs, NEW f, Fields(fs), Complete(fs, f), Plain(fs, f)
  PROVE  DecodeNested(Object(fs), EncodeNested(Object(fs), Struct(f)))
           = [val |-> Struct([n \in Set(fs, f) |-> f[n]])]
<1>1. ASSUME NEW i \in DOMAIN fs, fs[i].name \in DOMAIN f
      PROVE  DecodeFlat(fs[i].schema, EncodeFlat(fs[i].schema, f[fs[i].name]))
               = [val |-> f[fs[i].name]]
  <2>1. PICK k : fs[i].schema = [scalar |-> k] /\ ScalarFits(k, f[fs[i].name])
    BY <1>1 DEF Plain, PlainField
  <2>2. DecodeFlat([scalar |-> k], EncodeFlat([scalar |-> k], f[fs[i].name]))
          = [val |-> f[fs[i].name]]
    BY <2>1, FlatScalar
  <2> QED
    BY <2>1, <2>2
<1> QED
  BY <1>1, NestedObject

(* The same two levels up.                                                 *)
LEMMA DeepPlain ==
  ASSUME NEW fs, NEW f, Fields(fs), Complete(fs, f), Plain(fs, f)
  PROVE  DecodeDeep(Object(fs), EncodeDeep(Object(fs), Struct(f)))
           = [val |-> Struct([n \in Set(fs, f) |-> f[n]])]
<1>1. ASSUME NEW i \in DOMAIN fs, fs[i].name \in DOMAIN f
      PROVE  DecodeNested(fs[i].schema, EncodeNested(fs[i].schema, f[fs[i].name]))
               = [val |-> f[fs[i].name]]
  <2>1. PICK k : fs[i].schema = [scalar |-> k] /\ ScalarFits(k, f[fs[i].name])
    BY <1>1 DEF Plain, PlainField
  <2>2. DecodeNested([scalar |-> k], EncodeNested([scalar |-> k], f[fs[i].name]))
          = [val |-> f[fs[i].name]]
    BY <2>1, NestedScalar
  <2> QED
    BY <2>1, <2>2
<1> QED
  BY <1>1, DeepObject

(* The same for a document.                                                *)
LEMMA WholePlain ==
  ASSUME NEW fs, NEW f, Fields(fs), Complete(fs, f), Plain(fs, f)
  PROVE  Decode(Object(fs), Encode(Object(fs), Struct(f)))
           = [val |-> Struct([n \in Set(fs, f) |-> f[n]])]
<1>1. ASSUME NEW i \in DOMAIN fs, fs[i].name \in DOMAIN f
      PROVE  DecodeDeep(fs[i].schema, EncodeDeep(fs[i].schema, f[fs[i].name]))
               = [val |-> f[fs[i].name]]
  <2>1. PICK k : fs[i].schema = [scalar |-> k] /\ ScalarFits(k, f[fs[i].name])
    BY <1>1 DEF Plain, PlainField
  <2>2. DecodeDeep([scalar |-> k], EncodeDeep([scalar |-> k], f[fs[i].name]))
          = [val |-> f[fs[i].name]]
    BY <2>1, DeepScalar
  <2> QED
    BY <2>1, <2>2
<1> QED
  BY <1>1, WholeObject

(* Money reads back, in a line and in an order.                            *)
LEMMA MoneyReads ==
  ASSUME NEW a, NEW c
  PROVE  LET v == Orders!MoneyOf(a, c)
         IN  /\ DecodeFlat(Orders!Money, EncodeFlat(Orders!Money, v)) = [val |-> v]
             /\ DecodeDeep(Orders!Money, EncodeDeep(Orders!Money, v)) = [val |-> v]
<1> DEFINE fs == <<Required("amount", Integer), Required("currency", String)>>
           f == [amount |-> Num(a), currency |-> Str(c)]
<1>1. Orders!Money = Object(fs) /\ Orders!MoneyOf(a, c) = Struct(f)
  BY DEF Orders!Money, Orders!MoneyOf, Orders!Object, Orders!Struct,
     Orders!Required, Orders!String, Orders!Integer, Orders!Str, Orders!Num,
     Object, Struct, Required, String, Integer, Str, Num
<1>2. Fields(fs) /\ Complete(fs, f) /\ Set(fs, f) = DOMAIN f
  BY DEF Fields, Complete, Set, FieldNames, Required
<1>3. Plain(fs, f)
  <2>1. PlainField(fs[1], f) /\ PlainField(fs[2], f)
    BY TextField, NumberField
  <2> QED
    BY <2>1 DEF Plain
<1>4. [n \in DOMAIN f |-> f[n]] = f
  OBVIOUS
<1> HIDE DEF fs, f
<1> QED
  BY <1>1, <1>2, <1>3, <1>4, FlatPlain, DeepPlain

(* Texts and numbers read back, at every level.                            *)
LEMMA FlatTexts ==
  ASSUME NEW t
  PROVE  /\ DecodeFlat(String, EncodeFlat(String, Str(t))) = [val |-> Str(t)]
         /\ DecodeFlat(Uri, EncodeFlat(Uri, Str(t))) = [val |-> Str(t)]
         /\ DecodeFlat(Integer, EncodeFlat(Integer, Num(t))) = [val |-> Num(t)]
<1>1. /\ ScalarFits("string", Str(t))
      /\ ScalarFits("uri", Str(t))
      /\ ScalarFits("integer", Num(t))
  BY DEF ScalarFits, Str, Num, Is
<1> QED
  BY <1>1, FlatScalar DEF String, Uri, Integer

(* The same one level up.                                                  *)
LEMMA NestedTexts ==
  ASSUME NEW t
  PROVE  /\ DecodeNested(String, EncodeNested(String, Str(t))) = [val |-> Str(t)]
         /\ DecodeNested(Uri, EncodeNested(Uri, Str(t))) = [val |-> Str(t)]
         /\ DecodeNested(Integer, EncodeNested(Integer, Num(t))) = [val |-> Num(t)]
<1>1. /\ ScalarFits("string", Str(t))
      /\ ScalarFits("uri", Str(t))
      /\ ScalarFits("integer", Num(t))
  BY DEF ScalarFits, Str, Num, Is
<1> QED
  BY <1>1, NestedScalar DEF String, Uri, Integer

(* The same two levels up.                                                 *)
LEMMA DeepTexts ==
  ASSUME NEW t
  PROVE  /\ DecodeDeep(String, EncodeDeep(String, Str(t))) = [val |-> Str(t)]
         /\ DecodeDeep(Uri, EncodeDeep(Uri, Str(t))) = [val |-> Str(t)]
         /\ DecodeDeep(Integer, EncodeDeep(Integer, Num(t))) = [val |-> Num(t)]
<1>1. /\ ScalarFits("string", Str(t))
      /\ ScalarFits("uri", Str(t))
      /\ ScalarFits("integer", Num(t))
  BY DEF ScalarFits, Str, Num, Is
<1> QED
  BY <1>1, DeepScalar DEF String, Uri, Integer

(* The acknowledgement of the internal API reads back.                     *)
LEMMA AckReads ==
  ASSUME NEW t
  PROVE  LET v == Struct([status |-> Str(t)])
         IN  Decode(Client!Ack, Encode(Client!Ack, v)) = [val |-> v]
<1> DEFINE fs == <<Required("status", String)>>
           f == [status |-> Str(t)]
<1>1. Client!Ack = Object(fs) /\ Struct([status |-> Str(t)]) = Struct(f)
  BY DEF Client!Ack, Client!Object, Client!Struct, Client!Required,
     Client!String, Client!Str, Object, Struct, Required, String, Str
<1>2. Fields(fs) /\ Complete(fs, f) /\ Set(fs, f) = DOMAIN f
  BY DEF Fields, Complete, Set, FieldNames, Required
<1>3. Plain(fs, f)
  <2>1. PlainField(fs[1], f)
    BY TextField
  <2> QED
    BY <2>1 DEF Plain
<1>4. [n \in DOMAIN f |-> f[n]] = f
  OBVIOUS
<1> HIDE DEF fs, f
<1> QED
  BY <1>1, <1>2, <1>3, <1>4, WholePlain

(* The view of a stock item reads back.                                    *)
LEMMA StockViewReads ==
  ASSUME NEW r
  PROVE  LET v == Stock!ToStockView(r)
         IN  Decode(Stock!StockView, Encode(Stock!StockView, v)) = [val |-> v]
<1> DEFINE fs == <<Required("sku", String), Required("available", Integer),
                   Required("reserved", Integer), Required("version", Integer)>>
           f == [sku |-> Str(r.sku), available |-> Num(r.available), reserved
                  |-> Num(r.reserved), version |-> Num(r.version)]
<1>1. Stock!StockView = Object(fs) /\ Stock!ToStockView(r) = Struct(f)
  BY DEF Stock!StockView, Stock!ToStockView, Stock!Object, Stock!Struct,
     Stock!Required, Stock!String, Stock!Integer, Stock!Str, Stock!Num,
     Object, Struct, Required, String, Integer, Str, Num
<1>2. Fields(fs) /\ Complete(fs, f) /\ Set(fs, f) = DOMAIN f
  BY DEF Fields, Complete, Set, FieldNames, Required
<1>3. Plain(fs, f)
  <2>1. PlainField(fs[1], f) /\ PlainField(fs[2], f) /\ PlainField(fs[3], f)
          /\ PlainField(fs[4], f)
    BY TextField, NumberField
  <2> QED
    BY <2>1 DEF Plain
<1>4. [n \in DOMAIN f |-> f[n]] = f
  OBVIOUS
<1> HIDE DEF fs, f
<1> QED
  BY <1>1, <1>2, <1>3, <1>4, WholePlain

(* The view of a shipment reads back.                                      *)
LEMMA ShipmentViewReads ==
  ASSUME NEW s
  PROVE  LET v == Orders!ToShipmentView(s)
         IN  Decode(Orders!ShipmentView, Encode(Orders!ShipmentView, v)) = [val |-> v]
<1> DEFINE fs == <<Required("id", String), Required("orderId", String),
                   Required("status", String), Required("trackingNumber", String),
                   Required("version", Integer)>>
           f == [id |-> Str(s.id), orderId |-> Str(s.order), status |->
                  Str(s.status), trackingNumber |-> Str(s.tracking), version |->
                  Num(s.version)]
<1>1. Orders!ShipmentView = Object(fs) /\ Orders!ToShipmentView(s) = Struct(f)
  BY DEF Orders!ShipmentView, Orders!ToShipmentView, Orders!Object,
     Orders!Struct, Orders!Required, Orders!String, Orders!Integer,
     Orders!Str, Orders!Num, Object, Struct, Required, String, Integer, Str,
     Num
<1>2. Fields(fs) /\ Complete(fs, f) /\ Set(fs, f) = DOMAIN f
  BY DEF Fields, Complete, Set, FieldNames, Required
<1>3. Plain(fs, f)
  <2>1. PlainField(fs[1], f) /\ PlainField(fs[2], f) /\ PlainField(fs[3], f)
          /\ PlainField(fs[4], f) /\ PlainField(fs[5], f)
    BY TextField, NumberField
  <2> QED
    BY <2>1 DEF Plain
<1>4. [n \in DOMAIN f |-> f[n]] = f
  OBVIOUS
<1> HIDE DEF fs, f
<1> QED
  BY <1>1, <1>2, <1>3, <1>4, WholePlain

(* A parameter that a problem names reads back.                            *)
LEMMA InvalidParamReads ==
  ASSUME NEW p, NEW reason
  PROVE  LET v == InvalidParamOf(p, reason)
         IN  DecodeNested(Client!InvalidParam, EncodeNested(Client!InvalidParam, v))
               = [val |-> v]
<1> DEFINE fs == <<Required("name", String), Required("code", String),
                   Optional("reason", String)>>
           f == [name |-> Str(p.name), code |-> Str(p.code), reason |->
                  Str(reason)]
<1>1. Client!InvalidParam = Object(fs) /\ InvalidParamOf(p, reason) = Struct(f)
  BY DEF Client!InvalidParam, Client!InvalidParamCode, Client!OptString,
     InvalidParamOf, Client!Object, Client!Struct, Client!Required,
     Client!Optional, Client!String, Client!Str, Object, Struct, Required,
     Optional, String, Str
<1>2. Fields(fs) /\ Complete(fs, f) /\ Set(fs, f) = DOMAIN f
  BY DEF Fields, Complete, Set, FieldNames, Required, Optional
<1>3. Plain(fs, f)
  <2>1. PlainField(fs[1], f) /\ PlainField(fs[2], f) /\ PlainField(fs[3], f)
    BY TextField
  <2> QED
    BY <2>1 DEF Plain
<1>4. [n \in DOMAIN f |-> f[n]] = f
  OBVIOUS
<1> HIDE DEF fs, f
<1> QED
  BY <1>1, <1>2, <1>3, <1>4, NestedPlain

(* A line of a reservation reads back.                                     *)
LEMMA ReserveLineReads ==
  ASSUME NEW l
  PROVE  LET v == Struct([sku |-> Str(l.sku), quantity |-> Num(l.qty)])
         IN  DecodeNested(Client!ReserveLine, EncodeNested(Client!ReserveLine, v))
               = [val |-> v]
<1> DEFINE fs == <<Required("sku", String), Required("quantity", Integer)>>
           f == [sku |-> Str(l.sku), quantity |-> Num(l.qty)]
<1>1. Client!ReserveLine = Object(fs)
        /\ Struct([sku |-> Str(l.sku), quantity |-> Num(l.qty)]) = Struct(f)
  BY DEF Client!ReserveLine, Client!Object, Client!Struct, Client!Required,
     Client!String, Client!Integer, Client!Str, Client!Num, Object, Struct,
     Required, String, Integer, Str, Num
<1>2. Fields(fs) /\ Complete(fs, f) /\ Set(fs, f) = DOMAIN f
  BY DEF Fields, Complete, Set, FieldNames, Required
<1>3. Plain(fs, f)
  <2>1. PlainField(fs[1], f) /\ PlainField(fs[2], f)
    BY TextField, NumberField
  <2> QED
    BY <2>1 DEF Plain
<1>4. [n \in DOMAIN f |-> f[n]] = f
  OBVIOUS
<1> HIDE DEF fs, f
<1> QED
  BY <1>1, <1>2, <1>3, <1>4, NestedPlain

(* The view of a line of an order, and how it reads back.                  *)
OrderLineViewOf(l) ==
  Struct([sku |-> Str(l.sku), quantity |-> Num(l.qty),
          unitPrice |-> Orders!MoneyOf(l.amount, l.currency),
          subtotal |-> Orders!MoneyOf(l.amount * l.qty, l.currency)])

(* A line of an order reads back.                                          *)
LEMMA OrderLineViewReads ==
  ASSUME NEW l
  PROVE  LET v == OrderLineViewOf(l)
         IN  DecodeNested(Orders!OrderLineView, EncodeNested(Orders!OrderLineView, v))
               = [val |-> v]
<1> DEFINE fs == <<Required("sku", String), Required("quantity", Integer),
                   Required("unitPrice", Orders!Money),
                   Required("subtotal", Orders!Money)>>
           f == [sku |-> Str(l.sku), quantity |-> Num(l.qty),
                 unitPrice |-> Orders!MoneyOf(l.amount, l.currency),
                 subtotal |-> Orders!MoneyOf(l.amount * l.qty, l.currency)]
           Read(i) == DecodeFlat(fs[i].schema, EncodeFlat(fs[i].schema, f[fs[i].name]))
                        = [val |-> f[fs[i].name]]
<1>1. Orders!OrderLineView = Object(fs) /\ OrderLineViewOf(l) = Struct(f)
  BY DEF Orders!OrderLineView, OrderLineViewOf, Orders!Object, Object,
         Orders!Required, Required, Orders!Integer, Integer, Orders!String, String
<1>2. Fields(fs) /\ Complete(fs, f) /\ Set(fs, f) = DOMAIN f
  BY DEF Fields, Complete, Set, FieldNames, Required
<1>3. Read(1) /\ Read(2)
  BY FlatTexts DEF Required
<1>4. Read(3) /\ Read(4)
  BY MoneyReads DEF Required
<1>5. ASSUME NEW i \in DOMAIN fs
      PROVE  Read(i)
  BY <1>3, <1>4
<1>6. [n \in DOMAIN f |-> f[n]] = f
  OBVIOUS
<1> HIDE DEF fs, f
<1> QED
  BY <1>1, <1>2, <1>5, <1>6, NestedObject

(* The view of an order reads back, with any number of lines.              *)
LEMMA OrderViewReads ==
  ASSUME NEW o
  PROVE  Is("val", Decode(Orders!OrderView,
                          Encode(Orders!OrderView, Orders!ToOrderView(o))))
<1> DEFINE vs == [i \in DOMAIN o.lines |-> OrderLineViewOf(o.lines[i])]
           fs == <<Required("id", String), Required("customerId", String),
                   Required("status", String),
                   Required("lines", ListOf(Orders!OrderLineView)),
                   Required("total", Orders!Money),
                   Required("reservationRef", String),
                   Required("version", Integer)>>
           f == [id |-> Str(o.id), customerId |-> Str(o.customer),
                 status |-> Str(o.status), version |-> Num(o.version),
                 reservationRef |-> Str(o.ref),
                 total |-> Orders!MoneyOf(o.total, o.currency),
                 lines |-> List(vs)]
           Read(i) == DecodeDeep(fs[i].schema, EncodeDeep(fs[i].schema, f[fs[i].name]))
                        = [val |-> f[fs[i].name]]
<1>1. Orders!OrderView = Object(fs)
  BY DEF Orders!OrderView, Orders!Object, Object, Orders!ListOf, ListOf,
         Orders!Required, Required, Orders!Integer, Integer, Orders!String, String
<1>2. Orders!ToOrderView(o) = Struct(f)
  BY DEF Orders!ToOrderView, OrderLineViewOf, Orders!Struct, Struct, Orders!List,
         List, Orders!Str, Str, Orders!Num, Num
<1>3. Fields(fs) /\ Complete(fs, f) /\ Set(fs, f) = DOMAIN f
  BY DEF Fields, Complete, Set, FieldNames, Required
<1>4. Read(1) /\ Read(2) /\ Read(3) /\ Read(6) /\ Read(7)
  BY DeepTexts DEF Required
<1>5. Read(5)
  BY MoneyReads DEF Required
<1>6. Read(4)
  <2>1. ASSUME NEW i \in DOMAIN vs
        PROVE  DecodeNested(Orders!OrderLineView,
                            EncodeNested(Orders!OrderLineView, vs[i]))
                 = [val |-> vs[i]]
    BY OrderLineViewReads
  <2>2. [i \in DOMAIN vs |-> vs[i]] = vs
    OBVIOUS
  <2>3. DecodeDeep(ListOf(Orders!OrderLineView),
                   EncodeDeep(ListOf(Orders!OrderLineView), List(vs)))
          = [val |-> List(vs)]
    <3> HIDE DEF vs
    <3> QED
      BY <2>1, <2>2, DeepList
  <2> QED
    BY <2>3 DEF Required
<1>7. ASSUME NEW i \in DOMAIN fs
      PROVE  Read(i)
  BY <1>4, <1>5, <1>6
<1> HIDE DEF fs, f
<1>8. Decode(Object(fs), Encode(Object(fs), Struct(f)))
        = [val |-> Struct([n \in Set(fs, f) |-> f[n]])]
  BY <1>3, <1>7, WholeObject
<1>9. Is("val", Decode(Object(fs), Encode(Object(fs), Struct(f))))
  BY <1>8, ValueIs
<1> QED
  BY <1>1, <1>2, <1>9

(* The inputs that a problem names, with codes of an enumeration.          *)
Listed(codes, params) ==
  /\ params = [i \in DOMAIN params |-> params[i]]
  /\ \A i \in DOMAIN params :
       \E p, reason : params[i] = InvalidParamOf(p, reason) /\ p.code \in codes

(* The problems of every adapter.                                          *)
LEMMA ProblemReads ==
  ASSUME NEW codes, NEW status, NEW type, NEW params, Listed(codes, params)
  PROVE  LET v == ProblemOf(status, type, params)
         IN  Decode(Client!ProblemDetails, Encode(Client!ProblemDetails, v))
               = [val |-> v]
<1> DEFINE fs == <<Required("type", Uri), Required("title", String),
                   Required("status", Integer), Optional("detail", String),
                   Optional("instance", Uri),
                   Optional("invalid-params", ListOf(Client!InvalidParam))>>
           names == {"type", "title", "status", "detail"}
                      \cup (IF params = <<>> THEN {} ELSE {"invalid-params"})
           f == [n \in names |->
                  CASE n = "type" -> Str(type)
                    [] n = "title" -> Str(TitleOf[type])
                    [] n = "status" -> Num(status)
                    [] n = "detail" -> Str(type)
                    [] n = "invalid-params" -> List(params)]
           Read(i) == DecodeDeep(fs[i].schema, EncodeDeep(fs[i].schema, f[fs[i].name]))
                        = [val |-> f[fs[i].name]]
<1>1. Client!ProblemDetails = Object(fs)
  BY DEF Client!ProblemDetails, Client!Object, Object, Client!ListOf, ListOf,
         Client!Required, Required, Client!Integer, Integer, Client!String, String,
         Client!Uri, Uri, Client!OptString, Client!OptURI, Client!Optional, Optional
<1>2. ProblemOf(status, type, params) = Struct(f)
  BY DEF ProblemOf
<1>3. Fields(fs) /\ Complete(fs, f)
  BY DEF Fields, Complete, Required, Optional
<1>4. Set(fs, f) = DOMAIN f
  BY DEF Set, FieldNames, Required, Optional
<1>5. Read(1) /\ Read(2) /\ Read(3) /\ Read(4)
  BY DeepTexts DEF Required, Optional
<1>6. ASSUME params # <<>>
      PROVE  Read(6)
  <2>1. ASSUME NEW i \in DOMAIN params
        PROVE  DecodeNested(Client!InvalidParam,
                            EncodeNested(Client!InvalidParam, params[i]))
                 = [val |-> params[i]]
    BY InvalidParamReads DEF Listed
  <2>2. [i \in DOMAIN params |-> params[i]] = params
    BY DEF Listed
  <2>3. DecodeDeep(ListOf(Client!InvalidParam),
                   EncodeDeep(ListOf(Client!InvalidParam), List(params)))
          = [val |-> List(params)]
    BY <2>1, <2>2, DeepList
  <2>4. f["invalid-params"] = List(params)
    BY <1>6
  <2> QED
    BY <2>3, <2>4 DEF Optional
<1>7. ASSUME NEW i \in DOMAIN fs, fs[i].name \in DOMAIN f
      PROVE  Read(i)
  <2>1. fs[5].name \notin DOMAIN f /\ (params = <<>> => fs[6].name \notin DOMAIN f)
    BY DEF Optional
  <2>2. i \in 1 .. 6
    OBVIOUS
  <2> QED
    BY <1>5, <1>6, <1>7, <2>1, <2>2
<1>8. [n \in DOMAIN f |-> f[n]] = f
  OBVIOUS
<1> HIDE DEF fs, f
<1>9. Decode(Object(fs), Encode(Object(fs), Struct(f))) = [val |-> Struct(f)]
  BY <1>3, <1>4, <1>7, <1>8, WholeObject
<1> QED
  BY <1>1, <1>2, <1>9

(* What the client sends to reserve reads as what it was made of, with any *)
(* number of lines.                                                        *)
LEMMA ReserveCommandReads ==
  ASSUME NEW ref, NEW lines
  PROVE  LET v == Struct([ref |-> Str(ref), lines |-> Client!ToClientLines(lines)])
         IN  Decode(Internal!ReserveCommand, Encode(Client!ReserveCommand, v))
               = [val |-> v]
<1> DEFINE vs == [i \in DOMAIN lines |-> Struct([sku |-> Str(lines[i].sku),
                                                quantity |-> Num(lines[i].qty)])]
           fs == <<Required("ref", String),
                   Required("lines", ListOf(Client!ReserveLine))>>
           f == [ref |-> Str(ref), lines |-> List(vs)]
           Read(i) == DecodeDeep(fs[i].schema, EncodeDeep(fs[i].schema, f[fs[i].name]))
                        = [val |-> f[fs[i].name]]
<1>1. Client!ReserveCommand = Object(fs)
  BY DEF Client!ReserveCommand, Client!Object, Object, Client!ListOf, ListOf,
         Client!Required, Required, Client!String, String
<1>2. Internal!ReserveCommand = Object(fs)
  BY DEF Internal!ReserveCommand, Internal!Object, Object, Internal!ListOf, ListOf,
         Internal!Required, Required, Internal!String, String,
         Internal!ReserveLine, Internal!Integer, Client!ReserveLine,
         Client!Required, Client!String, Client!Integer, Client!Object
<1>3. [ref |-> Str(ref), lines |-> Client!ToClientLines(lines)] = f
  BY DEF Client!ToClientLines, Client!List, List, Client!Struct, Struct,
         Client!Str, Str, Client!Num, Num
<1>4. Fields(fs) /\ Complete(fs, f) /\ Set(fs, f) = DOMAIN f
  BY DEF Fields, Complete, Set, FieldNames, Required
<1>5. Read(1)
  BY DeepTexts DEF Required
<1>6. Read(2)
  <2>1. ASSUME NEW i \in DOMAIN vs
        PROVE  DecodeNested(Client!ReserveLine, EncodeNested(Client!ReserveLine, vs[i]))
                 = [val |-> vs[i]]
    BY ReserveLineReads
  <2>2. [i \in DOMAIN vs |-> vs[i]] = vs
    OBVIOUS
  <2>3. DecodeDeep(ListOf(Client!ReserveLine),
                   EncodeDeep(ListOf(Client!ReserveLine), List(vs)))
          = [val |-> List(vs)]
    <3> HIDE DEF vs
    <3> QED
      BY <2>1, <2>2, DeepList
  <2> QED
    BY <2>3 DEF Required
<1>7. ASSUME NEW i \in DOMAIN fs
      PROVE  Read(i)
  BY <1>5, <1>6
<1>8. [n \in DOMAIN f |-> f[n]] = f
  OBVIOUS
<1> HIDE DEF fs, f
<1>9. Decode(Object(fs), Encode(Object(fs), Struct(f))) = [val |-> Struct(f)]
  BY <1>4, <1>7, <1>8, WholeObject
<1> QED
  BY <1>1, <1>2, <1>3, <1>9

(* And so does a message.                                                  *)
LEMMA InboundMessageReads ==
  ASSUME NEW m, m.occurredAt \in Instants
  PROVE  LET v == Struct([id |-> Str(m.id), type |-> Str(m.type),
                          payload |-> Str(m.payload), trace_id |-> Str(m.traceId),
                          occurred_at |-> Str(m.occurredAt)])
         IN  Decode(Internal!InboundMessage, Encode(Client!InboundMessage, v))
               = [val |-> v]
<1> DEFINE fs == <<Required("id", String), Required("type", String),
                   Required("payload", String), Optional("trace_id", String),
                   Optional("occurred_at", DateTime)>>
           f == [id |-> Str(m.id), type |-> Str(m.type), payload |-> Str(m.payload),
                 trace_id |-> Str(m.traceId), occurred_at |-> Str(m.occurredAt)]
<1>1. Client!InboundMessage = Object(fs)
  BY DEF Client!InboundMessage, Client!Object, Object, Client!Required, Required,
         Client!String, String, Client!OptString, Client!OptDateTime,
         Client!Optional, Optional, Client!DateTime, DateTime
<1>2. Internal!InboundMessage = Object(fs)
  BY DEF Internal!InboundMessage, Internal!Object, Object, Internal!Required,
         Required, Internal!String, String, Internal!OptString,
         Internal!OptDateTime, Internal!Optional, Optional, Internal!DateTime,
         DateTime
<1>3. Fields(fs) /\ Complete(fs, f) /\ Set(fs, f) = DOMAIN f
  BY DEF Fields, Complete, Set, FieldNames, Required, Optional
<1>4. Plain(fs, f)
  <2>1. /\ PlainField(fs[1], f) /\ PlainField(fs[2], f)
        /\ PlainField(fs[3], f) /\ PlainField(fs[4], f)
    BY TextField
  <2>2. PlainField(fs[5], f)
    BY DEF PlainField, Optional, DateTime, ScalarFits, Str, Is
  <2> QED
    BY <2>1, <2>2 DEF Plain
<1>5. [n \in DOMAIN f |-> f[n]] = f
  OBVIOUS
<1> HIDE DEF fs, f
<1>6. Decode(Object(fs), Encode(Object(fs), Struct(f))) = [val |-> Struct(f)]
  BY <1>3, <1>4, <1>5, WholePlain
<1> QED
  BY <1>1, <1>2, <1>6 DEF f

-----------------------------------------------------------------------------
(* Problems: every adapter writes them in the same way.                    *)

(* Every contract is encoded and decoded in the same way: the API of the   *)
(* orders,                                                                 *)
LEMMA OrdersEncodes ==
  ASSUME NEW s, NEW v
  PROVE  Orders!Encode(s, v) = Encode(s, v)
<1> USE DEF Orders!EncodeParts, EncodeParts, Orders!SelectFields,
           SelectFields, Orders!List, List, Orders!Members, Members,
           Orders!Member, Member, Orders!Is, Is
<1>1. \A t, w : Orders!EncodeScalar(t, w) = EncodeScalar(t, w)
  BY DEF Orders!EncodeScalar, EncodeScalar
<1>2. \A t, w : Orders!EncodeFlat(t, w) = EncodeFlat(t, w)
  BY <1>1 DEF Orders!EncodeFlat, EncodeFlat
<1>3. \A t, w : Orders!EncodeNested(t, w) = EncodeNested(t, w)
  BY <1>2 DEF Orders!EncodeNested, EncodeNested
<1>4. \A t, w : Orders!EncodeDeep(t, w) = EncodeDeep(t, w)
  BY <1>3 DEF Orders!EncodeDeep, EncodeDeep
<1> QED
  BY <1>4 DEF Orders!Encode, Encode

(* the API of the stock,                                                   *)
LEMMA StockEncodes ==
  ASSUME NEW s, NEW v
  PROVE  Stock!Encode(s, v) = Encode(s, v)
<1> USE DEF Stock!EncodeParts, EncodeParts, Stock!SelectFields, SelectFields,
           Stock!List, List, Stock!Members, Members, Stock!Member, Member,
           Stock!Is, Is
<1>1. \A t, w : Stock!EncodeScalar(t, w) = EncodeScalar(t, w)
  BY DEF Stock!EncodeScalar, EncodeScalar
<1>2. \A t, w : Stock!EncodeFlat(t, w) = EncodeFlat(t, w)
  BY <1>1 DEF Stock!EncodeFlat, EncodeFlat
<1>3. \A t, w : Stock!EncodeNested(t, w) = EncodeNested(t, w)
  BY <1>2 DEF Stock!EncodeNested, EncodeNested
<1>4. \A t, w : Stock!EncodeDeep(t, w) = EncodeDeep(t, w)
  BY <1>3 DEF Stock!EncodeDeep, EncodeDeep
<1> QED
  BY <1>4 DEF Stock!Encode, Encode

(* the internal API,                                                       *)
LEMMA InternalEncodes ==
  ASSUME NEW s, NEW v
  PROVE  Internal!Encode(s, v) = Encode(s, v)
<1> USE DEF Internal!EncodeParts, EncodeParts, Internal!SelectFields,
           SelectFields, Internal!List, List, Internal!Members, Members,
           Internal!Member, Member, Internal!Is, Is
<1>1. \A t, w : Internal!EncodeScalar(t, w) = EncodeScalar(t, w)
  BY DEF Internal!EncodeScalar, EncodeScalar
<1>2. \A t, w : Internal!EncodeFlat(t, w) = EncodeFlat(t, w)
  BY <1>1 DEF Internal!EncodeFlat, EncodeFlat
<1>3. \A t, w : Internal!EncodeNested(t, w) = EncodeNested(t, w)
  BY <1>2 DEF Internal!EncodeNested, EncodeNested
<1>4. \A t, w : Internal!EncodeDeep(t, w) = EncodeDeep(t, w)
  BY <1>3 DEF Internal!EncodeDeep, EncodeDeep
<1> QED
  BY <1>4 DEF Internal!Encode, Encode

(* the client's copy of it,                                                *)
LEMMA ClientEncodes ==
  ASSUME NEW s, NEW v
  PROVE  Client!Encode(s, v) = Encode(s, v)
<1> USE DEF Client!EncodeParts, EncodeParts, Client!SelectFields,
           SelectFields, Client!List, List, Client!Members, Members,
           Client!Member, Member, Client!Is, Is
<1>1. \A t, w : Client!EncodeScalar(t, w) = EncodeScalar(t, w)
  BY DEF Client!EncodeScalar, EncodeScalar
<1>2. \A t, w : Client!EncodeFlat(t, w) = EncodeFlat(t, w)
  BY <1>1 DEF Client!EncodeFlat, EncodeFlat
<1>3. \A t, w : Client!EncodeNested(t, w) = EncodeNested(t, w)
  BY <1>2 DEF Client!EncodeNested, EncodeNested
<1>4. \A t, w : Client!EncodeDeep(t, w) = EncodeDeep(t, w)
  BY <1>3 DEF Client!EncodeDeep, EncodeDeep
<1> QED
  BY <1>4 DEF Client!Encode, Encode

(* and the decoder of the internal API.                                    *)
LEMMA InternalDecodes ==
  ASSUME NEW s, NEW d
  PROVE  Internal!Decode(s, d) = Decode(s, d)
<1> USE DEF Internal!DecodeParts, DecodeParts, Internal!DecodeFields,
           DecodeFields, Internal!DecodeList, DecodeList,
           Internal!FieldSchema, FieldSchema, Internal!FieldNames, FieldNames,
           Internal!ScalarFits, ScalarFits, Internal!Instants, Instants,
           Internal!Missing, Missing, Internal!Named, Named, Internal!First,
           First, Internal!Last, Last, Internal!Failure, Failure,
           Internal!Unreadable, Unreadable, Internal!Leaf, Leaf,
           Internal!Struct, Struct, Internal!List, List, Internal!Null, Null,
           Internal!Is, Is
<1>1. \A t, w : Internal!DecodeScalar(t, w) = DecodeScalar(t, w)
  BY DEF Internal!DecodeScalar, DecodeScalar
<1>2. \A t, w : Internal!DecodeFlat(t, w) = DecodeFlat(t, w)
  BY <1>1 DEF Internal!DecodeFlat, DecodeFlat
<1>3. \A t, w : Internal!DecodeNested(t, w) = DecodeNested(t, w)
  BY <1>2 DEF Internal!DecodeNested, DecodeNested
<1>4. \A t, w : Internal!DecodeDeep(t, w) = DecodeDeep(t, w)
  BY <1>3 DEF Internal!DecodeDeep, DecodeDeep
<1> QED
  BY <1>4 DEF Internal!Decode, Decode

(* A problem names codes of an enumeration.                                *)
ReadableProblem(codes, r) ==
  LET problem == Decode(Client!ProblemDetails, r.body)
      ps == Client!InvalidParams(problem.val)
  IN  /\ "status" \in DOMAIN r
      /\ r.type = "problem" /\ r.status \in 400 .. 599 /\ Is("val", problem)
      /\ problem.val.struct["status"] = Num(r.status)
      /\ \A i \in DOMAIN ps : ps[i].struct["code"].str \in codes

(* A problem of any of the adapters can be read, and has its codes.        *)
LEMMA ProblemsReadable ==
  ASSUME NEW codes, NEW status \in 400 .. 599, NEW type, NEW params,
         Listed(codes, params)
  PROVE  ReadableProblem(codes,
           Response(status, "problem",
                    Encode(Client!ProblemDetails, ProblemOf(status, type, params))))
<1> DEFINE v == ProblemOf(status, type, params)
           r == Response(status, "problem", Encode(Client!ProblemDetails, v))
<1>1. Decode(Client!ProblemDetails, Encode(Client!ProblemDetails, v)) = [val |-> v]
  BY ProblemReads
<1>2. r.body = Encode(Client!ProblemDetails, v) /\ r.status = status
  BY DEF Response
<1>3. v.struct["status"] = Num(status)
  BY DEF ProblemOf, Struct
<1>4. Client!InvalidParams(v) = params
  BY DEF Client!InvalidParams, ProblemOf, Struct, List
<1>5. \A i \in DOMAIN params : params[i].struct["code"].str \in codes
  <2>1. ASSUME NEW p, NEW reason
        PROVE  InvalidParamOf(p, reason).struct["code"].str = p.code
    BY DEF InvalidParamOf, Struct, Str
  <2> QED
    BY <2>1 DEF Listed
<1> HIDE DEF v
<1>6. Decode(Client!ProblemDetails, r.body).val = v
      /\ Is("val", Decode(Client!ProblemDetails, r.body))
  BY <1>1, <1>2, ValueIs
<1> HIDE DEF r
<1>7. r.type = "problem" /\ r.status >= 400 /\ "status" \in DOMAIN r
  BY <1>2 DEF r, Response
<1>8. ReadableProblem(codes, r)
  BY <1>2, <1>3, <1>4, <1>5, <1>6, <1>7 DEF ReadableProblem
<1> QED
  BY <1>8 DEF r, v

(* One input or none.                                                      *)
LEMMA ListedFew ==
  ASSUME NEW codes, NEW p, NEW reason, p.code \in codes
  PROVE  Listed(codes, <<>>) /\ Listed(codes, <<InvalidParamOf(p, reason)>>)
<1>1. Listed(codes, <<>>)
  BY DEF Listed
<1> DEFINE ps == <<InvalidParamOf(p, reason)>>
<1>2. DOMAIN ps = {1} /\ ps[1] = InvalidParamOf(p, reason)
      /\ ps = [i \in DOMAIN ps |-> ps[i]]
  OBVIOUS
<1>3. Listed(codes, ps)
  <2> HIDE DEF ps
  <2> QED
    BY <1>2 DEF Listed
<1> QED
  BY <1>1, <1>3

(* What the contract refuses is told in its own codes.                     *)
LEMMA ExtractedCodes ==
  ASSUME NEW err
  PROVE  \A i \in DOMAIN ExtractParams(err) : ExtractParams(err)[i].code \in ReasonCodes
<1>1. CASE err.leaves # <<>>
  <2>1. ExtractParams(err) = WalkLeaves(err)
    BY <1>1 DEF ExtractParams
  <2> QED
    BY <2>1 DEF WalkLeaves, Param, CodeOf, ReasonCodes
<1>2. CASE err.leaves = <<>> /\ err.kind = "param"
  <2>1. ExtractParams(err) = <<Param(err.path, "invalid_param")>>
    BY <1>2 DEF ExtractParams
  <2> QED
    BY <2>1 DEF Param, ReasonCodes
<1>3. CASE err.leaves = <<>> /\ err.kind = "body-required"
  <2>1. ExtractParams(err) = <<Param(<<"body">>, "body_required")>>
    BY <1>3 DEF ExtractParams
  <2> QED
    BY <2>1 DEF Param, ReasonCodes
<1>4. CASE err.leaves = <<>> /\ err.kind = "decode" /\ err.path # <<>>
  <2>1. ExtractParams(err) = <<Param(err.path, "type")>>
    BY <1>4 DEF ExtractParams
  <2> QED
    BY <2>1 DEF Param, ReasonCodes
<1>5. CASE /\ err.leaves = <<>> /\ err.kind \notin {"param", "body-required"}
           /\ ~ (err.kind = "decode" /\ err.path # <<>>)
  <2>1. ExtractParams(err) = <<>>
    BY <1>5 DEF ExtractParams
  <2> QED
    BY <2>1
<1> QED
  BY <1>1, <1>2, <1>3, <1>4, <1>5

(* Orders: the same problems, with the codes of this contract.             *)
LEMMA OrdersSame ==
  /\ Orders!ProblemDetails = Client!ProblemDetails
  /\ Orders!TitleOf = TitleOf
  /\ Orders!ReasonCodes = ReasonCodes
  /\ \A err : Orders!ExtractParams(err) = ExtractParams(err)
  /\ \A p, reason : Orders!InvalidParamOf(p, reason) = InvalidParamOf(p, reason)
<1>1. Orders!ProblemDetails = Client!ProblemDetails
  BY DEF Orders!ProblemDetails, Client!ProblemDetails, Orders!Object,
     Client!Object, Orders!Required, Client!Required, Orders!Optional,
     Client!Optional, Orders!OptString, Client!OptString, Orders!OptURI,
     Client!OptURI, Orders!ListOf, Client!ListOf, Orders!InvalidParam,
     Client!InvalidParam, Orders!InvalidParamCode, Client!InvalidParamCode,
     Orders!String, Client!String, Orders!Integer, Client!Integer, Orders!Uri,
     Client!Uri
<1>2. Orders!TitleOf = TitleOf
  BY DEF Orders!TitleOf, TitleOf
<1>3. Orders!ReasonCodes = ReasonCodes
  BY DEF Orders!ReasonCodes, ReasonCodes
<1>4. \A err : Orders!ExtractParams(err) = ExtractParams(err)
  BY DEF Orders!ExtractParams, ExtractParams, Orders!WalkLeaves, WalkLeaves,
     Orders!Param, Param, Orders!CodeOf, CodeOf
<1>5. \A p, reason : Orders!InvalidParamOf(p, reason) = InvalidParamOf(p, reason)
  BY DEF Orders!InvalidParamOf, InvalidParamOf, Orders!Struct, Struct,
     Orders!Str, Str
<1> QED
  BY <1>1, <1>2, <1>3, <1>4, <1>5

(* Every problem of it can be read.                                        *)
LEMMA OrdersProblems ==
  ASSUME NEW status \in 400 .. 599, NEW type, NEW params,
         Listed(Orders!InvalidParamCodes, params)
  PROVE  ReadableProblem(Orders!InvalidParamCodes,
           Orders!WriteProblem(status, type, params))
<1>1. Orders!ProblemOf(status, type, params) = ProblemOf(status, type, params)
  BY OrdersSame DEF Orders!ProblemOf, ProblemOf, Orders!Struct, Struct,
     Orders!Str, Str, Orders!Num, Num, Orders!List, List
<1>2. Orders!WriteProblem(status, type, params)
        = Response(status, "problem",
                   Encode(Client!ProblemDetails, ProblemOf(status, type, params)))
  BY <1>1, OrdersSame, OrdersEncodes DEF Orders!WriteProblem, Orders!Response, Response
<1> QED
  BY <1>2, ProblemsReadable

(* Every refusal of a request by the contract can be read.                 *)
LEMMA OrdersRefuses ==
  ASSUME NEW err
  PROVE  ReadableProblem(Orders!InvalidParamCodes, Orders!ErrorHandler(err))
<1> DEFINE ps == ExtractParams(err)
           params == Orders!ContractParams(err)
           status == Orders!StatusOf(err)
<1>1. \A i \in DOMAIN ps : ps[i].code \in Orders!InvalidParamCodes
  BY OrdersSame, ExtractedCodes DEF Orders!InvalidParamCodes
<1>2. params = [i \in DOMAIN ps |->
                  InvalidParamOf(ps[i], Orders!ReasonOf(ps[i].code))]
  BY OrdersSame DEF Orders!ContractParams
<1>3. Listed(Orders!InvalidParamCodes, params)
  <2> HIDE DEF ps, params
  <2>1. params = [i \in DOMAIN params |-> params[i]] /\ DOMAIN params = DOMAIN ps
    BY <1>2
  <2>2. ASSUME NEW i \in DOMAIN params
        PROVE  params[i] = InvalidParamOf(ps[i], Orders!ReasonOf(ps[i].code))
               /\ ps[i].code \in Orders!InvalidParamCodes
    BY <1>1, <1>2, <2>1
  <2> QED
    BY <2>1, <2>2 DEF Listed
<1>4. status \in 400 .. 599
  BY DEF Orders!StatusOf
<1>5. Orders!ErrorHandler(err)
        = Orders!WriteProblem(status, Orders!TypeOfRefusal(status), params)
  BY DEF Orders!ErrorHandler
<1> HIDE DEF params, status
<1> QED
  BY <1>3, <1>4, <1>5, OrdersProblems

(* A path or a method that it does not have.                               *)
LEMMA OrdersUnrouted ==
  /\ ReadableProblem(Orders!InvalidParamCodes, Orders!NotFound)
  /\ ReadableProblem(Orders!InvalidParamCodes,
                     Orders!WriteProblem(405, "method-not-allowed", <<>>))
<1>1. Listed(Orders!InvalidParamCodes, <<>>)
  BY DEF Listed
<1> QED
  BY <1>1, OrdersProblems DEF Orders!NotFound

(* Every error of the application can be read.                             *)
LEMMA OrdersFails ==
  ASSUME NEW err, err.path = <<>> \/ err.code \in Orders!InvalidParamCodes
  PROVE  ReadableProblem(Orders!InvalidParamCodes,
                         Orders!EncodeErrorResponse(Orders!NewError(err)))
<1> DEFINE params == Orders!DomainParams(err)
           status == Orders!Classify(err.is)
<1>1. status \in 400 .. 599
  BY DEF Orders!Classify
<1>2. Listed(Orders!InvalidParamCodes, params)
  <2>1. CASE err.path = <<>>
    <3>1. Listed(Orders!InvalidParamCodes, <<>>)
      BY DEF Listed
    <3> QED
      BY <2>1, <3>1 DEF Orders!DomainParams
  <2>2. CASE err.path # <<>>
    <3> DEFINE p == Orders!Param(Orders!ToJSONPath(err.path), err.code)
    <3>1. p.code \in Orders!InvalidParamCodes
      BY <2>2 DEF Orders!Param
    <3>2. params = <<InvalidParamOf(p, Orders!DomainReasonOf(err.code))>>
      BY <2>2, OrdersSame DEF Orders!DomainParams
    <3> HIDE DEF p, params
    <3> QED
      BY <3>1, <3>2, ListedFew
  <2> QED
    BY <2>1, <2>2
<1> HIDE DEF status, params
<1>3. \E type : Orders!EncodeErrorResponse(Orders!NewError(err))
                 = Orders!WriteProblem(status, type, params)
  BY DEF Orders!EncodeErrorResponse, Orders!NewError, Orders!WriteProblem, status,
     params
<1> QED
  BY <1>1, <1>2, <1>3, OrdersProblems

(* Stock: the same problems, with the codes of this contract.              *)
LEMMA StockSame ==
  /\ Stock!ProblemDetails = Client!ProblemDetails
  /\ Stock!TitleOf = TitleOf
  /\ Stock!ReasonCodes = ReasonCodes
  /\ \A err : Stock!ExtractParams(err) = ExtractParams(err)
  /\ \A p, reason : Stock!InvalidParamOf(p, reason) = InvalidParamOf(p, reason)
<1>1. Stock!ProblemDetails = Client!ProblemDetails
  BY DEF Stock!ProblemDetails, Client!ProblemDetails, Stock!Object,
     Client!Object, Stock!Required, Client!Required, Stock!Optional,
     Client!Optional, Stock!OptString, Client!OptString, Stock!OptURI,
     Client!OptURI, Stock!ListOf, Client!ListOf, Stock!InvalidParam,
     Client!InvalidParam, Stock!InvalidParamCode, Client!InvalidParamCode,
     Stock!String, Client!String, Stock!Integer, Client!Integer, Stock!Uri,
     Client!Uri
<1>2. Stock!TitleOf = TitleOf
  BY DEF Stock!TitleOf, TitleOf
<1>3. Stock!ReasonCodes = ReasonCodes
  BY DEF Stock!ReasonCodes, ReasonCodes
<1>4. \A err : Stock!ExtractParams(err) = ExtractParams(err)
  BY DEF Stock!ExtractParams, ExtractParams, Stock!WalkLeaves, WalkLeaves,
     Stock!Param, Param, Stock!CodeOf, CodeOf
<1>5. \A p, reason : Stock!InvalidParamOf(p, reason) = InvalidParamOf(p, reason)
  BY DEF Stock!InvalidParamOf, InvalidParamOf, Stock!Struct, Struct,
     Stock!Str, Str
<1> QED
  BY <1>1, <1>2, <1>3, <1>4, <1>5

(* Every problem of it can be read.                                        *)
LEMMA StockProblems ==
  ASSUME NEW status \in 400 .. 599, NEW type, NEW params,
         Listed(Stock!InvalidParamCodes, params)
  PROVE  ReadableProblem(Stock!InvalidParamCodes,
           Stock!WriteProblem(status, type, params))
<1>1. Stock!ProblemOf(status, type, params) = ProblemOf(status, type, params)
  BY StockSame DEF Stock!ProblemOf, ProblemOf, Stock!Struct, Struct,
     Stock!Str, Str, Stock!Num, Num, Stock!List, List
<1>2. Stock!WriteProblem(status, type, params)
        = Response(status, "problem",
                   Encode(Client!ProblemDetails, ProblemOf(status, type, params)))
  BY <1>1, StockSame, StockEncodes DEF Stock!WriteProblem, Stock!Response, Response
<1> QED
  BY <1>2, ProblemsReadable

(* Every refusal of a request by the contract can be read.                 *)
LEMMA StockRefuses ==
  ASSUME NEW err
  PROVE  ReadableProblem(Stock!InvalidParamCodes, Stock!ErrorHandler(err))
<1> DEFINE ps == ExtractParams(err)
           params == Stock!ContractParams(err)
           status == Stock!StatusOf(err)
<1>1. \A i \in DOMAIN ps : ps[i].code \in Stock!InvalidParamCodes
  BY StockSame, ExtractedCodes DEF Stock!InvalidParamCodes
<1>2. params = [i \in DOMAIN ps |->
                  InvalidParamOf(ps[i], Stock!ReasonOf(ps[i].code))]
  BY StockSame DEF Stock!ContractParams
<1>3. Listed(Stock!InvalidParamCodes, params)
  <2> HIDE DEF ps, params
  <2>1. params = [i \in DOMAIN params |-> params[i]] /\ DOMAIN params = DOMAIN ps
    BY <1>2
  <2>2. ASSUME NEW i \in DOMAIN params
        PROVE  params[i] = InvalidParamOf(ps[i], Stock!ReasonOf(ps[i].code))
               /\ ps[i].code \in Stock!InvalidParamCodes
    BY <1>1, <1>2, <2>1
  <2> QED
    BY <2>1, <2>2 DEF Listed
<1>4. status \in 400 .. 599
  BY DEF Stock!StatusOf
<1>5. Stock!ErrorHandler(err)
        = Stock!WriteProblem(status, Stock!TypeOfRefusal(status), params)
  BY DEF Stock!ErrorHandler
<1> HIDE DEF params, status
<1> QED
  BY <1>3, <1>4, <1>5, StockProblems

(* A path or a method that it does not have.                               *)
LEMMA StockUnrouted ==
  /\ ReadableProblem(Stock!InvalidParamCodes, Stock!NotFound)
  /\ ReadableProblem(Stock!InvalidParamCodes,
                     Stock!WriteProblem(405, "method-not-allowed", <<>>))
<1>1. Listed(Stock!InvalidParamCodes, <<>>)
  BY DEF Listed
<1> QED
  BY <1>1, StockProblems DEF Stock!NotFound

(* Every error of the application can be read.                             *)
LEMMA StockFails ==
  ASSUME NEW err, err.path = <<>> \/ err.code \in Stock!InvalidParamCodes
  PROVE  ReadableProblem(Stock!InvalidParamCodes,
                         Stock!EncodeErrorResponse(Stock!NewError(err)))
<1> DEFINE params == Stock!DomainParams(err)
           status == Stock!Classify(err.is)
<1>1. status \in 400 .. 599
  BY DEF Stock!Classify
<1>2. Listed(Stock!InvalidParamCodes, params)
  <2>1. CASE err.path = <<>>
    <3>1. Listed(Stock!InvalidParamCodes, <<>>)
      BY DEF Listed
    <3> QED
      BY <2>1, <3>1 DEF Stock!DomainParams
  <2>2. CASE err.path # <<>>
    <3> DEFINE p == Stock!Param(Stock!ToJSONPath(err.path), err.code)
    <3>1. p.code \in Stock!InvalidParamCodes
      BY <2>2 DEF Stock!Param
    <3>2. params = <<InvalidParamOf(p, Stock!DomainReasonOf(err.code))>>
      BY <2>2, StockSame DEF Stock!DomainParams
    <3> HIDE DEF p, params
    <3> QED
      BY <3>1, <3>2, ListedFew
  <2> QED
    BY <2>1, <2>2
<1> HIDE DEF status, params
<1>3. \E type : Stock!EncodeErrorResponse(Stock!NewError(err))
                 = Stock!WriteProblem(status, type, params)
  BY DEF Stock!EncodeErrorResponse, Stock!NewError, Stock!WriteProblem, status, params
<1> QED
  BY <1>1, <1>2, <1>3, StockProblems

(* Internal: the same problems, with the codes of this contract.           *)
LEMMA InternalSame ==
  /\ Internal!ProblemDetails = Client!ProblemDetails
  /\ Internal!TitleOf = TitleOf
  /\ Internal!ReasonCodes = ReasonCodes
  /\ \A err : Internal!ExtractParams(err) = ExtractParams(err)
  /\ \A p, reason : Internal!InvalidParamOf(p, reason) = InvalidParamOf(p, reason)
<1>1. Internal!ProblemDetails = Client!ProblemDetails
  BY DEF Internal!ProblemDetails, Client!ProblemDetails, Internal!Object,
     Client!Object, Internal!Required, Client!Required, Internal!Optional,
     Client!Optional, Internal!OptString, Client!OptString, Internal!OptURI,
     Client!OptURI, Internal!ListOf, Client!ListOf, Internal!InvalidParam,
     Client!InvalidParam, Internal!InvalidParamCode, Client!InvalidParamCode,
     Internal!String, Client!String, Internal!Integer, Client!Integer,
     Internal!Uri, Client!Uri
<1>2. Internal!TitleOf = TitleOf
  BY DEF Internal!TitleOf, TitleOf
<1>3. Internal!ReasonCodes = ReasonCodes
  BY DEF Internal!ReasonCodes, ReasonCodes
<1>4. \A err : Internal!ExtractParams(err) = ExtractParams(err)
  BY DEF Internal!ExtractParams, ExtractParams, Internal!WalkLeaves,
     WalkLeaves, Internal!Param, Param, Internal!CodeOf, CodeOf
<1>5. \A p, reason : Internal!InvalidParamOf(p, reason) = InvalidParamOf(p, reason)
  BY DEF Internal!InvalidParamOf, InvalidParamOf, Internal!Struct, Struct,
     Internal!Str, Str
<1> QED
  BY <1>1, <1>2, <1>3, <1>4, <1>5

(* Every problem of it can be read.                                        *)
LEMMA InternalProblems ==
  ASSUME NEW status \in 400 .. 599, NEW type, NEW params,
         Listed(Internal!InvalidParamCodes, params)
  PROVE  ReadableProblem(Internal!InvalidParamCodes,
           Internal!WriteProblem(status, type, params))
<1>1. Internal!ProblemOf(status, type, params) = ProblemOf(status, type, params)
  BY InternalSame DEF Internal!ProblemOf, ProblemOf, Internal!Struct, Struct,
     Internal!Str, Str, Internal!Num, Num, Internal!List, List
<1>2. Internal!WriteProblem(status, type, params)
        = Response(status, "problem",
                   Encode(Client!ProblemDetails, ProblemOf(status, type, params)))
  BY <1>1, InternalSame, InternalEncodes
     DEF Internal!WriteProblem, Internal!Response, Response
<1> QED
  BY <1>2, ProblemsReadable

(* Every refusal of a request by the contract can be read.                 *)
LEMMA InternalRefuses ==
  ASSUME NEW err
  PROVE  ReadableProblem(Internal!InvalidParamCodes, Internal!ErrorHandler(err))
<1> DEFINE ps == ExtractParams(err)
           params == Internal!ContractParams(err)
           status == Internal!StatusOf(err)
<1>1. \A i \in DOMAIN ps : ps[i].code \in Internal!InvalidParamCodes
  BY InternalSame, ExtractedCodes DEF Internal!InvalidParamCodes
<1>2. params = [i \in DOMAIN ps |->
                  InvalidParamOf(ps[i], Internal!ReasonOf(ps[i].code))]
  BY InternalSame DEF Internal!ContractParams
<1>3. Listed(Internal!InvalidParamCodes, params)
  <2> HIDE DEF ps, params
  <2>1. params = [i \in DOMAIN params |-> params[i]] /\ DOMAIN params = DOMAIN ps
    BY <1>2
  <2>2. ASSUME NEW i \in DOMAIN params
        PROVE  params[i] = InvalidParamOf(ps[i], Internal!ReasonOf(ps[i].code))
               /\ ps[i].code \in Internal!InvalidParamCodes
    BY <1>1, <1>2, <2>1
  <2> QED
    BY <2>1, <2>2 DEF Listed
<1>4. status \in 400 .. 599
  BY DEF Internal!StatusOf
<1>5. Internal!ErrorHandler(err)
        = Internal!WriteProblem(status, Internal!TypeOfRefusal(status), params)
  BY DEF Internal!ErrorHandler
<1> HIDE DEF params, status
<1> QED
  BY <1>3, <1>4, <1>5, InternalProblems

(* A path or a method that it does not have.                               *)
LEMMA InternalUnrouted ==
  /\ ReadableProblem(Internal!InvalidParamCodes, Internal!NotFound)
  /\ ReadableProblem(Internal!InvalidParamCodes,
                     Internal!WriteProblem(405, "method-not-allowed", <<>>))
<1>1. Listed(Internal!InvalidParamCodes, <<>>)
  BY DEF Listed
<1> QED
  BY <1>1, InternalProblems DEF Internal!NotFound

(* Every error of the application can be read.                             *)
LEMMA InternalFails ==
  ASSUME NEW err, err.path = <<>> \/ err.code \in Internal!InvalidParamCodes
  PROVE  ReadableProblem(Internal!InvalidParamCodes,
                         Internal!EncodeErrorResponse(Internal!NewError(err)))
<1> DEFINE params == Internal!DomainParams(err)
           status == Internal!Classify(err.is)
<1>1. status \in 400 .. 599
  BY DEF Internal!Classify
<1>2. Listed(Internal!InvalidParamCodes, params)
  <2>1. CASE err.path = <<>>
    <3>1. Listed(Internal!InvalidParamCodes, <<>>)
      BY DEF Listed
    <3> QED
      BY <2>1, <3>1 DEF Internal!DomainParams
  <2>2. CASE err.path # <<>>
    <3> DEFINE p == Internal!Param(Internal!ToJSONPath(err.path), err.code)
    <3>1. p.code \in Internal!InvalidParamCodes
      BY <2>2 DEF Internal!Param
    <3>2. params = <<InvalidParamOf(p, Internal!DomainReasonOf(err.code))>>
      BY <2>2, InternalSame DEF Internal!DomainParams
    <3> HIDE DEF p, params
    <3> QED
      BY <3>1, <3>2, ListedFew
  <2> QED
    BY <2>1, <2>2
<1> HIDE DEF status, params
<1>3. \E type : Internal!EncodeErrorResponse(Internal!NewError(err))
                 = Internal!WriteProblem(status, type, params)
  BY DEF Internal!EncodeErrorResponse, Internal!NewError, Internal!WriteProblem, status,
     params
<1> QED
  BY <1>1, <1>2, <1>3, InternalProblems

-----------------------------------------------------------------------------
(* Routes: what a request asks for.                                        *)

(* The segments of a path that matches a pattern.                          *)
LEMMA Segments ==
  ASSUME NEW path, DOMAIN path = 1 .. Len(path)
  PROVE  /\ Len(path) = 2 => 1 \in DOMAIN path
         /\ Len(path) = 3 => 1 \in DOMAIN path /\ 3 \in DOMAIN path
OBVIOUS

(* A path of two segments, the second of them any text.                    *)
LEMMA MatchesTwo ==
  ASSUME NEW path, DOMAIN path = 1 .. Len(path), NEW a, a # "{}",
           Matches(path, <<a, "{}">>)
  PROVE  Len(path) = 2 /\ path[1] = a
<1>1. Len(path) = 2
  BY DEF Matches
<1>2. 1 \in DOMAIN path
  BY <1>1, Segments
<1>3. <<a, "{}">>[1] \in {"{}", path[1]}
  BY <1>2 DEF Matches
<1> QED
  BY <1>1, <1>3

(* A path of three segments, the second of them any text.                  *)
LEMMA MatchesThree ==
  ASSUME NEW path, DOMAIN path = 1 .. Len(path), NEW a, NEW b, a # "{}", b # "{}",
         Matches(path, <<a, "{}", b>>)
  PROVE  Len(path) = 3 /\ path[1] = a /\ path[3] = b
<1>1. Len(path) = 3
  BY DEF Matches
<1>2. 1 \in DOMAIN path /\ 3 \in DOMAIN path
  BY <1>1, Segments
<1>3. <<a, "{}", b>>[1] \in {"{}", path[1]} /\ <<a, "{}", b>>[3] \in {"{}", path[3]}
  BY <1>2 DEF Matches
<1> QED
  BY <1>1, <1>3

(* The operation of a path does not depend on the application.             *)
LEMMA OrdersRoutes ==
  ASSUME NEW r, DOMAIN r.path = 1 .. Len(r.path)
  PROVE  \/ \A out : Orders!ServeHTTP(r, out)
            = Orders!Exchange(Orders!NoCall, Orders!NotFound)
         \/ \A out : Orders!ServeHTTP(r, out)
                     = Orders!Exchange(Orders!NoCall, Orders!MethodNotAllowed(r))
         \/ \A out : Orders!ServeHTTP(r, out) = Orders!HandlePlaceOrder(r, out)
         \/ \A out : Orders!ServeHTTP(r, out) = Orders!HandleGetOrder(r, out)
         \/ \A out : Orders!ServeHTTP(r, out) = Orders!HandleCancelOrder(r, out)
         \/ \A out : Orders!ServeHTTP(r, out) = Orders!HandlePrepareShipment(r, out)
         \/ \A out : Orders!ServeHTTP(r, out) = Orders!HandleGetShipment(r, out)
         \/ \A out : Orders!ServeHTTP(r, out) = Orders!HandleMarkShipped(r, out)
<1> DEFINE Path(a) == r.path = <<a>>
           Two(a) == Matches(r.path, <<a, "{}">>)
           Three(a, b) == Matches(r.path, <<a, "{}", b>>)
           len == Len(r.path)
           first == r.path[1]
           third == r.path[3]
<1>1. \A path, pattern : Orders!Matches(path, pattern) = Matches(path, pattern)
  BY DEF Orders!Matches, Matches
<1>2. ASSUME NEW a, Path(a)
      PROVE  len = 1 /\ first = a
  BY <1>2
<1>3. ASSUME NEW a, a # "{}", Two(a)
      PROVE  len = 2 /\ first = a
  BY <1>3, MatchesTwo, Zenon
<1>4. ASSUME NEW a, NEW b, a # "{}", b # "{}", Three(a, b)
      PROVE  len = 3 /\ first = a /\ third = b
  BY <1>4, MatchesThree, Zenon
<1> HIDE DEF Path, Two, Three, len, first, third
<1>5. Path("orders") => len = 1 /\ first = "orders"
  BY <1>2
<1>6. Two("orders") => len = 2 /\ first = "orders"
  BY <1>3
<1>7. Three("orders", "cancel") => len = 3 /\ first = "orders" /\ third = "cancel"
  BY <1>4
<1>8. Path("shipments") => len = 1 /\ first = "shipments"
  BY <1>2
<1>9. Two("shipments") => len = 2 /\ first = "shipments"
  BY <1>3
<1>10. Three("shipments", "ship") => len = 3 /\ first = "shipments" /\ third = "ship"
  BY <1>4
<1>11. CASE Path("orders")
  <2>1. /\ ~ Two("orders")
        /\ ~ Three("orders", "cancel")
        /\ ~ Path("shipments")
        /\ ~ Two("shipments")
        /\ ~ Three("shipments", "ship")
    BY <1>11, <1>5, <1>6, <1>7, <1>8, <1>9, <1>10
  <2>2. ASSUME NEW out
        PROVE  Orders!ServeHTTP(r, out) =
                 IF r.method = "POST" THEN Orders!HandlePlaceOrder(r, out)
                 ELSE Orders!Exchange(Orders!NoCall, Orders!MethodNotAllowed(r))
    BY <1>1, <1>11, <2>1 DEF Orders!ServeHTTP, Path, Two, Three
  <2> QED
    BY <2>2
<1>12. CASE Two("orders")
  <2>1. /\ ~ Path("orders")
        /\ ~ Three("orders", "cancel")
        /\ ~ Path("shipments")
        /\ ~ Two("shipments")
        /\ ~ Three("shipments", "ship")
    BY <1>12, <1>5, <1>6, <1>7, <1>8, <1>9, <1>10
  <2>2. ASSUME NEW out
        PROVE  Orders!ServeHTTP(r, out) =
                 IF r.method = "GET" THEN Orders!HandleGetOrder(r, out)
                 ELSE Orders!Exchange(Orders!NoCall, Orders!MethodNotAllowed(r))
    BY <1>1, <1>12, <2>1 DEF Orders!ServeHTTP, Path, Two, Three
  <2> QED
    BY <2>2
<1>13. CASE Three("orders", "cancel")
  <2>1. /\ ~ Path("orders")
        /\ ~ Two("orders")
        /\ ~ Path("shipments")
        /\ ~ Two("shipments")
        /\ ~ Three("shipments", "ship")
    BY <1>13, <1>5, <1>6, <1>7, <1>8, <1>9, <1>10
  <2>2. ASSUME NEW out
        PROVE  Orders!ServeHTTP(r, out) =
                 IF r.method = "POST" THEN Orders!HandleCancelOrder(r, out)
                 ELSE Orders!Exchange(Orders!NoCall, Orders!MethodNotAllowed(r))
    BY <1>1, <1>13, <2>1 DEF Orders!ServeHTTP, Path, Two, Three
  <2> QED
    BY <2>2
<1>14. CASE Path("shipments")
  <2>1. /\ ~ Path("orders")
        /\ ~ Two("orders")
        /\ ~ Three("orders", "cancel")
        /\ ~ Two("shipments")
        /\ ~ Three("shipments", "ship")
    BY <1>14, <1>5, <1>6, <1>7, <1>8, <1>9, <1>10
  <2>2. ASSUME NEW out
        PROVE  Orders!ServeHTTP(r, out) =
                 IF r.method = "POST" THEN Orders!HandlePrepareShipment(r, out)
                 ELSE Orders!Exchange(Orders!NoCall, Orders!MethodNotAllowed(r))
    BY <1>1, <1>14, <2>1 DEF Orders!ServeHTTP, Path, Two, Three
  <2> QED
    BY <2>2
<1>15. CASE Two("shipments")
  <2>1. /\ ~ Path("orders")
        /\ ~ Two("orders")
        /\ ~ Three("orders", "cancel")
        /\ ~ Path("shipments")
        /\ ~ Three("shipments", "ship")
    BY <1>15, <1>5, <1>6, <1>7, <1>8, <1>9, <1>10
  <2>2. ASSUME NEW out
        PROVE  Orders!ServeHTTP(r, out) =
                 IF r.method = "GET" THEN Orders!HandleGetShipment(r, out)
                 ELSE Orders!Exchange(Orders!NoCall, Orders!MethodNotAllowed(r))
    BY <1>1, <1>15, <2>1 DEF Orders!ServeHTTP, Path, Two, Three
  <2> QED
    BY <2>2
<1>16. CASE Three("shipments", "ship")
  <2>1. /\ ~ Path("orders")
        /\ ~ Two("orders")
        /\ ~ Three("orders", "cancel")
        /\ ~ Path("shipments")
        /\ ~ Two("shipments")
    BY <1>16, <1>5, <1>6, <1>7, <1>8, <1>9, <1>10
  <2>2. ASSUME NEW out
        PROVE  Orders!ServeHTTP(r, out) =
                 IF r.method = "POST" THEN Orders!HandleMarkShipped(r, out)
                 ELSE Orders!Exchange(Orders!NoCall, Orders!MethodNotAllowed(r))
    BY <1>1, <1>16, <2>1 DEF Orders!ServeHTTP, Path, Two, Three
  <2> QED
    BY <2>2
<1>17. CASE ~ (Path("orders") \/ Two("orders") \/ Three("orders", "cancel") \/
             Path("shipments") \/ Two("shipments") \/ Three("shipments",
             "ship"))
  BY <1>1, <1>17 DEF Orders!ServeHTTP, Path, Two, Three
<1> QED
  BY <1>11, <1>12, <1>13, <1>14, <1>15, <1>16, <1>17

(* The same for the stock,                                                 *)
LEMMA StockRoutes ==
  ASSUME NEW r, DOMAIN r.path = 1 .. Len(r.path)
  PROVE  \/ \A out : Stock!ServeHTTP(r, out)
            = Stock!Exchange(Stock!NoCall, Stock!NotFound)
         \/ \A out : Stock!ServeHTTP(r, out)
                     = Stock!Exchange(Stock!NoCall, Stock!MethodNotAllowed(r))
         \/ \A out : Stock!ServeHTTP(r, out) = Stock!HandleGetStock(r, out)
         \/ \A out : Stock!ServeHTTP(r, out) = Stock!HandleReplenishStock(r, out)
<1> DEFINE Path(a) == r.path = <<a>>
           Two(a) == Matches(r.path, <<a, "{}">>)
           Three(a, b) == Matches(r.path, <<a, "{}", b>>)
           len == Len(r.path)
           first == r.path[1]
           third == r.path[3]
<1>1. \A path, pattern : Stock!Matches(path, pattern) = Matches(path, pattern)
  BY DEF Stock!Matches, Matches
<1>2. ASSUME NEW a, Path(a)
      PROVE  len = 1 /\ first = a
  BY <1>2
<1>3. ASSUME NEW a, a # "{}", Two(a)
      PROVE  len = 2 /\ first = a
  BY <1>3, MatchesTwo, Zenon
<1>4. ASSUME NEW a, NEW b, a # "{}", b # "{}", Three(a, b)
      PROVE  len = 3 /\ first = a /\ third = b
  BY <1>4, MatchesThree, Zenon
<1> HIDE DEF Path, Two, Three, len, first, third
<1>5. Two("stock") => len = 2 /\ first = "stock"
  BY <1>3
<1>6. Three("stock", "replenish") => len = 3 /\ first = "stock" /\ third = "replenish"
  BY <1>4
<1>7. CASE Two("stock")
  <2>1. /\ ~ Three("stock", "replenish")
    BY <1>7, <1>5, <1>6
  <2>2. ASSUME NEW out
        PROVE  Stock!ServeHTTP(r, out) =
                 IF r.method = "GET" THEN Stock!HandleGetStock(r, out)
                 ELSE Stock!Exchange(Stock!NoCall, Stock!MethodNotAllowed(r))
    BY <1>1, <1>7, <2>1 DEF Stock!ServeHTTP, Path, Two, Three
  <2> QED
    BY <2>2
<1>8. CASE Three("stock", "replenish")
  <2>1. /\ ~ Two("stock")
    BY <1>8, <1>5, <1>6
  <2>2. ASSUME NEW out
        PROVE  Stock!ServeHTTP(r, out) =
                 IF r.method = "POST" THEN Stock!HandleReplenishStock(r, out)
                 ELSE Stock!Exchange(Stock!NoCall, Stock!MethodNotAllowed(r))
    BY <1>1, <1>8, <2>1 DEF Stock!ServeHTTP, Path, Two, Three
  <2> QED
    BY <2>2
<1>9. CASE ~ (Two("stock") \/ Three("stock", "replenish"))
  BY <1>1, <1>9 DEF Stock!ServeHTTP, Path, Two, Three
<1> QED
  BY <1>7, <1>8, <1>9

(* and for the internal API.                                               *)
LEMMA InternalRoutes ==
  ASSUME NEW r, DOMAIN r.path = 1 .. Len(r.path)
  PROVE  \/ \A out : Internal!ServeHTTP(r, out)
            = Internal!Exchange(Internal!NoCall, Internal!NotFound)
         \/ \A out : Internal!ServeHTTP(r, out)
                     = Internal!Exchange(Internal!NoCall, Internal!MethodNotAllowed(r))
         \/ \A out : Internal!ServeHTTP(r, out) = Internal!HandleIngestEvent(r, out)
         \/ \A out : Internal!ServeHTTP(r, out) = Internal!HandleReserveStock(r, out)
         \/ \A out : Internal!ServeHTTP(r, out)
            = Internal!HandleConfirmReservation(r, out)
         \/ \A out : Internal!ServeHTTP(r, out)
            = Internal!HandleReleaseReservation(r, out)
<1> DEFINE Path(a) == r.path = <<a>>
           Two(a) == Matches(r.path, <<a, "{}">>)
           Three(a, b) == Matches(r.path, <<a, "{}", b>>)
           len == Len(r.path)
           first == r.path[1]
           third == r.path[3]
<1>1. \A path, pattern : Internal!Matches(path, pattern) = Matches(path, pattern)
  BY DEF Internal!Matches, Matches
<1>2. ASSUME NEW a, Path(a)
      PROVE  len = 1 /\ first = a
  BY <1>2
<1>3. ASSUME NEW a, a # "{}", Two(a)
      PROVE  len = 2 /\ first = a
  BY <1>3, MatchesTwo, Zenon
<1>4. ASSUME NEW a, NEW b, a # "{}", b # "{}", Three(a, b)
      PROVE  len = 3 /\ first = a /\ third = b
  BY <1>4, MatchesThree, Zenon
<1> HIDE DEF Path, Two, Three, len, first, third
<1>5. Path("events") => len = 1 /\ first = "events"
  BY <1>2
<1>6. Path("reservations") => len = 1 /\ first = "reservations"
  BY <1>2
<1>7. Three("reservations", "confirm")
        => len = 3 /\ first = "reservations" /\ third = "confirm"
  BY <1>4
<1>8. Three("reservations", "release")
        => len = 3 /\ first = "reservations" /\ third = "release"
  BY <1>4
<1>9. CASE Path("events")
  <2>1. /\ ~ Path("reservations")
        /\ ~ Three("reservations", "confirm")
        /\ ~ Three("reservations", "release")
    BY <1>9, <1>5, <1>6, <1>7, <1>8
  <2>2. ASSUME NEW out
        PROVE  Internal!ServeHTTP(r, out) =
                 IF r.method = "POST" THEN Internal!HandleIngestEvent(r, out)
                 ELSE Internal!Exchange(Internal!NoCall, Internal!MethodNotAllowed(r))
    BY <1>1, <1>9, <2>1 DEF Internal!ServeHTTP, Path, Two, Three
  <2> QED
    BY <2>2
<1>10. CASE Path("reservations")
  <2>1. /\ ~ Path("events")
        /\ ~ Three("reservations", "confirm")
        /\ ~ Three("reservations", "release")
    BY <1>10, <1>5, <1>6, <1>7, <1>8
  <2>2. ASSUME NEW out
        PROVE  Internal!ServeHTTP(r, out) =
                 IF r.method = "POST" THEN Internal!HandleReserveStock(r, out)
                 ELSE Internal!Exchange(Internal!NoCall, Internal!MethodNotAllowed(r))
    BY <1>1, <1>10, <2>1 DEF Internal!ServeHTTP, Path, Two, Three
  <2> QED
    BY <2>2
<1>11. CASE Three("reservations", "confirm")
  <2>1. /\ ~ Path("events")
        /\ ~ Path("reservations")
        /\ ~ Three("reservations", "release")
    BY <1>11, <1>5, <1>6, <1>7, <1>8
  <2>2. ASSUME NEW out
        PROVE  Internal!ServeHTTP(r, out) =
                 IF r.method = "POST" THEN Internal!HandleConfirmReservation(r, out)
                 ELSE Internal!Exchange(Internal!NoCall, Internal!MethodNotAllowed(r))
    BY <1>1, <1>11, <2>1 DEF Internal!ServeHTTP, Path, Two, Three
  <2> QED
    BY <2>2
<1>12. CASE Three("reservations", "release")
  <2>1. /\ ~ Path("events")
        /\ ~ Path("reservations")
        /\ ~ Three("reservations", "confirm")
    BY <1>12, <1>5, <1>6, <1>7, <1>8
  <2>2. ASSUME NEW out
        PROVE  Internal!ServeHTTP(r, out) =
                 IF r.method = "POST" THEN Internal!HandleReleaseReservation(r, out)
                 ELSE Internal!Exchange(Internal!NoCall, Internal!MethodNotAllowed(r))
    BY <1>1, <1>12, <2>1 DEF Internal!ServeHTTP, Path, Two, Three
  <2> QED
    BY <2>2
<1>13. CASE ~ (Path("events") \/ Path("reservations") \/ Three("reservations",
             "confirm") \/ Three("reservations", "release"))
  BY <1>1, <1>13 DEF Internal!ServeHTTP, Path, Two, Three
<1> QED
  BY <1>9, <1>10, <1>11, <1>12, <1>13

-----------------------------------------------------------------------------
(* Answers: every response is one of the contract.                         *)

(* A response that the contract describes.                                 *)
ReadableAnswer(codes, op, r) ==
  /\ "status" \in DOMAIN r /\ r.type # "redirect"
  /\ CASE r.type = "problem" -> ReadableProblem(codes, r)
       [] r.type = "json" ->
            r.status < 300 /\ Is("val", Decode(ResultSchema(op), r.body))
       [] OTHER -> r.status < 300

(* An exchange that ends with one.                                         *)
Readable(codes, exchange) ==
  ReadableAnswer(codes, exchange.call.op, exchange.answer)

(* An error of the application names no input, or with a code of the       *)
(* enumeration.                                                            *)
Tellable(codes, out) ==
  Is("err", out) => out.err.path = <<>> \/ out.err.code \in codes

(* A problem is such a response,                                           *)
LEMMA ProblemIsReadable ==
  ASSUME NEW codes, NEW op, NEW r, ReadableProblem(codes, r)
  PROVE  ReadableAnswer(codes, op, r)
BY DEF ReadableAnswer, ReadableProblem

(* and so is a result that reads back.                                     *)
LEMMA ResultIsReadable ==
  ASSUME NEW codes, NEW op, NEW status, NEW body, status \in 200 .. 299,
         Is("val", Decode(ResultSchema(op), body))
  PROVE  ReadableAnswer(codes, op, Response(status, "json", body))
BY DEF ReadableAnswer, Response

(* A handler of the orders answers readably if its application does.       *)
LEMMA OrdersHandled ==
  ASSUME NEW decoded, NEW called, NEW out, NEW reply,
         Tellable(Orders!InvalidParamCodes, out),
         ~ Is("err", out) =>
           ReadableAnswer(Orders!InvalidParamCodes, called.op, reply)
  PROVE  Readable(Orders!InvalidParamCodes, Orders!Handled(decoded, called, out, reply))
<1> DEFINE codes == Orders!InvalidParamCodes
           answer == Orders!EncodeErrorResponse(Orders!NewError(out.err))
<1>1. ReadableProblem(codes, Orders!ErrorHandler(decoded.err))
  BY OrdersRefuses
<1>2. Is("err", out) => ReadableProblem(codes, answer)
  BY OrdersFails DEF Tellable
<1>3. CASE Is("err", decoded)
  BY <1>1, <1>3, ProblemIsReadable DEF Readable, Orders!Handled, Orders!Exchange,
     Orders!Is, Is
<1>4. CASE ~ Is("err", decoded) /\ Is("err", out)
  BY <1>2, <1>4, ProblemIsReadable DEF Readable, Orders!Handled, Orders!Exchange,
     Orders!Is, Is
<1>5. CASE ~ Is("err", decoded) /\ ~ Is("err", out)
  BY <1>5 DEF Readable, Orders!Handled, Orders!Exchange, Orders!Is, Is
<1> QED
  BY <1>3, <1>4, <1>5

(* Every answer of the server of the orders can be read.                   *)
LEMMA OrdersReadable ==
  ASSUME NEW r, DOMAIN r.path = 1 .. Len(r.path), NEW out,
         Tellable(Orders!InvalidParamCodes, out)
  PROVE  Readable(Orders!InvalidParamCodes, Orders!ServeHTTP(r, out))
<1> DEFINE codes == Orders!InvalidParamCodes
<1>1. Readable(codes, Orders!Exchange(Orders!NoCall, Orders!NotFound))
  BY OrdersUnrouted, ProblemIsReadable DEF Readable, Orders!Exchange
<1>2. Readable(codes, Orders!Exchange(Orders!NoCall, Orders!MethodNotAllowed(r)))
  <2>1. CASE r.method = "OPTIONS"
    BY <2>1 DEF Orders!MethodNotAllowed, Orders!Response, Orders!Exchange, Readable,
       ReadableAnswer
  <2>2. CASE r.method # "OPTIONS"
    BY <2>2, OrdersUnrouted, ProblemIsReadable
       DEF Orders!MethodNotAllowed, Orders!Exchange, Readable
  <2> QED
    BY <2>1, <2>2
<1>3. Readable(codes, Orders!HandlePlaceOrder(r, out))
  <2> DEFINE reply == Orders!EncodePlaceOrderResponse(out.val)
  <2>1. ASSUME ~ Is("err", out)
        PROVE  ReadableAnswer(codes, "placeOrder", reply)
    <3>1. Is("val", Decode(Orders!OrderView,
            Orders!Encode(Orders!OrderView, Orders!ToOrderView(out.val))))
      BY OrderViewReads, OrdersEncodes, ValueIs
    <3>2. ResultSchema("placeOrder") = Orders!OrderView
      BY DEF ResultSchema
    <3> QED
      BY <3>1, <3>2, ResultIsReadable
         DEF Orders!EncodePlaceOrderResponse, Orders!Response, Response
  <2>2. ASSUME NEW decoded, NEW arg
        PROVE  Readable(codes,
                 Orders!Handled(decoded, Orders!Called("placeOrder", arg), out, reply))
    <3>1. Orders!Called("placeOrder", arg).op = "placeOrder"
      BY DEF Orders!Called
    <3> HIDE DEF reply
    <3> QED
      BY <2>1, <3>1, OrdersHandled
  <2> HIDE DEF codes
  <2> QED
    BY <2>2 DEF Orders!HandlePlaceOrder
<1>4. Readable(codes, Orders!HandleGetOrder(r, out))
  <2> DEFINE reply == Orders!EncodeGetOrderResponse(out.val)
  <2>1. ASSUME ~ Is("err", out)
        PROVE  ReadableAnswer(codes, "getOrder", reply)
    <3>1. Is("val", Decode(Orders!OrderView,
            Orders!Encode(Orders!OrderView, Orders!ToOrderView(out.val))))
      BY OrderViewReads, OrdersEncodes, ValueIs
    <3>2. ResultSchema("getOrder") = Orders!OrderView
      BY DEF ResultSchema
    <3> QED
      BY <3>1, <3>2, ResultIsReadable
         DEF Orders!EncodeGetOrderResponse, Orders!Response, Response
  <2>2. ASSUME NEW decoded, NEW arg
        PROVE  Readable(codes,
                 Orders!Handled(decoded, Orders!Called("getOrder", arg), out, reply))
    <3>1. Orders!Called("getOrder", arg).op = "getOrder"
      BY DEF Orders!Called
    <3> HIDE DEF reply
    <3> QED
      BY <2>1, <3>1, OrdersHandled
  <2> HIDE DEF codes
  <2> QED
    BY <2>2 DEF Orders!HandleGetOrder
<1>5. Readable(codes, Orders!HandleCancelOrder(r, out))
  <2> DEFINE reply == Orders!EncodeCancelOrderResponse(out.val)
  <2>1. ASSUME ~ Is("err", out)
        PROVE  ReadableAnswer(codes, "cancelOrder", reply)
    <3>1. Is("val", Decode(Orders!OrderView,
            Orders!Encode(Orders!OrderView, Orders!ToOrderView(out.val))))
      BY OrderViewReads, OrdersEncodes, ValueIs
    <3>2. ResultSchema("cancelOrder") = Orders!OrderView
      BY DEF ResultSchema
    <3> QED
      BY <3>1, <3>2, ResultIsReadable
         DEF Orders!EncodeCancelOrderResponse, Orders!Response, Response
  <2>2. ASSUME NEW decoded, NEW arg
        PROVE  Readable(codes,
                 Orders!Handled(decoded, Orders!Called("cancelOrder", arg), out, reply))
    <3>1. Orders!Called("cancelOrder", arg).op = "cancelOrder"
      BY DEF Orders!Called
    <3> HIDE DEF reply
    <3> QED
      BY <2>1, <3>1, OrdersHandled
  <2> HIDE DEF codes
  <2> QED
    BY <2>2 DEF Orders!HandleCancelOrder
<1>6. Readable(codes, Orders!HandlePrepareShipment(r, out))
  <2> DEFINE reply == Orders!EncodePrepareShipmentResponse(out.val)
  <2>1. ASSUME ~ Is("err", out)
        PROVE  ReadableAnswer(codes, "prepareShipment", reply)
    <3>1. Is("val", Decode(Orders!ShipmentView,
            Orders!Encode(Orders!ShipmentView, Orders!ToShipmentView(out.val))))
      BY ShipmentViewReads, OrdersEncodes, ValueIs
    <3>2. ResultSchema("prepareShipment") = Orders!ShipmentView
      BY DEF ResultSchema
    <3> QED
      BY <3>1, <3>2, ResultIsReadable
         DEF Orders!EncodePrepareShipmentResponse, Orders!Response, Response
  <2>2. ASSUME NEW decoded, NEW arg
        PROVE  Readable(codes,
                 Orders!Handled(decoded, Orders!Called("prepareShipment", arg), out,
                 reply))
    <3>1. Orders!Called("prepareShipment", arg).op = "prepareShipment"
      BY DEF Orders!Called
    <3> HIDE DEF reply
    <3> QED
      BY <2>1, <3>1, OrdersHandled
  <2> HIDE DEF codes
  <2> QED
    BY <2>2 DEF Orders!HandlePrepareShipment
<1>7. Readable(codes, Orders!HandleGetShipment(r, out))
  <2> DEFINE reply == Orders!EncodeGetShipmentResponse(out.val)
  <2>1. ASSUME ~ Is("err", out)
        PROVE  ReadableAnswer(codes, "getShipment", reply)
    <3>1. Is("val", Decode(Orders!ShipmentView,
            Orders!Encode(Orders!ShipmentView, Orders!ToShipmentView(out.val))))
      BY ShipmentViewReads, OrdersEncodes, ValueIs
    <3>2. ResultSchema("getShipment") = Orders!ShipmentView
      BY DEF ResultSchema
    <3> QED
      BY <3>1, <3>2, ResultIsReadable
         DEF Orders!EncodeGetShipmentResponse, Orders!Response, Response
  <2>2. ASSUME NEW decoded, NEW arg
        PROVE  Readable(codes,
                 Orders!Handled(decoded, Orders!Called("getShipment", arg), out, reply))
    <3>1. Orders!Called("getShipment", arg).op = "getShipment"
      BY DEF Orders!Called
    <3> HIDE DEF reply
    <3> QED
      BY <2>1, <3>1, OrdersHandled
  <2> HIDE DEF codes
  <2> QED
    BY <2>2 DEF Orders!HandleGetShipment
<1>8. Readable(codes, Orders!HandleMarkShipped(r, out))
  <2> DEFINE reply == Orders!EncodeMarkShippedResponse(out.val)
  <2>1. ASSUME ~ Is("err", out)
        PROVE  ReadableAnswer(codes, "markShipped", reply)
    <3>1. Is("val", Decode(Orders!ShipmentView,
            Orders!Encode(Orders!ShipmentView, Orders!ToShipmentView(out.val))))
      BY ShipmentViewReads, OrdersEncodes, ValueIs
    <3>2. ResultSchema("markShipped") = Orders!ShipmentView
      BY DEF ResultSchema
    <3> QED
      BY <3>1, <3>2, ResultIsReadable
         DEF Orders!EncodeMarkShippedResponse, Orders!Response, Response
  <2>2. ASSUME NEW decoded, NEW arg
        PROVE  Readable(codes,
                 Orders!Handled(decoded, Orders!Called("markShipped", arg), out, reply))
    <3>1. Orders!Called("markShipped", arg).op = "markShipped"
      BY DEF Orders!Called
    <3> HIDE DEF reply
    <3> QED
      BY <2>1, <3>1, OrdersHandled
  <2>3. ASSUME NEW err
        PROVE  Readable(codes, Orders!Exchange(Orders!NoCall, Orders!ErrorHandler(err)))
    BY OrdersRefuses, ProblemIsReadable DEF Readable, Orders!Exchange
  <2> HIDE DEF codes
  <2> QED
    BY <2>2, <2>3 DEF Orders!HandleMarkShipped
<1> HIDE DEF codes
<1>9. Readable(codes, Orders!ServeHTTP(r, out))
  BY <1>1, <1>2, <1>3, <1>4, <1>5, <1>6, <1>7, <1>8, OrdersRoutes
<1> QED
  BY <1>9 DEF codes

(* A handler of the stock answers readably if its application does.        *)
LEMMA StockHandled ==
  ASSUME NEW decoded, NEW called, NEW out, NEW reply,
         Tellable(Stock!InvalidParamCodes, out),
         ~ Is("err", out) =>
           ReadableAnswer(Stock!InvalidParamCodes, called.op, reply)
  PROVE  Readable(Stock!InvalidParamCodes, Stock!Handled(decoded, called, out, reply))
<1> DEFINE codes == Stock!InvalidParamCodes
           answer == Stock!EncodeErrorResponse(Stock!NewError(out.err))
<1>1. ReadableProblem(codes, Stock!ErrorHandler(decoded.err))
  BY StockRefuses
<1>2. Is("err", out) => ReadableProblem(codes, answer)
  BY StockFails DEF Tellable
<1>3. CASE Is("err", decoded)
  BY <1>1, <1>3, ProblemIsReadable DEF Readable, Stock!Handled, Stock!Exchange,
     Stock!Is, Is
<1>4. CASE ~ Is("err", decoded) /\ Is("err", out)
  BY <1>2, <1>4, ProblemIsReadable DEF Readable, Stock!Handled, Stock!Exchange,
     Stock!Is, Is
<1>5. CASE ~ Is("err", decoded) /\ ~ Is("err", out)
  BY <1>5 DEF Readable, Stock!Handled, Stock!Exchange, Stock!Is, Is
<1> QED
  BY <1>3, <1>4, <1>5

(* Every answer of the server of the stock can be read.                    *)
LEMMA StockReadable ==
  ASSUME NEW r, DOMAIN r.path = 1 .. Len(r.path), NEW out,
         Tellable(Stock!InvalidParamCodes, out)
  PROVE  Readable(Stock!InvalidParamCodes, Stock!ServeHTTP(r, out))
<1> DEFINE codes == Stock!InvalidParamCodes
<1>1. Readable(codes, Stock!Exchange(Stock!NoCall, Stock!NotFound))
  BY StockUnrouted, ProblemIsReadable DEF Readable, Stock!Exchange
<1>2. Readable(codes, Stock!Exchange(Stock!NoCall, Stock!MethodNotAllowed(r)))
  <2>1. CASE r.method = "OPTIONS"
    BY <2>1 DEF Stock!MethodNotAllowed, Stock!Response, Stock!Exchange, Readable,
       ReadableAnswer
  <2>2. CASE r.method # "OPTIONS"
    BY <2>2, StockUnrouted, ProblemIsReadable
       DEF Stock!MethodNotAllowed, Stock!Exchange, Readable
  <2> QED
    BY <2>1, <2>2
<1>3. Readable(codes, Stock!HandleGetStock(r, out))
  <2> DEFINE reply == Stock!EncodeGetStockResponse(out.val)
  <2>1. ASSUME ~ Is("err", out)
        PROVE  ReadableAnswer(codes, "getStock", reply)
    <3>1. Is("val", Decode(Stock!StockView,
            Stock!Encode(Stock!StockView, Stock!ToStockView(out.val))))
      BY StockViewReads, StockEncodes, ValueIs
    <3>2. ResultSchema("getStock") = Stock!StockView
      BY DEF ResultSchema
    <3> QED
      BY <3>1, <3>2, ResultIsReadable
         DEF Stock!EncodeGetStockResponse, Stock!Response, Response
  <2>2. ASSUME NEW decoded, NEW arg
        PROVE  Readable(codes,
                 Stock!Handled(decoded, Stock!Called("getStock", arg), out, reply))
    <3>1. Stock!Called("getStock", arg).op = "getStock"
      BY DEF Stock!Called
    <3> HIDE DEF reply
    <3> QED
      BY <2>1, <3>1, StockHandled
  <2> HIDE DEF codes
  <2> QED
    BY <2>2 DEF Stock!HandleGetStock
<1>4. Readable(codes, Stock!HandleReplenishStock(r, out))
  <2> DEFINE reply == Stock!EncodeReplenishStockResponse(out.val)
  <2>1. ASSUME ~ Is("err", out)
        PROVE  ReadableAnswer(codes, "replenish", reply)
    <3>1. Is("val", Decode(Stock!StockView,
            Stock!Encode(Stock!StockView, Stock!ToStockView(out.val))))
      BY StockViewReads, StockEncodes, ValueIs
    <3>2. ResultSchema("replenish") = Stock!StockView
      BY DEF ResultSchema
    <3> QED
      BY <3>1, <3>2, ResultIsReadable
         DEF Stock!EncodeReplenishStockResponse, Stock!Response, Response
  <2>2. ASSUME NEW decoded, NEW arg
        PROVE  Readable(codes,
                 Stock!Handled(decoded, Stock!Called("replenish", arg), out, reply))
    <3>1. Stock!Called("replenish", arg).op = "replenish"
      BY DEF Stock!Called
    <3> HIDE DEF reply
    <3> QED
      BY <2>1, <3>1, StockHandled
  <2>3. ASSUME NEW err
        PROVE  Readable(codes, Stock!Exchange(Stock!NoCall, Stock!ErrorHandler(err)))
    BY StockRefuses, ProblemIsReadable DEF Readable, Stock!Exchange
  <2> HIDE DEF codes
  <2> QED
    BY <2>2, <2>3 DEF Stock!HandleReplenishStock
<1> HIDE DEF codes
<1>5. Readable(codes, Stock!ServeHTTP(r, out))
  BY <1>1, <1>2, <1>3, <1>4, StockRoutes
<1> QED
  BY <1>5 DEF codes

(* A handler of the internal API answers readably if its application does. *)
LEMMA InternalHandled ==
  ASSUME NEW decoded, NEW called, NEW out, NEW reply,
         Tellable(Internal!InvalidParamCodes, out),
         ~ Is("err", out) =>
           ReadableAnswer(Internal!InvalidParamCodes, called.op, reply)
  PROVE  Readable(Internal!InvalidParamCodes,
           Internal!Handled(decoded, called, out, reply))
<1> DEFINE codes == Internal!InvalidParamCodes
           answer == Internal!EncodeErrorResponse(Internal!NewError(out.err))
<1>1. ReadableProblem(codes, Internal!ErrorHandler(decoded.err))
  BY InternalRefuses
<1>2. Is("err", out) => ReadableProblem(codes, answer)
  BY InternalFails DEF Tellable
<1>3. CASE Is("err", decoded)
  BY <1>1, <1>3, ProblemIsReadable DEF Readable, Internal!Handled, Internal!Exchange,
     Internal!Is, Is
<1>4. CASE ~ Is("err", decoded) /\ Is("err", out)
  BY <1>2, <1>4, ProblemIsReadable DEF Readable, Internal!Handled, Internal!Exchange,
     Internal!Is, Is
<1>5. CASE ~ Is("err", decoded) /\ ~ Is("err", out)
  BY <1>5 DEF Readable, Internal!Handled, Internal!Exchange, Internal!Is, Is
<1> QED
  BY <1>3, <1>4, <1>5

(* Every answer of the server of the internal API can be read.             *)
LEMMA InternalReadable ==
  ASSUME NEW r, DOMAIN r.path = 1 .. Len(r.path), NEW out,
         Tellable(Internal!InvalidParamCodes, out),
         ~ Is("err", out) => \E t : out.val = Internal!Acknowledge(t)
  PROVE  Readable(Internal!InvalidParamCodes, Internal!ServeHTTP(r, out))
<1> DEFINE codes == Internal!InvalidParamCodes
<1>1. Readable(codes, Internal!Exchange(Internal!NoCall, Internal!NotFound))
  BY InternalUnrouted, ProblemIsReadable DEF Readable, Internal!Exchange
<1>2. Readable(codes, Internal!Exchange(Internal!NoCall, Internal!MethodNotAllowed(r)))
  <2>1. CASE r.method = "OPTIONS"
    BY <2>1 DEF Internal!MethodNotAllowed, Internal!Response, Internal!Exchange,
       Readable, ReadableAnswer
  <2>2. CASE r.method # "OPTIONS"
    BY <2>2, InternalUnrouted, ProblemIsReadable
       DEF Internal!MethodNotAllowed, Internal!Exchange, Readable
  <2> QED
    BY <2>1, <2>2
<1>3. Readable(codes, Internal!HandleConfirmReservation(r, out))
  <2> DEFINE reply == Internal!EncodeConfirmReservationResponse(out.val)
  <2>1. ASSUME ~ Is("err", out)
        PROVE  ReadableAnswer(codes, "confirm", reply)
    <3>1. Is("val", Decode(Client!Ack, Internal!Encode(Internal!Ack, out.val)))
      <4>1. PICK t : out.val = Struct([status |-> Str(t)])
        BY <2>1 DEF Internal!Acknowledge, Internal!Struct, Struct, Internal!Str, Str
      <4>2. Internal!Ack = Client!Ack
        BY DEF Internal!Ack, Client!Ack, Internal!Object, Client!Object,
               Internal!Required, Client!Required, Internal!String, Client!String
      <4> QED
        BY <4>1, <4>2, AckReads, InternalEncodes, ValueIs
    <3>2. ResultSchema("confirm") = Client!Ack
      BY DEF ResultSchema
    <3> QED
      BY <3>1, <3>2, ResultIsReadable
         DEF Internal!EncodeConfirmReservationResponse, Internal!Response, Response
  <2>2. ASSUME NEW decoded, NEW arg
        PROVE  Readable(codes,
                 Internal!Handled(decoded, Internal!Called("confirm", arg), out, reply))
    <3>1. Internal!Called("confirm", arg).op = "confirm"
      BY DEF Internal!Called
    <3> HIDE DEF reply
    <3> QED
      BY <2>1, <3>1, InternalHandled
  <2> HIDE DEF codes
  <2> QED
    BY <2>2 DEF Internal!HandleConfirmReservation
<1>4. Readable(codes, Internal!HandleIngestEvent(r, out))
  <2> DEFINE reply == Internal!EncodeIngestEventResponse(out.val)
  <2>1. ASSUME ~ Is("err", out)
        PROVE  ReadableAnswer(codes, "ingest", reply)
    <3>1. Is("val", Decode(Client!Ack, Internal!Encode(Internal!Ack, out.val)))
      <4>1. PICK t : out.val = Struct([status |-> Str(t)])
        BY <2>1 DEF Internal!Acknowledge, Internal!Struct, Struct, Internal!Str, Str
      <4>2. Internal!Ack = Client!Ack
        BY DEF Internal!Ack, Client!Ack, Internal!Object, Client!Object,
               Internal!Required, Client!Required, Internal!String, Client!String
      <4> QED
        BY <4>1, <4>2, AckReads, InternalEncodes, ValueIs
    <3>2. ResultSchema("ingest") = Client!Ack
      BY DEF ResultSchema
    <3> QED
      BY <3>1, <3>2, ResultIsReadable
         DEF Internal!EncodeIngestEventResponse, Internal!Response, Response
  <2>2. ASSUME NEW decoded, NEW arg
        PROVE  Readable(codes,
                 Internal!Handled(decoded, Internal!Called("ingest", arg), out, reply))
    <3>1. Internal!Called("ingest", arg).op = "ingest"
      BY DEF Internal!Called
    <3> HIDE DEF reply
    <3> QED
      BY <2>1, <3>1, InternalHandled
  <2> HIDE DEF codes
  <2> QED
    BY <2>2 DEF Internal!HandleIngestEvent
<1>5. Readable(codes, Internal!HandleReleaseReservation(r, out))
  <2> DEFINE reply == Internal!EncodeReleaseReservationResponse(out.val)
  <2>1. ASSUME ~ Is("err", out)
        PROVE  ReadableAnswer(codes, "release", reply)
    <3>1. Is("val", Decode(Client!Ack, Internal!Encode(Internal!Ack, out.val)))
      <4>1. PICK t : out.val = Struct([status |-> Str(t)])
        BY <2>1 DEF Internal!Acknowledge, Internal!Struct, Struct, Internal!Str, Str
      <4>2. Internal!Ack = Client!Ack
        BY DEF Internal!Ack, Client!Ack, Internal!Object, Client!Object,
               Internal!Required, Client!Required, Internal!String, Client!String
      <4> QED
        BY <4>1, <4>2, AckReads, InternalEncodes, ValueIs
    <3>2. ResultSchema("release") = Client!Ack
      BY DEF ResultSchema
    <3> QED
      BY <3>1, <3>2, ResultIsReadable
         DEF Internal!EncodeReleaseReservationResponse, Internal!Response, Response
  <2>2. ASSUME NEW decoded, NEW arg
        PROVE  Readable(codes,
                 Internal!Handled(decoded, Internal!Called("release", arg), out, reply))
    <3>1. Internal!Called("release", arg).op = "release"
      BY DEF Internal!Called
    <3> HIDE DEF reply
    <3> QED
      BY <2>1, <3>1, InternalHandled
  <2> HIDE DEF codes
  <2> QED
    BY <2>2 DEF Internal!HandleReleaseReservation
<1>6. Readable(codes, Internal!HandleReserveStock(r, out))
  <2> DEFINE reply == Internal!EncodeReserveStockResponse(out.val)
  <2>1. ASSUME ~ Is("err", out)
        PROVE  ReadableAnswer(codes, "reserve", reply)
    <3>1. Is("val", Decode(Client!Ack, Internal!Encode(Internal!Ack, out.val)))
      <4>1. PICK t : out.val = Struct([status |-> Str(t)])
        BY <2>1 DEF Internal!Acknowledge, Internal!Struct, Struct, Internal!Str, Str
      <4>2. Internal!Ack = Client!Ack
        BY DEF Internal!Ack, Client!Ack, Internal!Object, Client!Object,
               Internal!Required, Client!Required, Internal!String, Client!String
      <4> QED
        BY <4>1, <4>2, AckReads, InternalEncodes, ValueIs
    <3>2. ResultSchema("reserve") = Client!Ack
      BY DEF ResultSchema
    <3> QED
      BY <3>1, <3>2, ResultIsReadable
         DEF Internal!EncodeReserveStockResponse, Internal!Response, Response
  <2>2. ASSUME NEW decoded, NEW arg
        PROVE  Readable(codes,
                 Internal!Handled(decoded, Internal!Called("reserve", arg), out, reply))
    <3>1. Internal!Called("reserve", arg).op = "reserve"
      BY DEF Internal!Called
    <3> HIDE DEF reply
    <3> QED
      BY <2>1, <3>1, InternalHandled
  <2> HIDE DEF codes
  <2> QED
    BY <2>2 DEF Internal!HandleReserveStock
<1> HIDE DEF codes
<1>7. Readable(codes, Internal!ServeHTTP(r, out))
  BY <1>1, <1>2, <1>3, <1>4, <1>5, <1>6, InternalRoutes
<1> QED
  BY <1>7 DEF codes

(* What a use case may return: a value, or an error that can be told.      *)
Outcome(codes, out) == Tellable(codes, out) /\ (Is("err", out) \/ Is("val", out))

(* What an operation asks of the application does not depend on what the   *)
(* application returns.                                                    *)
LEMMA OrdersCalls ==
  ASSUME NEW r, DOMAIN r.path = 1 .. Len(r.path), NEW out, NEW other
  PROVE  /\ Orders!ServeHTTP(r, out).call = Orders!ServeHTTP(r, other).call
         /\ Orders!ServeHTTP(r, out).call = NoCall
            \/ Orders!ServeHTTP(r, out).call.op \in
                 {"placeOrder", "getOrder", "cancelOrder", "prepareShipment",
                   "getShipment", "markShipped"}
<1>1. /\ Orders!HandlePlaceOrder(r, out).call = Orders!HandlePlaceOrder(r, other).call
      /\ Orders!HandlePlaceOrder(r, out).call = NoCall
         \/ Orders!HandlePlaceOrder(r, out).call.op = "placeOrder"
  BY DEF Orders!HandlePlaceOrder, Orders!Handled, Orders!Exchange, Orders!Called,
     Orders!NoCall, NoCall
<1>2. /\ Orders!HandleGetOrder(r, out).call = Orders!HandleGetOrder(r, other).call
      /\ Orders!HandleGetOrder(r, out).call = NoCall
         \/ Orders!HandleGetOrder(r, out).call.op = "getOrder"
  BY DEF Orders!HandleGetOrder, Orders!Handled, Orders!Exchange, Orders!Called,
     Orders!NoCall, NoCall
<1>3. /\ Orders!HandleCancelOrder(r, out).call = Orders!HandleCancelOrder(r, other).call
      /\ Orders!HandleCancelOrder(r, out).call = NoCall
         \/ Orders!HandleCancelOrder(r, out).call.op = "cancelOrder"
  BY DEF Orders!HandleCancelOrder, Orders!Handled, Orders!Exchange, Orders!Called,
     Orders!NoCall, NoCall
<1>4. /\ Orders!HandlePrepareShipment(r, out).call
         = Orders!HandlePrepareShipment(r, other).call
      /\ Orders!HandlePrepareShipment(r, out).call = NoCall
         \/ Orders!HandlePrepareShipment(r, out).call.op = "prepareShipment"
  BY DEF Orders!HandlePrepareShipment, Orders!Handled, Orders!Exchange, Orders!Called,
     Orders!NoCall, NoCall
<1>5. /\ Orders!HandleGetShipment(r, out).call = Orders!HandleGetShipment(r, other).call
      /\ Orders!HandleGetShipment(r, out).call = NoCall
         \/ Orders!HandleGetShipment(r, out).call.op = "getShipment"
  BY DEF Orders!HandleGetShipment, Orders!Handled, Orders!Exchange, Orders!Called,
     Orders!NoCall, NoCall
<1>6. /\ Orders!HandleMarkShipped(r, out).call = Orders!HandleMarkShipped(r, other).call
      /\ Orders!HandleMarkShipped(r, out).call = NoCall
         \/ Orders!HandleMarkShipped(r, out).call.op = "markShipped"
  BY DEF Orders!HandleMarkShipped, Orders!Handled, Orders!Exchange, Orders!Called,
     Orders!NoCall, NoCall
<1>7. ASSUME NEW answer, NEW another
      PROVE  /\ Orders!Exchange(Orders!NoCall, answer).call
                = Orders!Exchange(Orders!NoCall, another).call
             /\ Orders!Exchange(Orders!NoCall, answer).call = NoCall
  BY DEF Orders!Exchange, Orders!NoCall, NoCall
<1> QED
  BY <1>1, <1>2, <1>3, <1>4, <1>5, <1>6, <1>7, OrdersRoutes

(* The same for the stock,                                                 *)
LEMMA StockCalls ==
  ASSUME NEW r, DOMAIN r.path = 1 .. Len(r.path), NEW out, NEW other
  PROVE  /\ Stock!ServeHTTP(r, out).call = Stock!ServeHTTP(r, other).call
         /\ Stock!ServeHTTP(r, out).call = NoCall
            \/ Stock!ServeHTTP(r, out).call.op \in
                 {"getStock", "replenish"}
<1>1. /\ Stock!HandleGetStock(r, out).call = Stock!HandleGetStock(r, other).call
      /\ Stock!HandleGetStock(r, out).call = NoCall
         \/ Stock!HandleGetStock(r, out).call.op = "getStock"
  BY DEF Stock!HandleGetStock, Stock!Handled, Stock!Exchange, Stock!Called,
     Stock!NoCall, NoCall
<1>2. /\ Stock!HandleReplenishStock(r, out).call
         = Stock!HandleReplenishStock(r, other).call
      /\ Stock!HandleReplenishStock(r, out).call = NoCall
         \/ Stock!HandleReplenishStock(r, out).call.op = "replenish"
  BY DEF Stock!HandleReplenishStock, Stock!Handled, Stock!Exchange, Stock!Called,
     Stock!NoCall, NoCall
<1>3. ASSUME NEW answer, NEW another
      PROVE  /\ Stock!Exchange(Stock!NoCall, answer).call
                = Stock!Exchange(Stock!NoCall, another).call
             /\ Stock!Exchange(Stock!NoCall, answer).call = NoCall
  BY DEF Stock!Exchange, Stock!NoCall, NoCall
<1> QED
  BY <1>1, <1>2, <1>3, StockRoutes

(* and for the internal API.                                               *)
LEMMA InternalCalls ==
  ASSUME NEW r, DOMAIN r.path = 1 .. Len(r.path), NEW out, NEW other
  PROVE  /\ Internal!ServeHTTP(r, out).call = Internal!ServeHTTP(r, other).call
         /\ Internal!ServeHTTP(r, out).call = NoCall
            \/ Internal!ServeHTTP(r, out).call.op \in
                 {"confirm", "ingest", "release", "reserve"}
<1>1. /\ Internal!HandleConfirmReservation(r, out).call
         = Internal!HandleConfirmReservation(r, other).call
      /\ Internal!HandleConfirmReservation(r, out).call = NoCall
         \/ Internal!HandleConfirmReservation(r, out).call.op = "confirm"
  BY DEF Internal!HandleConfirmReservation, Internal!Handled, Internal!Exchange,
     Internal!Called, Internal!NoCall, NoCall
<1>2. /\ Internal!HandleIngestEvent(r, out).call
         = Internal!HandleIngestEvent(r, other).call
      /\ Internal!HandleIngestEvent(r, out).call = NoCall
         \/ Internal!HandleIngestEvent(r, out).call.op = "ingest"
  BY DEF Internal!HandleIngestEvent, Internal!Handled, Internal!Exchange,
     Internal!Called, Internal!NoCall, NoCall
<1>3. /\ Internal!HandleReleaseReservation(r, out).call
         = Internal!HandleReleaseReservation(r, other).call
      /\ Internal!HandleReleaseReservation(r, out).call = NoCall
         \/ Internal!HandleReleaseReservation(r, out).call.op = "release"
  BY DEF Internal!HandleReleaseReservation, Internal!Handled, Internal!Exchange,
     Internal!Called, Internal!NoCall, NoCall
<1>4. /\ Internal!HandleReserveStock(r, out).call
         = Internal!HandleReserveStock(r, other).call
      /\ Internal!HandleReserveStock(r, out).call = NoCall
         \/ Internal!HandleReserveStock(r, out).call.op = "reserve"
  BY DEF Internal!HandleReserveStock, Internal!Handled, Internal!Exchange,
     Internal!Called, Internal!NoCall, NoCall
<1>5. ASSUME NEW answer, NEW another
      PROVE  /\ Internal!Exchange(Internal!NoCall, answer).call
                = Internal!Exchange(Internal!NoCall, another).call
             /\ Internal!Exchange(Internal!NoCall, answer).call = NoCall
  BY DEF Internal!Exchange, Internal!NoCall, NoCall
<1> QED
  BY <1>1, <1>2, <1>3, <1>4, <1>5, InternalRoutes

(* A check that fails gives its error.                                     *)
LEMMA RefusalIs ==
  ASSUME NEW checks, DOMAIN checks \subseteq Nat, Failed(checks) # {}
  PROVE  \E i \in DOMAIN checks : Refusal(checks) = checks[i][2]
<1>1. Failed(checks) \in SUBSET Nat /\ Failed(checks) \subseteq DOMAIN checks
  BY DEF Failed
<1>2. First(Failed(checks)) \in DOMAIN checks
  BY <1>1, FirstIn
<1> QED
  BY <1>2 DEF Refusal

(* The errors of the checks come first.                                    *)
LEMMA FirstOfTells ==
  ASSUME NEW codes, NEW checks, DOMAIN checks \subseteq Nat,
         \A i \in DOMAIN checks : Outcome(codes, checks[i][2]),
         NEW rest, \A out \in rest : Outcome(codes, out)
  PROVE  \A out \in FirstOf(checks, rest) : Outcome(codes, out)
BY RefusalIs DEF FirstOf

(* The error that a violation of the domain is told by.                    *)
LEMMA ErrorTells ==
  ASSUME NEW codes, NEW sentinel, NEW path, NEW code, code \in codes
  PROVE  Outcome(codes, Violation(sentinel, path, code))
BY DEF Outcome, Tellable, Violation, AppError, Is

(* A result, and an error that names no input.                             *)
LEMMA OtherTells ==
  ASSUME NEW codes, NEW x
  PROVE  Outcome(codes, Fails(x)) /\ Outcome(codes, Val(x))
BY DEF Outcome, Tellable, Fails, AppError, Val, Is

-----------------------------------------------------------------------------
(* What the use cases may return.                                          *)

(* The checks of an input are numbered.                                    *)
LEMMA ChecksNumbered ==
  /\ \A a : DOMAIN <<a>> = 1 .. 1
  /\ \A a, b : DOMAIN <<a, b>> = 1 .. 2
  /\ \A a, b, c, d : DOMAIN <<a, b, c, d>> = 1 .. 4
OBVIOUS

(* The error of the first line that fails is one of the errors of its      *)
(* checks.                                                                 *)
LEMMA LinesRefuse ==
  ASSUME NEW each, DOMAIN each \subseteq Nat,
         \A i \in DOMAIN each : DOMAIN each[i] \subseteq Nat,
         NEW wrong, wrong = {i \in DOMAIN each : Failed(each[i]) # {}}, wrong # {}
  PROVE  /\ First(wrong) \in DOMAIN each
         /\ \E j \in DOMAIN each[First(wrong)] :
              Refusal(each[First(wrong)]) = each[First(wrong)][j][2]
<1>1. First(wrong) \in wrong
  <2>1. wrong \in SUBSET Nat
    OBVIOUS
  <2> QED
    BY <2>1, FirstIn
<1> QED
  BY <1>1, RefusalIs

(* How the inventory refuses a line.                                       *)
LEMMA StockLineRefuses ==
  ASSUME NEW lines, DOMAIN lines \subseteq Nat, WrongLines(StockLine, lines) # {}
  PROVE  \E path : LineRefusal(StockLine, lines) \in
           {Violation("InvalidSKU", path, "invalid_sku"),
            Violation("InvalidQuantity", path, "invalid_quantity")}
<1> DEFINE each == [i \in DOMAIN lines |-> StockLine(i, lines[i])]
           wrong == WrongLines(StockLine, lines)
           Told(out) == \E path : out \in {Violation("InvalidSKU", path, "invalid_sku"),
                          Violation("InvalidQuantity", path, "invalid_quantity")}
<1>1. ASSUME NEW i \in DOMAIN lines
      PROVE  /\ DOMAIN StockLine(i, lines[i]) \subseteq Nat
             /\ \A j \in DOMAIN StockLine(i, lines[i]) :
                  Told(StockLine(i, lines[i])[j][2])
  <2> DEFINE at(j) == Told(StockLine(i, lines[i])[j][2])
  <2>1. DOMAIN StockLine(i, lines[i]) = 1 .. 2
    BY ChecksNumbered, Zenon DEF StockLine
  <2>2. StockLine(i, lines[i])[1][2]
          = Violation("InvalidSKU", LinePath(i, <<"Sku">>), "invalid_sku")
    BY DEF StockLine
  <2>3. StockLine(i, lines[i])[2][2]
          = Violation("InvalidQuantity", LinePath(i, <<"Quantity">>),
          "invalid_quantity")
    BY DEF StockLine
  <2>4. at(1) /\ at(2)
    BY <2>2, <2>3, Zenon
  <2> HIDE DEF at
  <2>5. \A j \in 1 .. 2 : at(j)
    BY <2>4
  <2> QED
    BY <2>1, <2>5 DEF at
<1>2. wrong = {i \in DOMAIN each : Failed(each[i]) # {}}
  BY DEF WrongLines
<1> HIDE DEF Told
<1>3. \A i \in DOMAIN each :
        /\ DOMAIN each[i] \subseteq Nat
        /\ \A j \in DOMAIN each[i] : Told(each[i][j][2])
  BY <1>1
<1>4. DOMAIN each \subseteq Nat
  OBVIOUS
<1> DEFINE first == First(wrong)
<1>5. first \in DOMAIN each /\ Told(Refusal(each[first]))
  <2>1. wrong # {}
    OBVIOUS
  <2> HIDE DEF each, wrong
  <2>2. first \in DOMAIN each /\ \E j \in DOMAIN each[first] :
          Refusal(each[first]) = each[first][j][2]
    BY <1>2, <1>3, <1>4, <2>1, LinesRefuse
  <2> HIDE DEF first
  <2> QED
    BY <1>3, <2>2
<1>6. LineRefusal(StockLine, lines) = Refusal(StockLine(first, lines[first]))
  BY DEF LineRefusal
<1>7. each[first] = StockLine(first, lines[first])
  <2>1. first \in DOMAIN lines
    BY <1>5
  <2> HIDE DEF first
  <2> QED
    BY <2>1
<1> QED
  BY <1>5, <1>6, <1>7 DEF Told

(* The contracts have the codes of that refusal.                           *)
LEMMA StockLineTells ==
  ASSUME NEW codes, NEW lines, DOMAIN lines \subseteq Nat,
         {"invalid_sku", "invalid_quantity"} \subseteq codes,
         WrongLines(StockLine, lines) # {}
  PROVE  Outcome(codes, LineRefusal(StockLine, lines))
BY StockLineRefuses, ErrorTells

(* How a stock item refuses a line.                                        *)
LEMMA EmptyLineRefuses ==
  ASSUME NEW lines, DOMAIN lines \subseteq Nat, WrongLines(EmptyLine, lines) # {}
  PROVE  \E path : LineRefusal(EmptyLine, lines) \in
           {Violation("InvalidQuantity", path, "invalid_quantity")}
<1> DEFINE each == [i \in DOMAIN lines |-> EmptyLine(i, lines[i])]
           wrong == WrongLines(EmptyLine, lines)
           Told(out) == \E path : out \in {Violation("InvalidQuantity", path,
             "invalid_quantity")}
<1>1. ASSUME NEW i \in DOMAIN lines
      PROVE  /\ DOMAIN EmptyLine(i, lines[i]) \subseteq Nat
             /\ \A j \in DOMAIN EmptyLine(i, lines[i]) :
                  Told(EmptyLine(i, lines[i])[j][2])
  <2> DEFINE at(j) == Told(EmptyLine(i, lines[i])[j][2])
  <2>1. DOMAIN EmptyLine(i, lines[i]) = 1 .. 1
    BY ChecksNumbered, Zenon DEF EmptyLine
  <2>2. EmptyLine(i, lines[i])[1][2]
          = Violation("InvalidQuantity", LinePath(i, <<"Quantity">>),
          "invalid_quantity")
    BY DEF EmptyLine
  <2>3. at(1)
    BY <2>2, Zenon
  <2> HIDE DEF at
  <2>4. \A j \in 1 .. 1 : at(j)
    BY <2>3
  <2> QED
    BY <2>1, <2>4 DEF at
<1>2. wrong = {i \in DOMAIN each : Failed(each[i]) # {}}
  BY DEF WrongLines
<1> HIDE DEF Told
<1>3. \A i \in DOMAIN each :
        /\ DOMAIN each[i] \subseteq Nat
        /\ \A j \in DOMAIN each[i] : Told(each[i][j][2])
  BY <1>1
<1>4. DOMAIN each \subseteq Nat
  OBVIOUS
<1> DEFINE first == First(wrong)
<1>5. first \in DOMAIN each /\ Told(Refusal(each[first]))
  <2>1. wrong # {}
    OBVIOUS
  <2> HIDE DEF each, wrong
  <2>2. first \in DOMAIN each /\ \E j \in DOMAIN each[first] :
          Refusal(each[first]) = each[first][j][2]
    BY <1>2, <1>3, <1>4, <2>1, LinesRefuse
  <2> HIDE DEF first
  <2> QED
    BY <1>3, <2>2
<1>6. LineRefusal(EmptyLine, lines) = Refusal(EmptyLine(first, lines[first]))
  BY DEF LineRefusal
<1>7. each[first] = EmptyLine(first, lines[first])
  <2>1. first \in DOMAIN lines
    BY <1>5
  <2> HIDE DEF first
  <2> QED
    BY <2>1
<1> QED
  BY <1>5, <1>6, <1>7 DEF Told

(* The contracts have the code of that refusal.                            *)
LEMMA EmptyLineTells ==
  ASSUME NEW codes, NEW lines, DOMAIN lines \subseteq Nat,
         {"invalid_quantity"} \subseteq codes,
         WrongLines(EmptyLine, lines) # {}
  PROVE  Outcome(codes, LineRefusal(EmptyLine, lines))
BY EmptyLineRefuses, ErrorTells

(* How the ordering context refuses a line.                                *)
LEMMA ToOrderLineRefuses ==
  ASSUME NEW lines, DOMAIN lines \subseteq Nat, WrongLines(ToOrderLine, lines) # {}
  PROVE  \E path : LineRefusal(ToOrderLine, lines) \in
           {Violation("InvalidSKU", path, "invalid_sku"),
            Violation("InvalidQuantity", path, "invalid_quantity"),
            Violation("InvalidMoney", path, "invalid_money_amount"),
            Violation("InvalidMoney", path, "invalid_money_currency")}
<1> DEFINE each == [i \in DOMAIN lines |-> ToOrderLine(i, lines[i])]
           wrong == WrongLines(ToOrderLine, lines)
           Told(out) == \E path : out \in {Violation("InvalidSKU", path, "invalid_sku"),
                          Violation("InvalidQuantity", path, "invalid_quantity"),
                          Violation("InvalidMoney", path, "invalid_money_amount"),
                          Violation("InvalidMoney", path, "invalid_money_currency")}
<1>1. ASSUME NEW i \in DOMAIN lines
      PROVE  /\ DOMAIN ToOrderLine(i, lines[i]) \subseteq Nat
             /\ \A j \in DOMAIN ToOrderLine(i, lines[i]) :
                  Told(ToOrderLine(i, lines[i])[j][2])
  <2> DEFINE at(j) == Told(ToOrderLine(i, lines[i])[j][2])
  <2>1. DOMAIN ToOrderLine(i, lines[i]) = 1 .. 4
    BY ChecksNumbered, Zenon DEF ToOrderLine
  <2>2. ToOrderLine(i, lines[i])[1][2]
          = Violation("InvalidSKU", LinePath(i, <<"Sku">>), "invalid_sku")
    BY DEF ToOrderLine
  <2>3. ToOrderLine(i, lines[i])[2][2]
          = Violation("InvalidQuantity", LinePath(i, <<"Quantity">>),
          "invalid_quantity")
    BY DEF ToOrderLine
  <2>4. ToOrderLine(i, lines[i])[3][2]
          = Violation("InvalidMoney", LinePath(i, <<"UnitPrice", "Amount">>),
          "invalid_money_amount")
    BY DEF ToOrderLine
  <2>5. ToOrderLine(i, lines[i])[4][2]
          = Violation("InvalidMoney", LinePath(i, <<"UnitPrice", "Currency">>),
          "invalid_money_currency")
    BY DEF ToOrderLine
  <2>6. at(1) /\ at(2) /\ at(3) /\ at(4)
    BY <2>2, <2>3, <2>4, <2>5, Zenon
  <2> HIDE DEF at
  <2>7. \A j \in 1 .. 4 : at(j)
    BY <2>6
  <2> QED
    BY <2>1, <2>7 DEF at
<1>2. wrong = {i \in DOMAIN each : Failed(each[i]) # {}}
  BY DEF WrongLines
<1> HIDE DEF Told
<1>3. \A i \in DOMAIN each :
        /\ DOMAIN each[i] \subseteq Nat
        /\ \A j \in DOMAIN each[i] : Told(each[i][j][2])
  BY <1>1
<1>4. DOMAIN each \subseteq Nat
  OBVIOUS
<1> DEFINE first == First(wrong)
<1>5. first \in DOMAIN each /\ Told(Refusal(each[first]))
  <2>1. wrong # {}
    OBVIOUS
  <2> HIDE DEF each, wrong
  <2>2. first \in DOMAIN each /\ \E j \in DOMAIN each[first] :
          Refusal(each[first]) = each[first][j][2]
    BY <1>2, <1>3, <1>4, <2>1, LinesRefuse
  <2> HIDE DEF first
  <2> QED
    BY <1>3, <2>2
<1>6. LineRefusal(ToOrderLine, lines) = Refusal(ToOrderLine(first, lines[first]))
  BY DEF LineRefusal
<1>7. each[first] = ToOrderLine(first, lines[first])
  <2>1. first \in DOMAIN lines
    BY <1>5
  <2> HIDE DEF first
  <2> QED
    BY <2>1
<1> QED
  BY <1>5, <1>6, <1>7 DEF Told

(* The contract has the codes of that refusal.                             *)
LEMMA ToOrderLineTells ==
  ASSUME NEW codes, NEW lines, DOMAIN lines \subseteq Nat,
         {"invalid_sku", "invalid_quantity", "invalid_money_amount",
           "invalid_money_currency"} \subseteq codes,
         WrongLines(ToOrderLine, lines) # {}
  PROVE  Outcome(codes, LineRefusal(ToOrderLine, lines))
BY ToOrderLineRefuses, ErrorTells

(* What the operations of the inventory may return.                        *)
StockCodes == {"invalid_sku", "invalid_quantity", "invalid_reservation_ref"}

(* A use case with one check, and one with two.                            *)
LEMMA OneTells ==
  ASSUME NEW codes, NEW check, Outcome(codes, check[2]),
         NEW rest, \A out \in rest : Outcome(codes, out)
  PROVE  \A out \in FirstOf(<<check>>, rest) : Outcome(codes, out)
<1> DEFINE checks == <<check>>
<1>1. DOMAIN checks = {1} /\ checks[1] = check
  OBVIOUS
<1>2. DOMAIN checks \subseteq Nat
        /\ \A i \in DOMAIN checks : Outcome(codes, checks[i][2])
  BY <1>1
<1> HIDE DEF checks
<1>3. \A out \in FirstOf(checks, rest) : Outcome(codes, out)
  BY <1>2, FirstOfTells
<1> QED
  BY <1>3 DEF checks

(* Two checks.                                                             *)
LEMMA TwoTell ==
  ASSUME NEW codes, NEW check, NEW other,
         Outcome(codes, check[2]), Outcome(codes, other[2]),
         NEW rest, \A out \in rest : Outcome(codes, out)
  PROVE  \A out \in FirstOf(<<check, other>>, rest) : Outcome(codes, out)
<1> DEFINE checks == <<check, other>>
<1>1. DOMAIN checks = {1, 2} /\ checks[1] = check /\ checks[2] = other
  OBVIOUS
<1>2. DOMAIN checks \subseteq Nat
        /\ \A i \in DOMAIN checks : Outcome(codes, checks[i][2])
  BY <1>1
<1> HIDE DEF checks
<1>3. \A out \in FirstOf(checks, rest) : Outcome(codes, out)
  BY <1>2, FirstOfTells
<1> QED
  BY <1>3 DEF checks

(* Confirming and releasing a reservation.                                 *)
LEMMA RefTells ==
  ASSUME NEW codes, StockCodes \subseteq codes, NEW ref
  PROVE  /\ Outcome(codes, StockRef(ref)[2])
         /\ \A out \in ConfirmCase(ref) \cup ReleaseCase(ref) : Outcome(codes, out)
<1>1. Outcome(codes, StockRef(ref)[2])
  BY ErrorTells DEF StockRef, StockCodes
<1>2. \A out \in {Val("confirmed"), Fails("ReservationNotFound"), Conflict, Unexpected,
                  Val("released")} : Outcome(codes, out)
  BY OtherTells DEF Conflict, Unexpected
<1>3. \A out \in ConfirmCase(ref) : Outcome(codes, out)
  BY <1>1, <1>2, OneTells DEF ConfirmCase
<1>4. \A out \in ReleaseCase(ref) : Outcome(codes, out)
  BY <1>1, <1>2, OneTells DEF ReleaseCase
<1> QED
  BY <1>1, <1>3, <1>4

(* Reserving.                                                              *)
LEMMA ReserveTells ==
  ASSUME NEW codes, StockCodes \subseteq codes, NEW in, DOMAIN in.lines \subseteq Nat
  PROVE  \A out \in ReserveCase(in) : Outcome(codes, out)
<1>1. Outcome(codes, Unexpected) /\ Outcome(codes, Conflict)
  BY OtherTells DEF Unexpected, Conflict
<1>2. Outcome(codes, Fails("InsufficientStock"))
      /\ Outcome(codes, Fails("StockItemNotFound")) /\ Outcome(codes, Val("reserved"))
  BY OtherTells
<1>3. WrongLines(EmptyLine, in.lines) # {}
        => Outcome(codes, LineRefusal(EmptyLine, in.lines))
  BY EmptyLineTells DEF StockCodes
<1>4. \A out \in Allocated(in.lines) : Outcome(codes, out)
  BY <1>1, <1>2, <1>3 DEF Allocated
<1>5. WrongLines(StockLine, in.lines) # {}
        => Outcome(codes, LineRefusal(StockLine, in.lines))
  BY StockLineTells DEF StockCodes
<1> DEFINE rest == IF WrongLines(StockLine, in.lines) = {}
                   THEN {Unexpected} \cup Allocated(in.lines)
                   ELSE {LineRefusal(StockLine, in.lines)}
<1>6. \A out \in rest : Outcome(codes, out)
  BY <1>1, <1>4, <1>5
<1> HIDE DEF rest
<1>7. \A out \in FirstOf(<<StockRef(in.ref)>>, rest) : Outcome(codes, out)
  BY <1>6, RefTells, OneTells
<1> QED
  BY <1>7 DEF ReserveCase, rest

(* Taking a message in.                                                    *)
LEMMA DeliverTells ==
  ASSUME NEW codes, StockCodes \subseteq codes, NEW m
  PROVE  \A out \in DeliverCase(m) : Outcome(codes, out)
<1>1. Outcome(codes, Fails("NoRoute")) /\ Outcome(codes, Unexpected)
      /\ Outcome(codes, Val("delivered"))
  BY OtherTells DEF Unexpected
<1>2. \A ref : \A out \in OnConfirmReservation(ref) : Outcome(codes, out)
  BY <1>1, RefTells DEF OnConfirmReservation
<1>3. \A ref : \A out \in OnOrderCancelled(ref) : Outcome(codes, out)
  BY <1>1, RefTells DEF OnOrderCancelled
<1> QED
  BY <1>1, <1>2, <1>3 DEF DeliverCase

(* The operations on a stock item.                                         *)
LEMMA StockOperationsTell ==
  ASSUME NEW codes, StockCodes \subseteq codes
  PROVE  /\ \A sku : \A out \in QueryStockCase(sku) : Outcome(codes, out)
         /\ \A in : \A out \in ReplenishCase(in) : Outcome(codes, out)
<1>1. \A sku : Outcome(codes, StockSku(sku)[2])
  BY ErrorTells DEF StockSku, StockCodes
<1>2. Outcome(codes, Conflict) /\ Outcome(codes, Unexpected)
      /\ Outcome(codes, Fails("StockItemNotFound"))
  BY OtherTells DEF Unexpected, Conflict
<1>3. \A sku : Outcome(codes, StockViewOf(sku))
  BY OtherTells DEF StockViewOf
<1>4. Outcome(codes, WrongQuantity)
  BY ErrorTells DEF StockCodes, WrongQuantity
<1>5. ASSUME NEW sku
      PROVE  \A out \in QueryStockCase(sku) : Outcome(codes, out)
  <2>1. \A out \in {StockViewOf(sku), Fails("StockItemNotFound"), Unexpected} :
          Outcome(codes, out)
    BY <1>2, <1>3
  <2> QED
    BY <1>1, <2>1, OneTells DEF QueryStockCase
<1>6. ASSUME NEW in
      PROVE  \A out \in ReplenishCase(in) : Outcome(codes, out)
  <2> DEFINE check == <<in.qty < 0, WrongQuantity>>
             rest == IF in.qty = 0 THEN {WrongQuantity, Unexpected}
                     ELSE {StockViewOf(in.sku), Conflict, Unexpected}
  <2>1. \A out \in rest : Outcome(codes, out)
    BY <1>2, <1>3, <1>4
  <2>2. Outcome(codes, check[2])
    BY <1>4
  <2> HIDE DEF check, rest
  <2>3. \A out \in FirstOf(<<StockSku(in.sku), check>>, rest) : Outcome(codes, out)
    BY <1>1, <2>1, <2>2, TwoTell
  <2> QED
    BY <2>3 DEF ReplenishCase, check, rest
<1> QED
  BY <1>5, <1>6

(* All operations of the inventory.                                        *)
LEMMA InventoryTells ==
  ASSUME NEW codes, StockCodes \subseteq codes, NEW c,
         c.op \in {"reserve", "confirm", "release", "ingest", "replenish", "getStock"},
         c.op = "reserve" => DOMAIN c.arg.lines \subseteq Nat
  PROVE  \A out \in Outcomes(c) : Outcome(codes, out)
<1>1. CASE c.op = "reserve"
  BY <1>1, ReserveTells DEF Outcomes
<1>2. CASE c.op = "confirm"
  BY <1>2, RefTells DEF Outcomes
<1>3. CASE c.op = "release"
  BY <1>3, RefTells DEF Outcomes
<1>4. CASE c.op = "ingest"
  BY <1>4, DeliverTells DEF Outcomes
<1>5. CASE c.op = "replenish"
  BY <1>5, StockOperationsTell DEF Outcomes
<1>6. CASE c.op = "getStock"
  BY <1>6, StockOperationsTell DEF Outcomes
<1> QED
  BY <1>1, <1>2, <1>3, <1>4, <1>5, <1>6

(* The operations of the ordering context.                                 *)
LEMMA OrderingTells ==
  ASSUME NEW codes, codes = Orders!InvalidParamCodes, NEW c,
         c.op \in {"getOrder", "cancelOrder", "prepareShipment", "getShipment",
                   "markShipped"}
  PROVE  \A out \in Outcomes(c) : Outcome(codes, out)
<1>1. \A id : Outcome(codes, OrderIdCheck(id)[2])
         /\ Outcome(codes, ShipmentIdCheck(id)[2])
  BY ErrorTells DEF OrderIdCheck, ShipmentIdCheck, Orders!InvalidParamCodes
<1>2. \A x : Outcome(codes, Fails(x)) /\ Outcome(codes, Val(x))
  BY OtherTells
<1>3. Outcome(codes, Conflict) /\ Outcome(codes, Unexpected)
  BY <1>2 DEF Unexpected, Conflict
<1>4. \A id, order, status, tracking, version :
        Outcome(codes, ShipmentOf(id, order, status, tracking, version))
  BY <1>2 DEF ShipmentOf
<1>5. CASE c.op = "getOrder"
  <2>1. \A out \in {Val(Known(c.arg, "confirmed", 1)), Fails("OrderNotFound"),
                    Fails("InvalidMoney"), Unexpected} : Outcome(codes, out)
    BY <1>2, <1>3
  <2> QED
    BY <1>1, <1>5, <2>1, OneTells DEF Outcomes, GetOrderCase
<1>6. CASE c.op = "cancelOrder"
  <2>1. \A out \in {Val(Known(c.arg, "cancelled", 2)), Fails("OrderNotFound"),
                    Fails("OrderNotConfirmed"), Fails("InvalidMoney"), Conflict,
                    Unexpected} : Outcome(codes, out)
    BY <1>2, <1>3
  <2> QED
    BY <1>1, <1>6, <2>1, OneTells DEF Outcomes, CancelOrderCase
<1>7. CASE c.op = "prepareShipment"
  <2>1. \A out \in {ShipmentOf("s", Trim(c.arg), "preparing", "", 1),
                    Fails("OrderNotFound"), Fails("OrderNotConfirmedForShipment"),
                    Fails("InvalidMoney"), Unexpected} : Outcome(codes, out)
    BY <1>2, <1>3, <1>4
  <2> QED
    BY <1>1, <1>7, <2>1, OneTells DEF Outcomes, PrepareShipmentCase
<1>8. CASE c.op = "getShipment"
  <2>1. \A out \in {ShipmentOf(Trim(c.arg), "o", "preparing", "", 1),
                    Fails("ShipmentNotFound"), Unexpected} : Outcome(codes, out)
    BY <1>2, <1>3, <1>4
  <2> QED
    BY <1>1, <1>8, <2>1, OneTells DEF Outcomes, GetShipmentCase
<1>9. CASE c.op = "markShipped"
  <2> DEFINE in == c.arg
             check == <<Blank(in.tracking),
                        Violation("InvalidTrackingNumber", <<"TrackingNumber">>,
                                  "invalid_tracking_number")>>
             rest == {ShipmentOf(Trim(in.id), "o", "shipped", Trim(in.tracking), 2),
                      Fails("ShipmentNotFound"), Fails("ShipmentNotPreparing"),
                      Conflict, Unexpected}
  <2>1. \A out \in rest : Outcome(codes, out)
    BY <1>2, <1>3, <1>4
  <2>2. Outcome(codes, check[2])
    BY ErrorTells DEF Orders!InvalidParamCodes
  <2> HIDE DEF check, rest
  <2>3. \A out \in FirstOf(<<ShipmentIdCheck(in.id), check>>, rest) : Outcome(codes,
           out)
    BY <1>1, <2>1, <2>2, TwoTell
  <2> QED
    BY <1>9, <2>3 DEF Outcomes, MarkShippedCase, check, rest
<1> QED
  BY <1>5, <1>6, <1>7, <1>8, <1>9

(* What the placing of an order checks first.                              *)
LEMMA PlacingTells ==
  ASSUME NEW codes, codes = Orders!InvalidParamCodes, NEW in,
         DOMAIN in.lines \subseteq Nat
  PROVE  Outcome(codes, PlaceOrderCase(in))
<1>1. {"invalid_sku", "invalid_quantity", "invalid_money_amount",
       "invalid_money_currency", "invalid_customer_id", "empty_order"} \subseteq codes
  BY DEF Orders!InvalidParamCodes
<1>2. Outcome(codes,
        Violation("InvalidCustomerID", <<"CustomerId">>, "invalid_customer_id"))
  BY <1>1, ErrorTells
<1>3. Outcome(codes, Violation("EmptyOrder", <<"Lines">>, "empty_order"))
  BY <1>1, ErrorTells
<1>4. WrongLines(ToOrderLine, in.lines) # {}
        => Outcome(codes, LineRefusal(ToOrderLine, in.lines))
  BY <1>1, ToOrderLineTells
<1>5. Outcome(codes, Fails("InvalidMoney"))
        /\ Outcome(codes, Val(ReserveLines(in.lines)))
  BY OtherTells
<1> QED
  BY <1>2, <1>3, <1>4, <1>5 DEF PlaceOrderCase

-----------------------------------------------------------------------------
(* The three servers together.                                             *)

(* The codes of the contract of a server, and its operations.              *)
Codes(s) ==
  CASE s = "orders" -> Orders!InvalidParamCodes
    [] s = "stock" -> Stock!InvalidParamCodes
    [] s = "internal" -> Internal!InvalidParamCodes

Operations(s) ==
  CASE s = "orders" -> {"placeOrder", "getOrder", "cancelOrder", "prepareShipment",
                        "getShipment", "markShipped"}
    [] s = "stock" -> {"getStock", "replenish"}
    [] s = "internal" -> {"confirm", "ingest", "release", "reserve"}

(* The servers of the three contracts.                                     *)
Contracts == {"stock", "internal", "orders"}

(* The mux answers a path that is not clean without asking anybody.        *)
LEMMA MuxRedirects ==
  ASSUME NEW s, NEW r, Redirects(s, r)
  PROVE  /\ \A out : Served(s, r, out) = Exchange(NoCall, Redirected)
         /\ Decoded(s, r) = NoCall
<1>1. \A out : Served(s, r, out) = Exchange(NoCall, Redirected)
  BY DEF Served, Redirects
<1> QED
  BY <1>1 DEF Decoded, Exchange

(* Otherwise the contract of the server answers.                           *)
LEMMA ContractServes ==
  ASSUME NEW s \in Contracts, NEW r, ~ Redirects(s, r), NEW out
  PROVE  Served(s, r, out) =
           IF s = "internal" THEN Internal!ServeHTTP(r, out)
           ELSE IF Health(r) THEN Exchange(NoCall, Response(200, "text", Str("ok")))
           ELSE IF s = "stock" THEN Stock!ServeHTTP(r, out)
           ELSE Orders!ServeHTTP(r, out)
<1>1. CASE s = "internal"
  BY <1>1 DEF Served
<1>2. CASE s \in {"stock", "orders"}
  BY <1>2 DEF Served, Muxed
<1> QED
  BY <1>1, <1>2 DEF Contracts

(* Nothing comes between the internal server and its contract.             *)
LEMMA InternalServes ==
  ASSUME NEW r, NEW out
  PROVE  /\ ~ Redirects("internal", r)
         /\ Served("internal", r, out) = Internal!ServeHTTP(r, out)
<1>1. ~ Redirects("internal", r)
  BY DEF Redirects
<1>2. "internal" \in Contracts
  BY DEF Contracts
<1> QED
  BY <1>1, <1>2, ContractServes

(* Whatever the application returns, the response can be read.             *)
LEMMA ServedReadable ==
  ASSUME NEW s \in Contracts, NEW r, DOMAIN r.path = 1 .. Len(r.path), NEW out,
         Outcome(Codes(s), out), ~ Redirects(s, r)
  PROVE  Readable(Codes(s), Served(s, r, Acked(s, out)))
<1>1. CASE s \in {"stock", "orders"} /\ Health(r)
  <2>1. Served(s, r, Acked(s, out)) = Exchange(NoCall, Response(200, "text", Str("ok")))
    BY <1>1, ContractServes
  <2> QED
    BY <2>1 DEF Readable, ReadableAnswer, Exchange, Response
<1>2. CASE s = "stock" /\ ~ Health(r)
  <2>1. Served(s, r, Acked(s, out)) = Stock!ServeHTTP(r, out)
    BY <1>2, ContractServes DEF Acked
  <2>2. Codes(s) = Stock!InvalidParamCodes
    BY <1>2 DEF Codes
  <2> QED
    BY <2>1, <2>2, StockReadable DEF Outcome
<1>3. CASE s = "orders" /\ ~ Health(r)
  <2>1. Served(s, r, Acked(s, out)) = Orders!ServeHTTP(r, out)
    BY <1>3, ContractServes DEF Acked
  <2>2. Codes(s) = Orders!InvalidParamCodes
    BY <1>3 DEF Codes
  <2> QED
    BY <2>1, <2>2, OrdersReadable DEF Outcome
<1>4. CASE s = "internal"
  <2> DEFINE told == Acked(s, out)
  <2>1. Served(s, r, told) = Internal!ServeHTTP(r, told)
    BY <1>4, ContractServes
  <2>2. Codes(s) = Internal!InvalidParamCodes
    BY <1>4 DEF Codes
  <2>3. CASE Is("val", out)
    <3>1. told = [val |-> Internal!Acknowledge(out.val)]
      BY <1>4, <2>3 DEF Acked, Val
    <3>2. ~ Is("err", told) /\ told.val = Internal!Acknowledge(out.val)
      BY <3>1, ValueIs
    <3> HIDE DEF told
    <3>3. Tellable(Internal!InvalidParamCodes, told)
      BY <3>2 DEF Tellable
    <3> QED
      BY <2>1, <2>2, <3>2, <3>3, InternalReadable DEF told
  <2>4. CASE ~ Is("val", out)
    <3>1. told = out /\ Is("err", out) /\ Tellable(Internal!InvalidParamCodes, out)
      BY <2>2, <2>4 DEF Outcome, Acked
    <3> QED
      BY <2>1, <2>2, <3>1, InternalReadable
  <2> QED
    BY <2>3, <2>4
<1> QED
  BY <1>1, <1>2, <1>3, <1>4 DEF Contracts

(* What a request asks for does not depend on the application.             *)
LEMMA ServedCalls ==
  ASSUME NEW s \in Contracts, NEW r, DOMAIN r.path = 1 .. Len(r.path), NEW out
  PROVE  /\ Served(s, r, out).call = Decoded(s, r)
         /\ Decoded(s, r) = NoCall \/ Decoded(s, r).op \in Operations(s)
<1>1. CASE Redirects(s, r)
  <2>1. Served(s, r, out).call = NoCall /\ Decoded(s, r) = NoCall
    BY <1>1, MuxRedirects DEF Exchange
  <2> QED
    BY <2>1
<1>2. CASE ~ Redirects(s, r) /\ s \in {"stock", "orders"} /\ Health(r)
  <2>1. \A x : Served(s, r, x) = Exchange(NoCall, Response(200, "text", Str("ok")))
    BY <1>2, ContractServes
  <2> QED
    BY <2>1 DEF Decoded, Exchange
<1>3. CASE ~ Redirects(s, r) /\ s = "stock" /\ ~ Health(r)
  <2>1. \A x : Served(s, r, x) = Stock!ServeHTTP(r, x)
    BY <1>3, ContractServes
  <2>2. Operations(s) = {"getStock", "replenish"}
    BY <1>3 DEF Operations
  <2> QED
    BY <2>1, <2>2, StockCalls DEF Decoded
<1>4. CASE ~ Redirects(s, r) /\ s = "orders" /\ ~ Health(r)
  <2>1. \A x : Served(s, r, x) = Orders!ServeHTTP(r, x)
    BY <1>4, ContractServes
  <2>2. Operations(s) = {"placeOrder", "getOrder", "cancelOrder", "prepareShipment",
                         "getShipment", "markShipped"}
    BY <1>4 DEF Operations
  <2> QED
    BY <2>1, <2>2, OrdersCalls DEF Decoded
<1>5. CASE s = "internal"
  <2>1. \A x : Served(s, r, x) = Internal!ServeHTTP(r, x)
    BY <1>5, InternalServes
  <2>2. Operations(s) = {"confirm", "ingest", "release", "reserve"}
    BY <1>5 DEF Operations
  <2> QED
    BY <2>1, <2>2, InternalCalls DEF Decoded
<1> QED
  BY <1>1, <1>2, <1>3, <1>4, <1>5 DEF Contracts

(* What a server but the one of the placing of an order may be told.       *)
LEMMA OutcomesTell ==
  ASSUME NEW s \in Contracts, NEW c,
           c = NoCall \/ c.op \in Operations(s) \ {"placeOrder"},
         c.op = "reserve" => DOMAIN c.arg.lines \subseteq Nat
  PROVE  \A out \in Outcomes(c) : Outcome(Codes(s), out)
<1>1. CASE c = NoCall
  <2>1. c.op = "none"
    BY <1>1 DEF NoCall
  <2>2. Outcomes(c) = {Unexpected}
    BY <2>1 DEF Outcomes
  <2> QED
    BY <2>2, OtherTells DEF Unexpected
<1>2. CASE c.op \in Operations(s) \ {"placeOrder"} /\ s = "orders"
  <2>1. Codes(s) = Orders!InvalidParamCodes
    BY <1>2 DEF Codes
  <2> QED
    BY <1>2, <2>1, OrderingTells DEF Operations
<1>3. CASE c.op \in Operations(s) \ {"placeOrder"} /\ s = "stock"
  <2>1. StockCodes \subseteq Codes(s)
    BY <1>3 DEF Codes, StockCodes, Stock!InvalidParamCodes
  <2> QED
    BY <1>3, <2>1, InventoryTells DEF Operations
<1>4. CASE c.op \in Operations(s) \ {"placeOrder"} /\ s = "internal"
  <2>1. StockCodes \subseteq Codes(s)
    BY <1>4 DEF Codes, StockCodes, Internal!InvalidParamCodes
  <2> QED
    BY <1>4, <2>1, InventoryTells DEF Operations
<1> QED
  BY <1>1, <1>2, <1>3, <1>4 DEF Contracts

(* The outcomes of the placing of an order.                                *)
LEMMA PlacingOutcomes ==
  ASSUME NEW in, NEW sentinels
  PROVE  /\ Outcome(Codes("orders"), AppError(sentinels, <<>>, ""))
         /\ Outcome(Codes("orders"), Unexpected)
         /\ Outcome(Codes("orders"), Val(in))
         /\ DOMAIN in.lines \subseteq Nat
            => Outcome(Codes("orders"), PlaceOrderCase(in))
<1>1. Codes("orders") = Orders!InvalidParamCodes
  BY DEF Codes
<1>2. DOMAIN in.lines \subseteq Nat => Outcome(Codes("orders"), PlaceOrderCase(in))
  BY <1>1, PlacingTells
<1>3. Outcome(Codes("orders"), AppError(sentinels, <<>>, ""))
  BY DEF Outcome, Tellable, AppError, Is
<1> QED
  BY <1>2, <1>3, OtherTells DEF Unexpected

(* What the codes of the problem of an answer say of its validation.       *)
LEMMA CodesValid ==
  ASSUME NEW s \in Contracts, NEW v,
         \A i \in DOMAIN Client!InvalidParams(v) :
           Client!InvalidParams(v)[i].struct["code"].str \in Codes(s)
  PROVE  InvalidIn(s, v) = <<>>
<1> DEFINE ps == Client!InvalidParams(v)
<1>1. CASE s = "orders"
  <2>1. Orders!InvalidParams(v) = ps
    BY DEF Orders!InvalidParams, Client!InvalidParams
  <2>2. \A i \in DOMAIN ps : Orders!ValidateInvalidParam(ps[i]) = <<>>
    <3>1. ASSUME NEW i \in DOMAIN ps
          PROVE  Orders!ValidateInvalidParam(ps[i]) = <<>>
      <4>1. Orders!ValidateInvalidParamCode(ps[i].struct["code"]) = <<>>
        BY <1>1 DEF Orders!ValidateInvalidParamCode, Codes
      <4>2. Orders!Under("code", <<>>) = <<>>
        BY DEF Orders!Under
      <4> QED
        BY <4>1, <4>2 DEF Orders!ValidateInvalidParam
    <3> QED
      BY <3>1
  <2> QED
    BY <1>1, <2>1, <2>2 DEF InvalidIn, Orders!ValidateProblemDetails
<1>2. CASE s = "stock"
  <2>1. Stock!InvalidParams(v) = ps
    BY DEF Stock!InvalidParams, Client!InvalidParams
  <2>2. \A i \in DOMAIN ps : Stock!ValidateInvalidParam(ps[i]) = <<>>
    <3>1. ASSUME NEW i \in DOMAIN ps
          PROVE  Stock!ValidateInvalidParam(ps[i]) = <<>>
      <4>1. Stock!ValidateInvalidParamCode(ps[i].struct["code"]) = <<>>
        BY <1>2 DEF Stock!ValidateInvalidParamCode, Codes
      <4>2. Stock!Under("code", <<>>) = <<>>
        BY DEF Stock!Under
      <4> QED
        BY <4>1, <4>2 DEF Stock!ValidateInvalidParam
    <3> QED
      BY <3>1
  <2> QED
    BY <1>2, <2>1, <2>2 DEF InvalidIn, Stock!ValidateProblemDetails
<1>3. CASE s = "internal"
  <2>1. \A i \in DOMAIN ps : Client!ValidateInvalidParam(ps[i]) = <<>>
    <3>1. ASSUME NEW i \in DOMAIN ps
          PROVE  Client!ValidateInvalidParam(ps[i]) = <<>>
      <4>1. Client!ValidateInvalidParamCode(ps[i].struct["code"]) = <<>>
        BY <1>3 DEF Client!ValidateInvalidParamCode, Codes, Internal!InvalidParamCodes,
                    Client!InvalidParamCodes, Internal!ReasonCodes, Client!ReasonCodes
      <4>2. Client!Under("code", <<>>) = <<>>
        BY DEF Client!Under
      <4> QED
        BY <4>1, <4>2 DEF Client!ValidateInvalidParam
    <3> QED
      BY <3>1
  <2> QED
    BY <1>3, <2>1 DEF InvalidIn, Client!ValidateProblemDetails
<1> QED
  BY <1>1, <1>2, <1>3 DEF Contracts

(* A document is a body.                                                   *)
LEMMA DocumentIs ==
  ASSUME NEW ms, NEW d, d = [members |-> ms]
  PROVE  ~ Is("followed", d) /\ d # [nobody |-> ""]
<1>1. DOMAIN d = {"members"} /\ DOMAIN [nobody |-> ""] = {"nobody"}
  OBVIOUS
<1> QED
  BY <1>1 DEF Is

(* What the client of the inventory sends is what the inventory reads.     *)
LEMMA ReserveArrives ==
  ASSUME NEW ref, NEW lines
  PROVE  /\ LET path == Client!Reserve(ref, lines).path IN DOMAIN path = 1 .. Len(path)
         /\ Decoded("internal", Client!Reserve(ref, lines)) =
              Called("reserve", [ref |-> ref, lines |-> [i \in DOMAIN lines |->
                [sku |-> lines[i].sku, qty |-> lines[i].qty]]])
<1> DEFINE vs == [i \in DOMAIN lines |-> Struct([sku |-> Str(lines[i].sku),
                                                quantity |-> Num(lines[i].qty)])]
           v == Struct([ref |-> Str(ref), lines |-> List(vs)])
           doc == Encode(Client!ReserveCommand, v)
           r == Client!Reserve(ref, lines)
           got == Internal!DecodeReserveStockRequest(r)
<1>1. v = Struct([ref |-> Str(ref), lines |-> Client!ToClientLines(lines)])
  BY DEF Client!ToClientLines, Client!List, List, Client!Struct, Struct, Client!Str,
     Str,
         Client!Num, Num
<1>2. r = [method |-> "POST", path |-> <<"reservations">>, type |-> "json",
        body |-> doc]
  <2>1. Client!Encode(Client!ReserveCommand, v) = doc
    BY ClientEncodes
  <2> QED
    BY <1>1, <2>1 DEF Client!Reserve, Client!SendReserveStock, Client!Request,
       Client!EncodeReserveStockRequest, Client!Struct, Struct, Client!Str, Str
<1>3. Decode(Internal!ReserveCommand, doc) = [val |-> v]
  BY <1>1, ReserveCommandReads
<1>4. \E ms : doc = [members |-> ms]
  BY DEF Encode, EncodeParts, Client!ReserveCommand, Client!Object, Members, Is
<1> HIDE DEF doc, v
<1>5. ~ Is("followed", doc) /\ doc # Internal!NoBody
  BY <1>4, DocumentIs DEF Internal!NoBody
<1>6. Internal!Decode(Internal!ReserveCommand, doc) = [val |-> v]
  BY <1>3, InternalDecodes
<1>7. Internal!DecodeBody(Internal!ReserveCommand, r) = [val |-> v]
  BY <1>2, <1>5, <1>6, ValueIs DEF Internal!DecodeBody, Internal!Is, Is
<1>8. Internal!ValidateReserveCommand(v) = <<>>
  BY DEF v, Internal!ValidateReserveCommand, Internal!Is, Struct, List
<1> HIDE DEF r
<1>9. got = [val |-> v]
  <2>1. Internal!DecodeBody(Internal!ReserveCommand, r).val = v
    BY <1>7
  <2> QED
    BY <1>7, <1>8, <2>1 DEF Internal!DecodeReserveStockRequest, Internal!Validated
<1> HIDE DEF got
<1>10. Internal!ReserveStock(v) = [ref |-> ref, lines |-> [i \in DOMAIN lines |->
                [sku |-> lines[i].sku, qty |-> lines[i].qty]]]
  BY DEF v, Internal!ReserveStock, Struct, List, Str, Num
<1>11. ~ Is("err", got) /\ got.val = v
  BY <1>9, ValueIs
<1>12. Internal!HandleReserveStock(r, Unexpected).call
         = Called("reserve", Internal!ReserveStock(v))
  BY <1>11 DEF got, Internal!HandleReserveStock, Internal!Handled, Internal!Is, Is,
     Internal!Exchange, Internal!Called, Called
<1>13. Internal!ServeHTTP(r, Unexpected) = Internal!HandleReserveStock(r, Unexpected)
  BY <1>2 DEF Internal!ServeHTTP, Internal!Matches
<1>14. Decoded("internal", r) = Internal!ServeHTTP(r, Unexpected).call
  BY InternalServes DEF Decoded
<1>15. DOMAIN r.path = 1 .. Len(r.path)
  BY <1>2
<1> QED
  BY <1>10, <1>12, <1>13, <1>14, <1>15 DEF r

(* What the relay publishes is what the inventory takes in.                *)
LEMMA PublishArrives ==
  ASSUME NEW m, m.occurredAt \in Instants
  PROVE  Decoded("internal", Client!Publish(m))
           = Called("ingest", [type |-> m.type, payload |-> m.payload])
<1> DEFINE v == Struct([id |-> Str(m.id), type |-> Str(m.type),
                        payload |-> Str(m.payload), trace_id |-> Str(m.traceId),
                        occurred_at |-> Str(m.occurredAt)])
           doc == Encode(Client!InboundMessage, v)
           r == Client!Publish(m)
           got == Internal!DecodeIngestEventRequest(r)
<1>1. r = [method |-> "POST", path |-> <<"events">>, type |-> "json", body |-> doc]
  <2>1. Client!Encode(Client!InboundMessage, v) = doc
    BY ClientEncodes
  <2> QED
    BY <2>1 DEF Client!Publish, Client!SendIngestEvent, Client!Request,
       Client!EncodeIngestEventRequest, Client!Struct, Struct, Client!Str, Str
<1>2. Decode(Internal!InboundMessage, doc) = [val |-> v]
  BY InboundMessageReads
<1>3. \E ms : doc = [members |-> ms]
  BY DEF Encode, EncodeParts, Client!InboundMessage, Client!Object, Members, Is
<1> HIDE DEF doc, v
<1>4. ~ Is("followed", doc) /\ doc # Internal!NoBody
  BY <1>3, DocumentIs DEF Internal!NoBody
<1>5. Internal!Decode(Internal!InboundMessage, doc) = [val |-> v]
  BY <1>2, InternalDecodes
<1>6. Internal!DecodeBody(Internal!InboundMessage, r) = [val |-> v]
  BY <1>1, <1>4, <1>5, ValueIs DEF Internal!DecodeBody, Internal!Is, Is
<1> HIDE DEF r
<1>7. got = [val |-> v]
  BY <1>6 DEF Internal!DecodeIngestEventRequest
<1> HIDE DEF got
<1>8. Internal!IngestEvent(v) = [type |-> m.type, payload |-> m.payload]
  BY DEF v, Internal!IngestEvent, Struct, Str
<1>9. ~ Is("err", got) /\ got.val = v
  BY <1>7, ValueIs
<1>10. Internal!HandleIngestEvent(r, Unexpected).call
         = Called("ingest", Internal!IngestEvent(v))
  BY <1>9 DEF got, Internal!HandleIngestEvent, Internal!Handled, Internal!Is, Is,
     Internal!Exchange, Internal!Called, Called
<1>11. Internal!ServeHTTP(r, Unexpected) = Internal!HandleIngestEvent(r, Unexpected)
  BY <1>1 DEF Internal!ServeHTTP, Internal!Matches
<1>12. Decoded("internal", r) = Internal!ServeHTTP(r, Unexpected).call
  BY InternalServes DEF Decoded
<1> QED
  BY <1>8, <1>10, <1>11, <1>12 DEF r

(* A compensation arrives as one.                                          *)
LEMMA ReleaseArrives ==
  /\ LET path == Client!Release("o").path IN DOMAIN path = 1 .. Len(path)
  /\ Decoded("internal", Client!Release("o")) = Called("release", "o")
<1> DEFINE r == Client!Release("o")
           got == Internal!DecodeReleaseReservationParams("o")
<1>1. r.method = "POST" /\ r.path = <<"reservations", "o", "release">>
  BY DEF Client!Release, Client!SendReleaseReservation, Client!Request
<1> HIDE DEF r
<1>2. Len(r.path) = 3 /\ r.path[1] = "reservations" /\ r.path[2] = "o"
        /\ r.path[3] = "release"
  BY <1>1
<1>3. DOMAIN r.path = {1, 2, 3}
  BY <1>1
<1>4. Internal!Matches(r.path, <<"reservations", "{}", "release">>)
  BY <1>2, <1>3 DEF Internal!Matches
<1>5. /\ ~ Internal!Matches(r.path, <<"reservations", "{}", "confirm">>)
      /\ r.path # <<"events">> /\ r.path # <<"reservations">>
  BY <1>2, <1>3 DEF Internal!Matches
<1>6. Internal!ServeHTTP(r, Unexpected)
        = Internal!HandleReleaseReservation(r, Unexpected)
  BY <1>1, <1>4, <1>5 DEF Internal!ServeHTTP
<1>7. got = [val |-> Str("o")]
  BY DEF Internal!DecodeReleaseReservationParams, Internal!DecodePathParam,
     Internal!Val,
         Internal!Str, Str
<1> HIDE DEF got
<1>8. ~ Is("err", got) /\ got.val = Str("o")
  BY <1>7, ValueIs
<1>9. Internal!HandleReleaseReservation(r, Unexpected).call = Called("release", "o")
  BY <1>2, <1>8 DEF got, Internal!HandleReleaseReservation, Internal!Handled,
     Internal!Is, Is,
     Internal!Exchange, Internal!Called, Called, Internal!ReservationOf, Str
<1>10. Decoded("internal", r) = Internal!ServeHTTP(r, Unexpected).call
  BY InternalServes DEF Decoded
<1>11. DOMAIN r.path = 1 .. Len(r.path)
  BY <1>1
<1> QED
  BY <1>6, <1>9, <1>10, <1>11 DEF r

(* How the placing of an order is answered.                                *)
LEMMA PlacingAnswer ==
  ASSUME NEW s \in Contracts, NEW r, DOMAIN r.path = 1 .. Len(r.path), NEW out,
         Decoded(s, r).op = "placeOrder"
  PROVE  /\ s = "orders"
         /\ Served(s, r, Acked(s, out)).answer =
              IF Is("err",
                out) THEN Orders!EncodeErrorResponse(Orders!NewError(out.err))
              ELSE Orders!EncodePlaceOrderResponse(out.val)
<1>1. s = "orders"
  <2>1. "placeOrder" \notin Operations("stock")
    BY DEF Operations
  <2>2. "placeOrder" \notin Operations("internal")
    BY DEF Operations
  <2>3. NoCall.op # "placeOrder"
    BY DEF NoCall
  <2>4. "placeOrder" \in Operations(s)
    BY <2>3, ServedCalls
  <2> QED
    BY <2>1, <2>2, <2>4 DEF Contracts
<1>2. Acked(s, out) = out
  BY <1>1 DEF Acked
<1>3. ~ Redirects(s, r) /\ ~ Health(r)
  <2>1. ~ Redirects(s, r)
    BY MuxRedirects DEF NoCall
  <2>2. Health(r) => Decoded(s, r) = NoCall
    BY <1>1, <2>1, ContractServes DEF Decoded, Exchange
  <2> QED
    BY <2>1, <2>2 DEF NoCall
<1>4. \A x : Served(s, r, x) = Orders!ServeHTTP(r, x)
  BY <1>1, <1>3, ContractServes
<1>5. Orders!ServeHTTP(r, out).call.op = "placeOrder"
  BY <1>4, ServedCalls
<1>6. Orders!ServeHTTP(r, out) = Orders!HandlePlaceOrder(r, out)
  <2>1. \A called, reply : called.op # "placeOrder" =>
          \A decoded : Orders!Handled(decoded, called, out,
             reply).call.op # "placeOrder"
    BY DEF Orders!Handled, Orders!Exchange, Orders!NoCall
  <2>2. \A answer : Orders!Exchange(Orders!NoCall, answer).call.op # "placeOrder"
    BY DEF Orders!Exchange, Orders!NoCall
  <2>3. Orders!HandleGetOrder(r, out).call.op # "placeOrder"
    BY <2>1 DEF Orders!HandleGetOrder, Orders!Called
  <2>4. Orders!HandleCancelOrder(r, out).call.op # "placeOrder"
    BY <2>1 DEF Orders!HandleCancelOrder, Orders!Called
  <2>5. Orders!HandlePrepareShipment(r, out).call.op # "placeOrder"
    BY <2>1 DEF Orders!HandlePrepareShipment, Orders!Called
  <2>6. Orders!HandleGetShipment(r, out).call.op # "placeOrder"
    BY <2>1 DEF Orders!HandleGetShipment, Orders!Called
  <2>7. Orders!HandleMarkShipped(r, out).call.op # "placeOrder"
    BY <2>1, <2>2 DEF Orders!HandleMarkShipped, Orders!Called
  <2> QED
    BY <1>5, <2>2, <2>3, <2>4, <2>5, <2>6, <2>7, OrdersRoutes
<1>7. Orders!HandlePlaceOrder(r, out).call.op = "placeOrder"
  BY <1>5, <1>6
<1>8. Orders!HandlePlaceOrder(r, out).answer =
        IF Is("err", out) THEN Orders!EncodeErrorResponse(Orders!NewError(out.err))
        ELSE Orders!EncodePlaceOrderResponse(out.val)
  BY <1>7 DEF Orders!HandlePlaceOrder, Orders!Handled, Orders!Exchange, Orders!NoCall,
     Orders!Is, Is
<1> QED
  BY <1>1, <1>2, <1>4, <1>6, <1>8

(* Its own checks refuse an order as invalid.                              *)
LEMMA ChecksInvalid ==
  ASSUME NEW in, DOMAIN in.lines \subseteq Nat, Is("err", PlaceOrderCase(in))
  PROVE  Orders!Classify(PlaceOrderCase(in).err.is) = 422
<1> DEFINE inputs == {"InvalidCustomerID", "InvalidSKU", "InvalidQuantity",
             "InvalidMoney",
                      "EmptyOrder"}
           out == PlaceOrderCase(in)
<1>1. ASSUME NEW sentinel \in inputs
      PROVE  Orders!Classify({sentinel}) = 422
  <2>1. /\ "ReservationUnavailable" \notin {sentinel}
           /\ "ReservationRejected" \notin {sentinel}
        /\ {sentinel} \cap {"OrderNotFound", "ShipmentNotFound"} = {}
        /\ {sentinel} \cap {"OrderNotConfirmed", "ShipmentNotPreparing",
                            "OrderNotConfirmedForShipment",
                            "ConcurrencyConflict"} = {}
    OBVIOUS
  <2>2. {sentinel} \cap {"EmptyOrder", "InvalidSKU", "InvalidQuantity",
                        "InvalidMoney", "InvalidCustomerID",
                        "InvalidOrderID", "InvalidReservationRef",
                        "InvalidShipmentID", "InvalidTrackingNumber"} # {}
    OBVIOUS
  <2> QED
    BY <2>1, <2>2 DEF Orders!Classify
<1> HIDE DEF out
<1>2. \A sentinel \in inputs : \A path, code :
        out = Violation(sentinel, path, code) => Orders!Classify(out.err.is) = 422
  <2>1. \A sentinel, path, code : Violation(sentinel, path, code).err.is = {sentinel}
    BY DEF Violation, AppError
  <2> HIDE DEF inputs
  <2> QED
    BY <1>1, <2>1
<1>3. out = Fails("InvalidMoney") => Orders!Classify(out.err.is) = 422
  <2>1. Fails("InvalidMoney").err.is = {"InvalidMoney"} /\ "InvalidMoney" \in inputs
    BY DEF Fails, AppError
  <2> HIDE DEF inputs
  <2> QED
    BY <1>1, <2>1
<1>4. /\ "InvalidCustomerID" \in inputs /\ "InvalidSKU" \in inputs
      /\ "InvalidQuantity" \in inputs /\ "InvalidMoney" \in inputs
      /\ "EmptyOrder" \in inputs
  OBVIOUS
<1> HIDE DEF inputs
<1>5. out = LineRefusal(ToOrderLine, in.lines) /\ WrongLines(ToOrderLine, in.lines) # {}
        => Orders!Classify(out.err.is) = 422
  BY <1>2, <1>4, ToOrderLineRefuses
<1>6. out # Val(ReserveLines(in.lines))
  <2>1. ~ Is("err", Val(ReserveLines(in.lines)))
    BY ValueIs DEF Val
  <2> QED
    BY <2>1 DEF out
<1>7. \/ out = Violation("InvalidCustomerID", <<"CustomerId">>, "invalid_customer_id")
      \/ WrongLines(ToOrderLine, in.lines) # {}
         /\ out = LineRefusal(ToOrderLine, in.lines)
      \/ out = Violation("EmptyOrder", <<"Lines">>, "empty_order")
      \/ out = Fails("InvalidMoney")
  BY <1>6 DEF PlaceOrderCase, out
<1> QED
  BY <1>2, <1>3, <1>4, <1>5, <1>7 DEF out

(* An answer with the status of a conflict is a rejection.                 *)
LEMMA ConflictIsRejection ==
  ASSUME NEW err, err.path = <<>>, err.is = {"ReservationRejected"}
  PROVE  LET r == Orders!EncodeErrorResponse(Orders!NewError(err))
         IN  Decode(Orders!ProblemDetails, r.body).val.struct["type"].str
               = "reservation-rejected"
<1> DEFINE r == Orders!EncodeErrorResponse(Orders!NewError(err))
           v == ProblemOf(409, "reservation-rejected", <<>>)
<1>1. Orders!Classify(err.is) = 409
  BY DEF Orders!Classify
<1>2. Orders!ProblemTypeSuffix(err.is, 409) = "reservation-rejected"
  BY DEF Orders!ProblemTypeSuffix
<1>3. Orders!DomainParams(err) = <<>>
  BY DEF Orders!DomainParams
<1>4. Orders!ProblemOf(409, "reservation-rejected", <<>>) = v
  BY OrdersSame DEF Orders!ProblemOf, ProblemOf, Orders!Struct, Struct,
     Orders!Str, Str, Orders!Num, Num, Orders!List, List
<1>5. r.body = Encode(Client!ProblemDetails, v)
  <2> HIDE DEF v
  <2>1. r.body = Orders!Encode(Orders!ProblemDetails, v)
    BY <1>1, <1>2, <1>3, <1>4 DEF Orders!EncodeErrorResponse, Orders!NewError,
       Orders!Response
  <2> QED
    BY <2>1, OrdersEncodes, OrdersSame
<1>6. Listed({}, <<>>)
  BY DEF Listed
<1>7. Decode(Client!ProblemDetails, Encode(Client!ProblemDetails, v)) = [val |-> v]
  BY <1>6, ProblemReads
<1>8. v.struct["type"].str = "reservation-rejected"
  BY DEF ProblemOf, Struct, Str
<1> HIDE DEF r, v
<1>9. Decode(Orders!ProblemDetails, r.body) = [val |-> v]
  BY <1>5, <1>7, OrdersSame
<1> QED
  BY <1>8, <1>9 DEF r

-----------------------------------------------------------------------------
(* The invariant.                                                          *)

(* What is sent from outside is what the load says.                        *)
LoadInv ==
  \E load \in Loads :
    /\ disturbed = load.disturbed
    /\ \A c \in Outer : to[c] = load.to[c] /\ sent[c] = load.sent[c]

Reservation(lines) ==
  Sent(Client!Reserve("o", ReserveLines(lines)),
       Called("reserve", [ref |-> "o", lines |-> ReserveLines(lines)]))

Compensation == Sent(Client!Release("o"), Called("release", "o"))

(* What the handler of an order sends, and when.                           *)
InnerInv ==
  /\ to["reserve"] = "internal" /\ to["release"] = "internal"
  /\ stage \in {"idle", "reserving", "storing", "releasing", "done"}
  /\ stage = "idle" => sent["reserve"] = NotSent
  /\ stage \in {"idle", "reserving", "storing"} => sent["release"] = NotSent
  /\ sent["reserve"] # NotSent =>
       /\ call["a"] \notin {"new", "refused"} /\ Placing("a")
       /\ sent["reserve"] = Reservation(Input.lines)
  /\ sent["release"] \in {NotSent, Compensation}

(* The response to a call: one of the contract, unless the mux redirects.  *)
TellsClient(s, r, op, answer) ==
  IF Redirects(s, r) THEN answer = Redirected
  ELSE ReadableAnswer(Codes(s), op, answer)

(* A call that was accepted asks for what was sent, and is told what it    *)
(* should be.                                                              *)
ExchangeInv(c) ==
  /\ call[c] # "new" => sent[c] # NotSent
  /\ call[c] \notin {"new", "refused"} => asks[c] = Decoded(to[c], sent[c].request)
  /\ (response[c] # NoResponse) <=> (call[c] = "answered")
  /\ call[c] = "answered" =>
       TellsClient(to[c], sent[c].request, asks[c].op, response[c])

ServingInv ==
  /\ ServeInv
  /\ DOMAIN sent = Call /\ DOMAIN asks = Call /\ DOMAIN response = Call
  /\ LoadInv /\ InnerInv
  /\ \A c \in Call : ExchangeInv(c)
  /\ OutageIsNotRefusal

(* The calls and the servers.                                              *)
LEMMA Calls ==
  /\ Call = {"a", "b", "reserve", "release"} /\ Server = Contracts
  /\ Outer = {"a", "b"}
BY ServingAssumption DEF Outer, Inner, Contracts

(* The invariant holds at first.                                           *)
LEMMA ServingInitInv == ServingInit => ServingInv
<1> SUFFICES ASSUME ServingInit PROVE ServingInv
  OBVIOUS
<1>1. PICK load \in Loads :
        /\ to = [c \in Call |-> IF c \in Outer THEN load.to[c] ELSE "internal"]
        /\ sent = [c \in Call |-> IF c \in Outer THEN load.sent[c] ELSE NotSent]
        /\ disturbed = load.disturbed
  BY DEF ServingInit
<1>2. ServeInv
  BY ServeInit DEF ServingInit
<1>3. DOMAIN sent = Call /\ DOMAIN asks = Call /\ DOMAIN response = Call
  BY DEF ServingInit
<1>4. LoadInv
  <2>1. \A c \in Outer : to[c] = load.to[c] /\ sent[c] = load.sent[c]
    BY <1>1, Calls
  <2> QED
    BY <1>1, <2>1 DEF LoadInv
<1>5. InnerInv
  <2>1. /\ to["reserve"] = "internal" /\ to["release"] = "internal"
        /\ sent["reserve"] = NotSent /\ sent["release"] = NotSent
    BY <1>1, Calls
  <2> QED
    BY <2>1 DEF InnerInv, ServingInit
<1>6. \A c \in Call : call[c] = "new" /\ response[c] = NoResponse
  BY DEF ServingInit, Init
<1>7. \A c \in Call : ExchangeInv(c)
  BY <1>6 DEF ExchangeInv
<1>8. OutageIsNotRefusal
  BY <1>6, Calls DEF OutageIsNotRefusal, Answered
<1> QED
  BY <1>2, <1>3, <1>4, <1>5, <1>7, <1>8 DEF ServingInv

(* The requests that were sent, and what was asked for.                    *)
LEMMA Asked ==
  ASSUME ServingInv, NEW c \in Call, sent[c] # NotSent
  PROVE  LET r == sent[c].request
             put == Decoded(to[c], r)
         IN  /\ to[c] \in Contracts
             /\ DOMAIN r.path = 1 .. Len(r.path)
             /\ put = NoCall \/ put.op \in Operations(to[c])
             /\ put.op \in {"placeOrder", "reserve"}
                => DOMAIN put.arg.lines \subseteq Nat
             /\ sent[c].meant # NoCall => put = sent[c].meant
<1> DEFINE r == sent[c].request
           put == Decoded(to[c], r)
<1>1. to[c] \in Contracts
  BY Calls DEF ServingInv, ServeInv, ServersTypeOK
<1>2. ASSUME c \in Outer
      PROVE  /\ DOMAIN r.path = 1 .. Len(r.path)
             /\ put.op \in {"placeOrder", "reserve"}
                => DOMAIN put.arg.lines \subseteq Nat
             /\ sent[c].meant # NoCall => put = sent[c].meant
  <2>1. PICK load \in Loads : to[c] = load.to[c] /\ sent[c] = load.sent[c]
    BY <1>2 DEF ServingInv, LoadInv
  <2>2. /\ DOMAIN r.path = 1 .. Len(r.path)
        /\ put.op \in {"placeOrder", "reserve"} => DOMAIN put.arg.lines \subseteq Nat
    BY <1>2, <2>1, ServingAssumption
  <2>3. ASSUME sent[c].meant # NoCall
        PROVE  put = sent[c].meant
    <3>1. PICK m \in Messages : to[c] = "internal" /\ sent[c] = Relayed(m)
      BY <1>2, <2>1, <2>3, ServingAssumption
    <3>2. r = Client!Publish(m)
      BY <3>1 DEF Relayed, Sent
    <3>3. sent[c].meant = Called("ingest", [type |-> m.type, payload |-> m.payload])
      BY <3>1 DEF Relayed, Sent
    <3> HIDE DEF r
    <3> QED
      BY <3>1, <3>2, <3>3, PublishArrives, ServingAssumption
  <2> QED
    BY <2>2, <2>3
<1>3. ASSUME c = "release"
      PROVE  /\ DOMAIN r.path = 1 .. Len(r.path)
             /\ put = Called("release", "o") /\ put = sent[c].meant
  <2>1. to[c] = "internal" /\ sent[c] = Compensation
    BY <1>3 DEF ServingInv, InnerInv
  <2>2. r = Client!Release("o") /\ sent[c].meant = Called("release", "o")
    BY <2>1 DEF Compensation, Sent
  <2> QED
    BY <2>1, <2>2, ReleaseArrives
<1>4. ASSUME c = "reserve"
      PROVE  /\ DOMAIN r.path = 1 .. Len(r.path)
             /\ DOMAIN put.arg.lines \subseteq Nat
             /\ put = sent[c].meant
  <2> DEFINE lines == ReserveLines(Input.lines)
             again == [i \in DOMAIN lines |-> [sku |-> lines[i].sku,
               qty |-> lines[i].qty]]
  <2>1. /\ to[c] = "internal" /\ sent[c] = Reservation(Input.lines)
        /\ call["a"] \notin {"new", "refused"} /\ Placing("a")
    BY <1>4 DEF ServingInv, InnerInv
  <2>2. r = Client!Reserve("o", lines)
        /\ sent[c].meant = Called("reserve", [ref |-> "o", lines |-> lines])
    BY <2>1 DEF Reservation, Sent
  <2>3. DOMAIN Input.lines \subseteq Nat
    <3>1. "a" \in Call /\ "a" \in Outer
      BY Calls
    <3>2. sent["a"] # NotSent /\ asks["a"] = Decoded(to["a"], sent["a"].request)
      BY <2>1, <3>1 DEF ServingInv, ExchangeInv
    <3>3. PICK load \in Loads : to["a"] = load.to["a"] /\ sent["a"] = load.sent["a"]
      BY <3>1 DEF ServingInv, LoadInv
    <3> QED
      BY <2>1, <3>1, <3>2, <3>3, ServingAssumption DEF Placing, Input
  <2>4. DOMAIN lines = DOMAIN Input.lines
    BY DEF ReserveLines
  <2>5. again = lines
    <3>1. \A i \in DOMAIN lines : [sku |-> lines[i].sku, qty |-> lines[i].qty]
             = lines[i]
      BY DEF ReserveLines
    <3>2. lines = [i \in DOMAIN lines |-> lines[i]]
      BY DEF ReserveLines
    <3> HIDE DEF lines
    <3> QED
      BY <3>1, <3>2
  <2>6. /\ DOMAIN Client!Reserve("o", lines).path
           = 1 .. Len(Client!Reserve("o", lines).path)
        /\ Decoded("internal", Client!Reserve("o", lines))
              = Called("reserve", [ref |-> "o", lines |-> again])
    <3> HIDE DEF lines
    <3> QED
      BY ReserveArrives
  <2>7. put = Called("reserve", [ref |-> "o", lines |-> lines])
    BY <2>1, <2>2, <2>5, <2>6
  <2> HIDE DEF put, r, lines, again
  <2>8. put.arg.lines = lines
    BY <2>7 DEF Called
  <2> QED
    BY <2>2, <2>3, <2>4, <2>6, <2>7, <2>8
<1>5. put = NoCall \/ put.op \in Operations(to[c])
  <2>1. DOMAIN r.path = 1 .. Len(r.path)
    BY <1>2, <1>3, <1>4, Calls
  <2> QED
    BY <1>1, <2>1, ServedCalls
<1> QED
  <2>1. put.op \in {"placeOrder", "reserve"} => DOMAIN put.arg.lines \subseteq Nat
    <3>1. Called("release", "o").op = "release"
      BY DEF Called
    <3> HIDE DEF put
    <3> QED
      BY <1>2, <1>3, <1>4, <3>1, Calls
  <2> HIDE DEF put
  <2> QED
    BY <1>1, <1>2, <1>3, <1>4, <1>5, <2>1, Calls DEF put

(* Every step is one of the life of the processes, or of none.             *)
LEMMA StepIsServe == ServingNext => [Next]_vars /\ to' = to
<1>1. ASSUME Living PROVE [Next]_vars /\ to' = to
  <2>1. ASSUME NEW s \in Server, Listen(s) \/ Fail(s) \/ SendError(s)
        PROVE  Next /\ to' = to
    BY <2>1 DEF Next, Listen, Fail, SendError
  <2>2. ASSUME NEW p \in Process, Signal(p) \/ Running(p) \/ Exit(p) \/ Kill(p)
        PROVE  Next /\ to' = to
    BY <2>2 DEF Next, Running, Signal, Wake, CloseListener, Drain, GiveUp, NextServer,
       Expire, Exit, Kill, Die
  <2> QED
    BY <1>1, <2>1, <2>2 DEF Living
<1>2. ASSUME NEW c \in Call, Accept(c) \/ Refuse(c) \/ Answer(c)
      PROVE  [Next]_vars /\ to' = to
  BY <1>2 DEF Next, Accept, Refuse, Answer
<1>3. ASSUME NEW c \in Call, AcceptCall(c) \/ RefuseCall(c) \/ Handle(c)
      PROVE  [Next]_vars /\ to' = to
  BY <1>2, <1>3 DEF AcceptCall, RefuseCall, Handle, Reply
<1>4. UNCHANGED vars => to' = to
  BY DEF vars
<1>5. \A out : Reply("a", out) => [Next]_vars /\ to' = to
  BY <1>2, Calls DEF Reply
<1>6. ASSUME PlaceOrder PROVE [Next]_vars /\ to' = to
  <2>1. Begin => [Next]_vars /\ to' = to
    BY <1>4, <1>5 DEF Begin
  <2>2. Reserved => [Next]_vars /\ to' = to
    BY <1>4, <1>5 DEF Reserved
  <2>3. Store \/ Compensated => [Next]_vars /\ to' = to
    BY <1>5 DEF Store, Compensated
  <2>4. StoreFails => [Next]_vars /\ to' = to
    BY <1>4 DEF StoreFails
  <2> QED
    BY <1>6, <2>1, <2>2, <2>3, <2>4 DEF PlaceOrder
<1> QED
  BY <1>1, <1>3, <1>6 DEF ServingNext

(* Only the end of a process ends a call without an answer.                *)
LEMMA CallsKept ==
  ASSUME Living, ServingInv, NEW c \in Call
  PROVE  call'[c] = call[c] \/ (call[c] = "open" /\ call'[c] = "lost")
<1>1. ASSUME NEW p \in Process, Die(p)
      PROVE  call'[c] = call[c] \/ (call[c] = "open" /\ call'[c] = "lost")
  BY <1>1 DEF Die, OpenIn
<1>2. ASSUME NEW s \in Server, Listen(s) \/ Fail(s) \/ SendError(s)
      PROVE  call' = call
  BY <1>2 DEF Listen, Fail, SendError
<1>3. ASSUME NEW p \in Process, Signal(p) \/ Running(p)
      PROVE  call' = call
  BY <1>3 DEF Running, Signal, Wake, CloseListener, Drain, GiveUp, NextServer, Expire
<1> QED
  BY <1>1, <1>2, <1>3 DEF Living, Exit, Kill

(* An answer of the application is sent as the contract says.              *)
LEMMA Replied ==
  ASSUME ServingInv, NEW c \in Call, NEW out, Reply(c, out), UNCHANGED <<sent, asks>>,
         Outcome(Codes(to[c]), out)
  PROVE  \A d \in Call : ExchangeInv(d)'
<1> DEFINE r == sent[c].request
           exchange == Served(to[c], r, Acked(to[c], out))
<1>1. /\ call[c] = "open" /\ call' = [call EXCEPT ![c] = "answered"] /\ to' = to
      /\ response' = [response EXCEPT ![c] = exchange.answer]
  BY DEF Reply, Answer
<1>2. DOMAIN call = Call /\ DOMAIN response = Call
  BY DEF ServingInv, ServeInv, ServersTypeOK
<1>3. sent[c] # NotSent /\ asks[c] = Decoded(to[c], r)
  BY <1>1 DEF ServingInv, ExchangeInv
<1>4. TellsClient(to[c], r, asks[c].op, exchange.answer)
  <2>1. to[c] \in Contracts /\ DOMAIN r.path = 1 .. Len(r.path)
    BY <1>3, Asked
  <2>2. exchange.call = asks[c]
    BY <1>3, <2>1, ServedCalls
  <2>3. CASE Redirects(to[c], r)
    BY <2>3, MuxRedirects DEF TellsClient, Exchange
  <2>4. CASE ~ Redirects(to[c], r)
    <3>1. Readable(Codes(to[c]), exchange)
      BY <2>1, <2>4, ServedReadable
    <3> QED
      BY <2>2, <2>4, <3>1 DEF Readable, TellsClient
  <2> QED
    BY <2>3, <2>4
<1>5. exchange.answer # NoResponse
  <2>1. "status" \in DOMAIN exchange.answer
    <3>1. "status" \in DOMAIN Redirected
      BY DEF Redirected, Response
    <3> QED
      BY <1>4, <3>1 DEF TellsClient, ReadableAnswer
  <2>2. "status" \notin DOMAIN NoResponse
    BY DEF NoResponse
  <2> QED
    BY <2>1, <2>2
<1> HIDE DEF exchange
<1>6. ASSUME NEW d \in Call
      PROVE  ExchangeInv(d)'
  <2>1. CASE d = c
    <3>1. call'[d] = "answered" /\ response'[d] = exchange.answer
      BY <1>1, <1>2, <2>1
    <3> QED
      BY <1>1, <1>3, <1>4, <1>5, <2>1, <3>1 DEF ExchangeInv
  <2>2. CASE d # c
    <3>1. call'[d] = call[d] /\ response'[d] = response[d]
      BY <1>1, <1>2, <2>2
    <3>2. ExchangeInv(d)
      BY DEF ServingInv
    <3> QED
      BY <1>1, <3>1, <3>2 DEF ExchangeInv
  <2> QED
    BY <2>1, <2>2
<1> QED
  BY <1>6

(* What was refused stays refused.                                         *)
LEMMA RefusalStays ==
  ASSUME ServingInv,
         call'["a"] = "answered" =>
           call["a"] = "answered" /\ response'["a"] = response["a"]
             /\ asks'["a"] = asks["a"],
         call["reserve"] = "answered" =>
           call'["reserve"] = "answered" /\ response'["reserve"] = response["reserve"]
  PROVE  OutageIsNotRefusal'
BY DEF ServingInv, OutageIsNotRefusal, Answered, ProblemType

(* What is sent does not change when nothing is sent.                      *)
LEMMA SentStays ==
  ASSUME ServingInv, UNCHANGED <<to, disturbed, sent>>,
         stage' \in {"idle", "reserving", "storing", "releasing", "done"},
         stage' # "idle" \/ stage = "idle",
         stage' \in {"idle", "reserving", "storing"}
           => stage \in {"idle", "reserving", "storing"},
         call["a"] \notin {"new", "refused"} =>
           call'["a"] \notin {"new", "refused"} /\ asks'["a"] = asks["a"]
  PROVE  LoadInv' /\ InnerInv'
<1>1. LoadInv'
  BY DEF ServingInv, LoadInv
<1>2. InnerInv'
  BY DEF ServingInv, InnerInv, Placing, Input
<1> QED
  BY <1>1, <1>2

(* All but the part of Serve.                                              *)
PlacesInv ==
  /\ DOMAIN sent = Call /\ DOMAIN asks = Call /\ DOMAIN response = Call
  /\ LoadInv /\ InnerInv
  /\ \A c \in Call : ExchangeInv(c)
  /\ OutageIsNotRefusal

(* The life of the processes.                                              *)
LEMMA LivingPlaces ==
  ASSUME ServingInv, Living PROVE PlacesInv'
<1>1. UNCHANGED <<disturbed, sent, asks, response, stage>>
  BY DEF Living, places
<1>2. to' = to
  BY StepIsServe DEF ServingNext
<1>3. \A c \in Call : ExchangeInv(c)'
  BY <1>1, <1>2, CallsKept DEF ServingInv, ExchangeInv
<1>4. \A c \in Call : /\ call'[c] = "answered" <=> call[c] = "answered"
                      /\ call[c] \notin {"new", "refused"} =>
                           call'[c] \notin {"new", "refused"}
  BY CallsKept
<1>5. OutageIsNotRefusal'
  BY <1>1, <1>4, Calls, RefusalStays
<1>6. stage \in {"idle", "reserving", "storing", "releasing", "done"}
  BY DEF ServingInv, InnerInv
<1>7. LoadInv' /\ InnerInv'
  BY <1>1, <1>2, <1>4, <1>6, Calls, SentStays
<1> QED
  BY <1>1, <1>3, <1>5, <1>7 DEF ServingInv, PlacesInv

(* A server accepts a call.                                                *)
LEMMA AcceptPlaces ==
  ASSUME ServingInv, NEW c \in Call, AcceptCall(c) PROVE PlacesInv'
<1>1. /\ sent[c] # NotSent /\ call[c] = "new"
      /\ call' = [call EXCEPT ![c] = "open"]
      /\ asks' = [asks EXCEPT ![c] = Decoded(to[c], sent[c].request)]
      /\ UNCHANGED <<to, disturbed, sent, response, stage>>
  BY DEF AcceptCall, Accept
<1>2. DOMAIN call = Call /\ DOMAIN asks = Call
  BY DEF ServingInv, ServeInv, ServersTypeOK
<1>3. ASSUME NEW d \in Call
      PROVE  /\ ExchangeInv(d)'
             /\ call[d] # "new" => call'[d] = call[d] /\ asks'[d] = asks[d]
             /\ call'[d] = "answered" => call[d] = "answered"
  <2>1. CASE d = c
    <3>1. call'[d] = "open" /\ asks'[d] = Decoded(to[d], sent[d].request)
      BY <1>1, <1>2, <2>1
    <3>2. ExchangeInv(d)
      BY DEF ServingInv
    <3> QED
      BY <1>1, <2>1, <3>1, <3>2 DEF ExchangeInv
  <2>2. CASE d # c
    <3>1. call'[d] = call[d] /\ asks'[d] = asks[d]
      BY <1>1, <1>2, <2>2
    <3>2. ExchangeInv(d)
      BY DEF ServingInv
    <3> QED
      BY <1>1, <3>1, <3>2 DEF ExchangeInv
  <2> QED
    BY <2>1, <2>2
<1>4. "a" \in Call /\ "reserve" \in Call
  BY Calls
<1>5. OutageIsNotRefusal'
  BY <1>1, <1>3, <1>4, RefusalStays
<1>6. stage \in {"idle", "reserving", "storing", "releasing", "done"}
  BY DEF ServingInv, InnerInv
<1>7. LoadInv' /\ InnerInv'
  BY <1>1, <1>3, <1>4, <1>6, SentStays
<1> QED
  BY <1>1, <1>3, <1>5, <1>7 DEF ServingInv, PlacesInv

(* A call finds no listener.                                               *)
LEMMA RefusePlaces ==
  ASSUME ServingInv, NEW c \in Call, RefuseCall(c) PROVE PlacesInv'
<1>1. /\ sent[c] # NotSent /\ call[c] = "new"
      /\ call' = [call EXCEPT ![c] = "refused"]
      /\ UNCHANGED <<to, disturbed, sent, asks, response, stage>>
  BY DEF RefuseCall, Refuse, places
<1>2. DOMAIN call = Call
  BY DEF ServingInv, ServeInv, ServersTypeOK
<1>3. ASSUME NEW d \in Call
      PROVE  /\ ExchangeInv(d)'
             /\ call[d] # "new" => call'[d] = call[d]
             /\ call'[d] = "answered" => call[d] = "answered"
  BY <1>1, <1>2 DEF ServingInv, ExchangeInv
<1>4. "a" \in Call /\ "reserve" \in Call
  BY Calls
<1>5. OutageIsNotRefusal'
  BY <1>1, <1>3, <1>4, RefusalStays
<1>6. stage \in {"idle", "reserving", "storing", "releasing", "done"}
  BY DEF ServingInv, InnerInv
<1>7. LoadInv' /\ InnerInv'
  BY <1>1, <1>3, <1>4, <1>6, SentStays
<1> QED
  BY <1>1, <1>3, <1>5, <1>7 DEF ServingInv, PlacesInv

(* What holds of every reply.                                              *)
LEMMA ReplyPlaces ==
  ASSUME ServingInv, NEW c \in Call, NEW out, Reply(c, out),
         UNCHANGED <<sent, asks, disturbed>>, Outcome(Codes(to[c]), out),
         stage' = stage \/ stage' = "done",
         c = "a" /\ Placing("a") /\ response'["a"].status = 409 =>
           ProblemType("a")' = "reservation-rejected" /\ call["reserve"] = "answered"
           /\ response["reserve"].status \in 400 .. 499
  PROVE  PlacesInv'
<1>1. /\ call[c] = "open" /\ call' = [call EXCEPT ![c] = "answered"] /\ to' = to
      /\ \E answer : response' = [response EXCEPT ![c] = answer]
  BY DEF Reply, Answer
<1>2. DOMAIN call = Call /\ DOMAIN response = Call
  BY DEF ServingInv, ServeInv, ServersTypeOK
<1>3. \A d \in Call : ExchangeInv(d)'
  BY Replied
<1>4. ASSUME NEW d \in Call, d # c
      PROVE  call'[d] = call[d] /\ response'[d] = response[d]
  BY <1>1, <1>2, <1>4
<1>5. "a" \in Call /\ "reserve" \in Call
  BY Calls
<1>6. call["reserve"] = "answered" =>
        call'["reserve"] = "answered" /\ response'["reserve"] = response["reserve"]
  BY <1>1, <1>4, <1>5
<1>7. OutageIsNotRefusal'
  <2>1. CASE c # "a"
    BY <1>4, <1>5, <1>6, <2>1, RefusalStays
  <2>2. CASE c = "a"
    <3> SUFFICES ASSUME asks["a"].op = "placeOrder", response'["a"].status = 409
                 PROVE  /\ ProblemType("a")' = "reservation-rejected"
                        /\ call'["reserve"] = "answered"
                        /\ response'["reserve"].status \in 400 .. 499
      BY DEF OutageIsNotRefusal, Answered
    <3> QED
      BY <1>6, <2>2 DEF Placing
  <2> QED
    BY <2>1, <2>2
<1>8. stage \in {"idle", "reserving", "storing", "releasing", "done"}
  BY DEF ServingInv, InnerInv
<1>9. call["a"] \notin {"new", "refused"} => call'["a"] \notin {"new", "refused"}
  BY <1>1, <1>2, <1>4, <1>5
<1>10. LoadInv' /\ InnerInv'
  <2>1. stage' \in {"idle", "reserving", "storing", "releasing", "done"}
        /\ (stage' # "idle" \/ stage = "idle")
        /\ (stage' \in {"idle", "reserving", "storing"}
              => stage \in {"idle", "reserving", "storing"})
    BY <1>8
  <2> QED
    BY <1>1, <1>9, <2>1, SentStays
<1>11. DOMAIN sent' = Call /\ DOMAIN asks' = Call /\ DOMAIN response' = Call
  BY <1>1 DEF ServingInv
<1> QED
  BY <1>3, <1>7, <1>10, <1>11 DEF PlacesInv

(* A handler that does not place an order answers.                         *)
LEMMA HandlePlaces ==
  ASSUME ServingInv, NEW c \in Call, Handle(c) PROVE PlacesInv'
<1>1. PICK out \in Outcomes(asks[c]) : Reply(c, out)
  BY DEF Handle
<1>2. call[c] = "open" /\ ~ Placing(c) /\ UNCHANGED <<disturbed, sent, asks, stage>>
  BY DEF Handle
<1>3. sent[c] # NotSent /\ asks[c] = Decoded(to[c], sent[c].request)
  BY <1>2 DEF ServingInv, ExchangeInv
<1>4. Outcome(Codes(to[c]), out)
  BY <1>2, <1>3, Asked, OutcomesTell DEF Placing
<1> QED
  BY <1>1, <1>2, <1>4, ReplyPlaces

(* The handler of an order runs in the ordering context, on a request of   *)
(* its contract, and answers with the order or with its error.             *)
LEMMA PlacingIs ==
  ASSUME ServingInv, call["a"] = "open", Placing("a")
  PROVE  /\ to["a"] = "orders" /\ DOMAIN Input.lines \subseteq Nat
         /\ \A out : Reply("a", out) =>
              response'["a"] =
                IF Is("err",
                  out) THEN Orders!EncodeErrorResponse(Orders!NewError(out.err))
                ELSE Orders!EncodePlaceOrderResponse(out.val)
<1>1. "a" \in Call
  BY Calls
<1>2. sent["a"] # NotSent /\ asks["a"] = Decoded(to["a"], sent["a"].request)
  BY <1>1 DEF ServingInv, ExchangeInv
<1>3. Decoded(to["a"], sent["a"].request).op = "placeOrder"
  BY <1>2 DEF Placing
<1>4. /\ to["a"] \in Contracts
      /\ DOMAIN sent["a"].request.path = 1 .. Len(sent["a"].request.path)
      /\ DOMAIN Decoded(to["a"], sent["a"].request).arg.lines \subseteq Nat
  BY <1>1, <1>2, <1>3, Asked
<1>5. DOMAIN response = Call
  BY DEF ServingInv
<1>6. ASSUME NEW out, Reply("a", out)
      PROVE  response'["a"] =
               IF Is("err",
                 out) THEN Orders!EncodeErrorResponse(Orders!NewError(out.err))
               ELSE Orders!EncodePlaceOrderResponse(out.val)
  <2>1. response'["a"] = Served(to["a"], sent["a"].request, Acked(to["a"], out)).answer
    BY <1>1, <1>5, <1>6 DEF Reply
  <2> QED
    BY <1>3, <1>4, <2>1, PlacingAnswer
<1>7. to["a"] = "orders"
  BY <1>3, <1>4, PlacingAnswer
<1> QED
  BY <1>2, <1>4, <1>6, <1>7 DEF Input

(* The handler of an order answers, as the inventory lets it.              *)
LEMMA PlacingReplies ==
  ASSUME ServingInv, Placing("a"), NEW out, Reply("a", out),
         UNCHANGED <<sent, asks, disturbed>>, stage' = "done",
         Outcome(Codes("orders"), out),
         Is("err", out) /\ Orders!Classify(out.err.is) = 409 =>
           /\ out.err.path = <<>> /\ out.err.is = {"ReservationRejected"}
           /\ call["reserve"] = "answered" /\ response["reserve"].status \in 400 .. 499
  PROVE  PlacesInv'
<1>1. call["a"] = "open"
  BY DEF Reply, Answer
<1>2. to["a"] = "orders"
  BY <1>1, PlacingIs
<1>3. response'["a"].status = 409 =>
        /\ ProblemType("a")' = "reservation-rejected" /\ call["reserve"] = "answered"
        /\ response["reserve"].status \in 400 .. 499
  <2>1. CASE Is("err", out)
    <3> DEFINE answer == Orders!EncodeErrorResponse(Orders!NewError(out.err))
    <3>1. response'["a"] = answer
      BY <1>1, <2>1, PlacingIs
    <3>2. answer.status = Orders!Classify(out.err.is)
      BY DEF Orders!EncodeErrorResponse, Orders!NewError, Orders!Response
    <3>3. Orders!Classify(out.err.is) = 409 =>
            Decode(Orders!ProblemDetails, answer.body).val.struct["type"].str
              = "reservation-rejected"
      BY <2>1, ConflictIsRejection
    <3> HIDE DEF answer
    <3>4. response'["a"].status = 409 => ProblemType("a")' = "reservation-rejected"
      BY <3>1, <3>2, <3>3 DEF ProblemType
    <3> QED
      BY <2>1, <3>1, <3>2, <3>4
  <2>2. CASE ~ Is("err", out)
    <3>1. response'["a"] = Orders!EncodePlaceOrderResponse(out.val)
      BY <1>1, <2>2, PlacingIs
    <3>2. Orders!EncodePlaceOrderResponse(out.val).status = 201
      BY DEF Orders!EncodePlaceOrderResponse, Orders!Response
    <3> QED
      BY <3>1, <3>2
  <2> QED
    BY <2>1, <2>2
<1>4. "a" \in Call
  BY Calls
<1> QED
  BY <1>2, <1>3, <1>4, ReplyPlaces

(* The order is stored, or what is read afterwards cannot be read.         *)
LEMMA StorePlaces ==
  ASSUME ServingInv, Store PROVE PlacesInv'
<1>1. /\ call["a"] = "open" /\ Placing("a") /\ stage' = "done"
      /\ UNCHANGED <<disturbed, sent, asks>>
  BY DEF Store, At
<1>2. PICK out \in {Val(OrderOf("o", Input, "confirmed", 1)), Unexpected} : Reply("a",
        out)
  BY DEF Store
<1>3. Outcome(Codes("orders"), out)
  BY <1>2, PlacingOutcomes
<1>4. Is("err", out) => Orders!Classify(out.err.is) # 409
  <2>1. ~ Is("err", Val(OrderOf("o", Input, "confirmed", 1)))
    BY ValueIs DEF Val
  <2>2. Unexpected.err.is = {"Internal"}
    BY DEF Unexpected, Fails, AppError
  <2>3. Orders!Classify({"Internal"}) = 500
    BY DEF Orders!Classify
  <2> QED
    BY <1>2, <2>1, <2>2, <2>3
<1> QED
  BY <1>1, <1>2, <1>3, <1>4, PlacingReplies

(* The compensation is over.                                               *)
LEMMA CompensatedPlaces ==
  ASSUME ServingInv, Compensated PROVE PlacesInv'
<1>1. /\ call["a"] = "open" /\ Placing("a") /\ stage' = "done" /\ Reply("a", Unexpected)
      /\ UNCHANGED <<disturbed, sent, asks>>
  BY DEF Compensated, At
<1>2. Orders!Classify(Unexpected.err.is) # 409
  <2>1. Unexpected.err.is = {"Internal"}
    BY DEF Unexpected, Fails, AppError
  <2>2. Orders!Classify({"Internal"}) = 500
    BY DEF Orders!Classify
  <2> QED
    BY <2>1, <2>2
<1> QED
  BY <1>1, <1>2, PlacingOutcomes, PlacingReplies

(* An object that cannot be read is refused by the decoder.                *)
LEMMA ObjectRefuses ==
  ASSUME NEW fs, NEW d, Is("err", Client!Decode(Client!Object(fs), d))
  PROVE  Client!Decode(Client!Object(fs), d).err.kind = "decode"
<1> DEFINE got == Client!Decode(Client!Object(fs), d)
<1>1. \A path, leaves : Client!Failure("decode", path, leaves).err.kind = "decode"
  BY DEF Client!Failure
<1>2. \A v, w : w = [val |-> v] => ~ Is("err", w)
  BY ValueIs
<1>3. \A ms, results : LET o == Client!DecodeFields(fs, ms, results)
                       IN  Is("err", o) => o.err.kind = "decode"
  BY <1>1, <1>2 DEF Client!DecodeFields
<1>4. Client!Unreadable.err.kind = "decode"
  BY <1>1 DEF Client!Unreadable
<1>5. /\ ~ Client!Is("scalar", Client!Object(fs))
         /\ ~ Client!Is("items", Client!Object(fs))
      /\ Client!Object(fs).fields = fs
  BY DEF Client!Is, Client!Object
<1>6. \/ got = Client!Unreadable
      \/ \E ms, results : got = Client!DecodeFields(fs, ms, results)
  BY <1>5 DEF Client!Decode, Client!DecodeParts
<1> HIDE DEF got
<1>7. Is("err", got) => got.err.kind = "decode"
  BY <1>3, <1>4, <1>6
<1> QED
  BY <1>7 DEF got

(* What the inventory's answer to a reservation is told as.                *)
LEMMA RejectionIsAnswer ==
  ASSUME ServingInv, NEW ending \in Endings("reserve"), NEW got,
         got = ResultOf(ending, Client!DecodeReserveStockResponse(response["reserve"])),
         Is("err", got), Orders!Classify(Client!Translate(got.err)) = 409
  PROVE  /\ Client!Translate(got.err) = {"ReservationRejected"}
         /\ call["reserve"] = "answered" /\ response["reserve"].status \in 400 .. 499
<1> DEFINE resp == response["reserve"]
<1>1. got.err.kind = "problem" /\ got.err.status < 500
  <2>1. Orders!Classify({"ReservationRejected", "ReservationUnavailable"}) = 503
    BY DEF Orders!Classify
  <2> QED
    BY <2>1 DEF Client!Translate
<1>2. Client!Translate(got.err) = {"ReservationRejected"}
  BY <1>1 DEF Client!Translate
<1>3. \A kind, status : /\ Client!ClientError(kind, status).err.kind = kind
                        /\ Client!ClientError(kind, status).err.status = status
  BY DEF Client!ClientError
<1>4. ending = "response" /\ got = Client!DecodeReserveStockResponse(resp)
  <2>1. Client!Unsent.err.kind = "transport"
    BY <1>3 DEF Client!Unsent
  <2> QED
    BY <1>1, <2>1 DEF ResultOf
<1>5. call["reserve"] = "answered"
  BY <1>4 DEF Endings
<1>6. got = Client!DecodeProblem(resp)
  <2> DEFINE body == Client!Decode(Client!Ack, resp.body)
  <2>1. Is("err", body) => body.err.kind = "decode"
    BY ObjectRefuses DEF Client!Ack
  <2> HIDE DEF body
  <2>2. got = Client!DecodeAck(resp) => got = body \/ got.err.kind = "unreadable"
    BY <1>3 DEF Client!DecodeAck, body
  <2> QED
    BY <1>1, <1>4, <2>1, <2>2 DEF Client!DecodeReserveStockResponse
<1>7. resp.type = "problem" /\ got.err.status = resp.status
  BY <1>1, <1>3, <1>6 DEF Client!DecodeProblem
<1>8. resp.status \in Nat /\ resp.status >= 400
  <2>1. "reserve" \in Call
    BY Calls
  <2>2. ReadableAnswer(Codes(to["reserve"]), asks["reserve"].op, resp)
    BY <1>5, <2>1, InternalServes DEF ServingInv, ExchangeInv, InnerInv, TellsClient
  <2> QED
    BY <1>7, <2>2 DEF ReadableAnswer, ReadableProblem
<1> QED
  BY <1>1, <1>2, <1>5, <1>7, <1>8

(* The reservation is over.                                                *)
LEMMA ReservedPlaces ==
  ASSUME ServingInv, Reserved PROVE PlacesInv'
<1>1. /\ call["a"] = "open" /\ Placing("a") /\ stage = "reserving"
      /\ UNCHANGED <<disturbed, sent, asks>>
  BY DEF Reserved, At
<1> DEFINE gotOf(ending) ==
             ResultOf(ending, Client!DecodeReserveStockResponse(response["reserve"]))
<1>2. PICK ending \in Endings("reserve") :
        IF Is("err", gotOf(ending))
        THEN /\ Reply("a", AppError(Client!Translate(gotOf(ending).err), <<>>, ""))
             /\ stage' = "done"
        ELSE stage' = "storing" /\ UNCHANGED <<vars, response>>
  BY DEF Reserved
<1>3. CASE Is("err", gotOf(ending))
  <2> DEFINE sentinels == Client!Translate(gotOf(ending).err)
             out == AppError(sentinels, <<>>, "")
             got == gotOf(ending)
  <2>1. Reply("a", out) /\ stage' = "done"
    BY <1>2, <1>3
  <2>2. Orders!Classify(sentinels) = 409 =>
          /\ sentinels = {"ReservationRejected"} /\ call["reserve"] = "answered"
          /\ response["reserve"].status \in 400 .. 499
    <3>1. got = ResultOf(ending, Client!DecodeReserveStockResponse(response["reserve"]))
      OBVIOUS
    <3>2. sentinels = Client!Translate(got.err) /\ Is("err", got)
      BY <1>3
    <3>3. ending \in Endings("reserve")
      BY <1>2
    <3> HIDE DEF got, sentinels
    <3> QED
      BY <3>1, <3>2, <3>3, RejectionIsAnswer
  <2> HIDE DEF sentinels
  <2>3. out.err.is = sentinels /\ out.err.path = <<>>
    BY DEF AppError
  <2>4. Outcome(Codes("orders"), out)
    BY PlacingOutcomes
  <2> HIDE DEF out
  <2> QED
    BY <1>1, <2>1, <2>2, <2>3, <2>4, PlacingReplies
<1>4. CASE ~ Is("err", gotOf(ending))
  <2>1. stage' = "storing" /\ UNCHANGED <<to, call, response>>
    BY <1>2, <1>4 DEF vars
  <2>2. LoadInv' /\ InnerInv'
    BY <1>1, <2>1, SentStays
  <2>3. OutageIsNotRefusal'
    BY <1>1, <2>1, RefusalStays
  <2>4. \A c \in Call : ExchangeInv(c)'
    BY <1>1, <2>1 DEF ServingInv, ExchangeInv
  <2> QED
    BY <1>1, <2>1, <2>2, <2>3, <2>4 DEF ServingInv, PlacesInv
<1> QED
  BY <1>3, <1>4

(* A call of the inventory is sent once, and changes nothing else.         *)
LEMMA Sends ==
  ASSUME ServingInv, NEW c \in Inner, sent[c] = NotSent, NEW request, NEW meant,
         Send(c, request, meant), UNCHANGED <<to, call, response, asks, disturbed>>
  PROVE  /\ sent'[c] = Sent(request, meant)
         /\ \A d \in Call \ {c} : sent'[d] = sent[d]
         /\ DOMAIN sent' = Call /\ DOMAIN asks' = Call /\ DOMAIN response' = Call
         /\ LoadInv' /\ OutageIsNotRefusal'
         /\ \A d \in Call : ExchangeInv(d)'
<1>1. c \in Call /\ c \notin Outer
  BY Calls DEF Inner
<1>2. sent' = [sent EXCEPT ![c] = Sent(request, meant)] /\ DOMAIN sent = Call
  BY DEF Send, ServingInv
<1>3. sent'[c] = Sent(request, meant) /\ \A d \in Call \ {c} : sent'[d] = sent[d]
  BY <1>1, <1>2
<1>4. LoadInv'
  <2>1. \A d \in Outer : d \in Call \ {c}
    BY <1>1, Calls
  <2> QED
    BY <1>3, <2>1 DEF ServingInv, LoadInv
<1>5. OutageIsNotRefusal'
  BY RefusalStays
<1>6. ASSUME NEW d \in Call PROVE ExchangeInv(d)'
  <2>1. ExchangeInv(d)
    BY DEF ServingInv
  <2>2. CASE d = c
    <3>1. call[d] = "new"
      BY <2>1, <2>2 DEF ExchangeInv
    <3> QED
      BY <2>1, <3>1 DEF ExchangeInv
  <2>3. CASE d # c
    BY <1>3, <2>1, <2>3 DEF ExchangeInv
  <2> QED
    BY <2>2, <2>3
<1> QED
  BY <1>2, <1>3, <1>4, <1>5, <1>6 DEF ServingInv

(* The order cannot be stored, and the reservation is released.            *)
LEMMA StoreFailsPlaces ==
  ASSUME ServingInv, StoreFails PROVE PlacesInv'
<1>1. /\ call["a"] = "open" /\ Placing("a") /\ stage = "storing" /\ stage' = "releasing"
      /\ Send("release", Client!Release("o"), Called("release", "o"))
      /\ UNCHANGED <<to, call, response, asks, disturbed>>
  BY DEF StoreFails, At, vars
<1>2. sent["release"] = NotSent /\ "release" \in Inner
  BY <1>1 DEF ServingInv, InnerInv, Inner
<1>3. /\ sent'["release"] = Compensation
      /\ \A d \in Call \ {"release"} : sent'[d] = sent[d]
      /\ DOMAIN sent' = Call /\ DOMAIN asks' = Call /\ DOMAIN response' = Call
      /\ LoadInv' /\ OutageIsNotRefusal'
      /\ \A d \in Call : ExchangeInv(d)'
  BY <1>1, <1>2, Sends DEF Compensation
<1>4. sent'["reserve"] = sent["reserve"]
  BY <1>3, Calls
<1>5. InnerInv'
  BY <1>1, <1>3, <1>4 DEF ServingInv, InnerInv, Placing, Input
<1> QED
  BY <1>3, <1>5 DEF PlacesInv

(* What is reserved are the lines of the order.                            *)
LEMMA ReservesLines ==
  ASSUME NEW in, DOMAIN in.lines \subseteq Nat, ~ Is("err", PlaceOrderCase(in))
  PROVE  PlaceOrderCase(in).val = ReserveLines(in.lines)
<1>1. \A sentinel, path, code : Is("err", Violation(sentinel, path, code))
  BY DEF Violation, AppError, Is
<1>2. \A sentinel : Is("err", Fails(sentinel))
  BY DEF Fails, AppError, Is
<1>3. WrongLines(ToOrderLine, in.lines) # {}
      => Is("err", LineRefusal(ToOrderLine, in.lines))
  BY <1>1, ToOrderLineRefuses
<1>4. PlaceOrderCase(in) = Val(ReserveLines(in.lines))
  BY <1>1, <1>2, <1>3 DEF PlaceOrderCase
<1> QED
  BY <1>4 DEF Val

(* The order is checked, and refused or reserved.                          *)
LEMMA BeginPlaces ==
  ASSUME ServingInv, Begin PROVE PlacesInv'
<1> DEFINE checked == PlaceOrderCase(Input)
<1>1. /\ call["a"] = "open" /\ Placing("a") /\ stage = "idle"
      /\ UNCHANGED <<disturbed, asks>>
  BY DEF Begin, At
<1>2. DOMAIN Input.lines \subseteq Nat
  BY <1>1, PlacingIs
<1>3. CASE Is("err", checked)
  <2>1. Reply("a", checked) /\ stage' = "done" /\ UNCHANGED sent
    BY <1>3 DEF Begin
  <2>2. Orders!Classify(checked.err.is) = 422
    BY <1>2, <1>3, ChecksInvalid
  <2>3. Outcome(Codes("orders"), checked)
    BY <1>2, PlacingOutcomes
  <2> HIDE DEF checked
  <2> QED
    BY <1>1, <2>1, <2>2, <2>3, PlacingReplies
<1>4. CASE ~ Is("err", checked)
  <2>1. /\ stage' = "reserving"
        /\ Send("reserve", Client!Reserve("o", checked.val),
                Called("reserve", [ref |-> "o", lines |-> checked.val]))
        /\ UNCHANGED <<to, call, response>>
    BY <1>4 DEF Begin, vars
  <2>2. checked.val = ReserveLines(Input.lines)
    BY <1>2, <1>4, ReservesLines
  <2> HIDE DEF checked
  <2>3. sent["reserve"] = NotSent /\ "reserve" \in Inner
    BY <1>1 DEF ServingInv, InnerInv, Inner
  <2>4. /\ sent'["reserve"] = Reservation(Input.lines)
        /\ \A d \in Call \ {"reserve"} : sent'[d] = sent[d]
        /\ DOMAIN sent' = Call /\ DOMAIN asks' = Call /\ DOMAIN response' = Call
        /\ LoadInv' /\ OutageIsNotRefusal'
        /\ \A d \in Call : ExchangeInv(d)'
    BY <1>1, <2>1, <2>2, <2>3, Sends DEF Reservation
  <2>5. sent'["release"] = sent["release"]
    BY <2>4, Calls
  <2>6. InnerInv'
    BY <1>1, <2>1, <2>4, <2>5 DEF ServingInv, InnerInv, Placing, Input
  <2> QED
    BY <2>4, <2>6 DEF PlacesInv
<1> QED
  BY <1>3, <1>4

(* Every step keeps the invariant.                                         *)
LEMMA ServingStep == ServingInv /\ [ServingNext]_servingVars => ServingInv'
<1> SUFFICES ASSUME ServingInv, [ServingNext]_servingVars PROVE ServingInv'
  OBVIOUS
<1>1. [Next]_vars
  BY StepIsServe DEF servingVars
<1>2. ServeInv'
  BY <1>1, ServeNext DEF ServingInv
<1>3. PlacesInv'
  <2>1. CASE UNCHANGED servingVars
    <3>1. UNCHANGED <<to, call, disturbed, sent, asks, response, stage>>
      BY <2>1 DEF servingVars, vars, places
    <3>2. LoadInv' /\ InnerInv'
      BY <3>1 DEF ServingInv, LoadInv, InnerInv, Placing, Input
    <3>3. OutageIsNotRefusal'
      BY <3>1 DEF ServingInv, OutageIsNotRefusal, Answered, ProblemType
    <3>4. \A c \in Call : ExchangeInv(c)'
      BY <3>1 DEF ServingInv, ExchangeInv
    <3> QED
      BY <3>1, <3>2, <3>3, <3>4 DEF ServingInv, PlacesInv
  <2>2. CASE Living
    BY <2>2, LivingPlaces
  <2>3. ASSUME NEW c \in Call, AcceptCall(c) \/ RefuseCall(c) \/ Handle(c)
        PROVE  PlacesInv'
    BY <2>3, AcceptPlaces, RefusePlaces, HandlePlaces
  <2>4. CASE PlaceOrder
    BY <2>4, BeginPlaces, ReservedPlaces, StorePlaces, StoreFailsPlaces,
       CompensatedPlaces DEF PlaceOrder
  <2> QED
    BY <2>1, <2>2, <2>3, <2>4 DEF ServingNext
<1> QED
  BY <1>2, <1>3 DEF ServingInv, PlacesInv

-----------------------------------------------------------------------------
(* What holds in every behaviour.                                          *)

(* The inductive invariant holds in every behaviour.                       *)
THEOREM ServingInvHolds == ServingSpec => []ServingInv
<1> QED
  BY ServingInitInv, ServingStep, PTL DEF ServingSpec

(* The state has its types, and a call has a response exactly when it was  *)
(* answered (the servers of serve.go and the handlers above them).         *)
THEOREM ServingTypeCorrect == ServingSpec => []TypeOK
<1>1. ServingInv => TypeOK
  <2> SUFFICES ASSUME ServingInv PROVE TypeOK
    OBVIOUS
  <2>1. disturbed \subseteq Process
    BY ServingAssumption DEF ServingInv, LoadInv
  <2>2. \A c \in Call : (response[c] # NoResponse) <=> (call[c] = "answered")
    BY DEF ServingInv, ExchangeInv
  <2> QED
    BY <2>1, <2>2 DEF ServingInv, ServeInv, InnerInv, TypeOK
<1> QED
  BY ServingInvHolds, <1>1, PTL

(* Whatever is sent that is not HEAD or CONNECT, and whatever the stores   *)
(* and the inventory answer, every response is one that the contract       *)
(* describes: a result that the contract's decoder reads back, or a problem*)
(* whose codes are all in the enumeration of the contract (oas_*_gen.go,   *)
(* problem.go, errmap.go); or it is the redirect that the mux of a public  *)
(* server (main.go) gives to a path that is not clean, and nothing was     *)
(* asked of the application.                                               *)
THEOREM ResponsesReadable == ServingSpec => []AnswersReadable
<1>1. ASSUME ServingInv, NEW c \in Call, Answered(c)
      PROVE  LET r == response[c]
                 problem == Decode(Client!ProblemDetails, r.body)
             IN  CASE r.type = "problem" ->
                        /\ r.status >= 400 /\ Is("val", problem)
                        /\ problem.val.struct["status"] = Num(r.status)
                        /\ InvalidIn(to[c], problem.val) = <<>>
                   [] r.type = "json" ->
                        r.status < 300
                        /\ Is("val", Decode(ResultSchema(asks[c].op), r.body))
                   [] r.type = "redirect" ->
                        Redirects(to[c], sent[c].request) /\ asks[c] = NoCall
                   [] OTHER -> r.status < 300
  <2> DEFINE r == response[c]
             problem == Decode(Client!ProblemDetails, r.body)
  <2>1. TellsClient(to[c], sent[c].request, asks[c].op, r) /\ asks[c] = Decoded(to[c], sent[c].request)
    BY <1>1 DEF ServingInv, ExchangeInv, Answered
  <2>2. to[c] \in Contracts
    BY <1>1, Calls DEF ServingInv, ServeInv, ServersTypeOK
  <2>3. CASE Redirects(to[c], sent[c].request)
    <3>1. r.type = "redirect"
      BY <2>1, <2>3 DEF TellsClient, Redirected, Response
    <3>2. asks[c] = NoCall
      BY <2>1, <2>3, MuxRedirects
    <3> QED
      BY <2>3, <3>1, <3>2
  <2>4. CASE ~ Redirects(to[c], sent[c].request) /\ r.type = "problem"
    <3>1. ReadableProblem(Codes(to[c]), r)
      BY <2>1, <2>4 DEF TellsClient, ReadableAnswer
    <3>2. InvalidIn(to[c], problem.val) = <<>>
      BY <2>2, <3>1, CodesValid DEF ReadableProblem
    <3>3. /\ r.status >= 400 /\ Is("val", problem)
          /\ problem.val.struct["status"] = Num(r.status)
      BY <3>1 DEF ReadableProblem
    <3> QED
      BY <2>4, <3>2, <3>3
  <2>5. CASE ~ Redirects(to[c], sent[c].request) /\ r.type # "problem"
    BY <2>1, <2>5 DEF TellsClient, ReadableAnswer
  <2> QED
    BY <2>3, <2>4, <2>5
<1>2. ServingInv => AnswersReadable
  BY <1>1 DEF AnswersReadable
<1> QED
  BY ServingInvHolds, <1>2, PTL

(* Whatever lines an order has and whatever messages the outbox holds, what*)
(* the ordering context asks for is what the use case of the inventory gets*)
(* (aclhttp.go, publisher.go and the two copies of the internal contract). *)
THEOREM CallsArrive == ServingSpec => []ArrivesAsSent
<1>1. ASSUME ServingInv, NEW c \in Call, Answered(c), sent[c].meant # NoCall
      PROVE  asks[c] = sent[c].meant
  <2>1. sent[c] # NotSent /\ asks[c] = Decoded(to[c], sent[c].request)
    BY <1>1 DEF ServingInv, ExchangeInv, Answered
  <2>2. Decoded(to[c], sent[c].request) = sent[c].meant
    BY <1>1, <2>1, Asked
  <2> QED
    BY <2>1, <2>2
<1>2. ServingInv => ArrivesAsSent
  BY <1>1 DEF ArrivesAsSent
<1> QED
  BY ServingInvHolds, <1>2, PTL

(* An order is refused for want of stock only if the inventory refused it; *)
(* an inventory that is down, slow, cut off or broken is an outage         *)
(* (translate in aclhttp.go, classify in errmap.go).                       *)
THEOREM OutagesAreTold == ServingSpec => []OutageIsNotRefusal
<1>1. ServingInv => OutageIsNotRefusal
  BY DEF ServingInv
<1> QED
  BY ServingInvHolds, <1>1, PTL

(* What runs above the servers only takes steps of theirs: the processes of*)
(* Serve are the same whatever is asked of them (serve.go, and run in both *)
(* main.go).                                                               *)
THEOREM ServingIsServe == ServingSpec => Spec
<1>1. ServingInit => Init
  BY DEF ServingInit
<1>2. [ServingNext]_servingVars => [Next]_vars
  BY StepIsServe DEF servingVars
<1> QED
  BY <1>1, <1>2, PTL DEF ServingSpec, Spec

(* So the processes of the two contexts stop cleanly or say that they did  *)
(* not, and their servers never wait for ever to hand over an error        *)
(* (serve.go, with the handlers of both contexts above it).                *)
THEOREM ServingStopsClean == ServingSpec => [](CleanStop /\ NoSenderStuck)
<1> QED
  BY ServingIsServe, StopIsClean, SendersGetRid, PTL
=============================================================================
