-------------------------- MODULE T2MService_proofs --------------------------
(***************************************************************************)
(* The mutex of the POST /t2m handler does its work for any number of      *)
(* handlers, direct clients and prompts, and under every failure.          *)
(*                                                                         *)
(* The pipeline implements the service: every answer is the answer to its  *)
(* own question, for any number of handlers and direct clients, any        *)
(* prompts and all failures.  On the way, no connection is left over alive.*)
(***************************************************************************)
EXTENDS T2MPipeline, FiniteSetTheorems, SequenceTheorems, TLAPS

-----------------------------------------------------------------------------
(* One call of t2m_infer at a time *)

(* What is needed of types: fields and places exist. *)
Shape(c) == c \in [up : {c.up}, down : {c.down}, client : BOOLEAN, server : BOOLEAN]

Shapes == /\ pc = [w \in Askers |-> pc[w]]
          /\ conn = [w \in Askers |-> conn[w]]
          /\ \A w \in Askers : Shape(conn[w])

(* A socket to t2m_infer is open only between call_t2m's connect and close. *)
OpenInCall ==
    \A w \in Askers : pc[w] \notin {"status", "error", "motion"} => ~conn[w].client

SerialInv == Shapes /\ OpenInCall /\ OneAtATime

(* A connection with one stream or one side changed. *)
LEMMA UpChanged ==
    ASSUME NEW c, Shape(c), NEW x
    PROVE  Shape([c EXCEPT !.up = x]) /\ [c EXCEPT !.up = x].client = c.client
  BY DEF Shape

LEMMA DownChanged ==
    ASSUME NEW c, Shape(c), NEW x
    PROVE  Shape([c EXCEPT !.down = x]) /\ [c EXCEPT !.down = x].client = c.client
  BY DEF Shape

LEMMA ServerLeft ==
    ASSUME NEW c, Shape(c)
    PROVE  /\ Shape([c EXCEPT !.server = FALSE])
           /\ [c EXCEPT !.server = FALSE].client = c.client
  BY DEF Shape

LEMMA ClientLeft ==
    ASSUME NEW c, Shape(c)
    PROVE  /\ Shape([c EXCEPT !.client = FALSE, !.down = <<>>])
           /\ ~[c EXCEPT !.client = FALSE, !.down = <<>>].client
  BY DEF Shape

LEMMA NoConnectionShape == Shape(NoConnection) /\ NoConnection.client = FALSE
  BY DEF Shape, NoConnection

-----------------------------------------------------------------------------
(* What the kernel does to a connection at the server's side never opens   *)
(* the client's.                                                           *)
LEMMA ServerSide ==
    ASSUME NEW c, Shape(c), NEW n, NEW words
    PROVE  /\ Shape(ServerTakes(c, n)) /\ ServerTakes(c, n).client = c.client
           /\ Shape(ServerSends(c, words)) /\ ServerSends(c, words).client = c.client
           /\ Shape(ServerCloses(c)) /\ ServerCloses(c).client = c.client
<1>1. Shape(ServerTakes(c, n)) /\ ServerTakes(c, n).client = c.client
  <2> DEFINE rest == SubSeq(c.up, n + 1, Len(c.up))
  <2>1. ServerTakes(c, n) = [c EXCEPT !.up = rest]
    BY DEF ServerTakes
  <2> HIDE DEF rest
  <2>2. Shape([c EXCEPT !.up = rest]) /\ [c EXCEPT !.up = rest].client = c.client
    BY UpChanged
  <2> QED BY <2>1, <2>2, Zenon
<1>2. Shape(ServerSends(c, words)) /\ ServerSends(c, words).client = c.client
  BY DownChanged DEF ServerSends
<1>3. Shape(ServerCloses(c)) /\ ServerCloses(c).client = c.client
  <2>1. CASE c.client
    BY <2>1, ServerLeft DEF ServerCloses
  <2>2. CASE ~c.client
    <3>1. c.client = FALSE /\ ServerCloses(c) = NoConnection
      BY <2>2 DEF ServerCloses, Shape
    <3> QED BY <3>1, NoConnectionShape
  <2> QED BY <2>1, <2>2
<1> QED BY <1>1, <1>2, <1>3

(* At the client's side, reading keeps it open and closing closes it. *)
LEMMA ClientSide ==
    ASSUME NEW c, Shape(c), NEW n
    PROVE  /\ Shape(ClientTakes(c, n)) /\ ClientTakes(c, n).client = c.client
           /\ Shape(ClientCloses(c)) /\ ~ClientCloses(c).client
<1>1. Shape(ClientTakes(c, n)) /\ ClientTakes(c, n).client = c.client
  <2> DEFINE rest == SubSeq(c.down, n + 1, Len(c.down))
  <2>1. ClientTakes(c, n) = [c EXCEPT !.down = rest]
    BY DEF ClientTakes
  <2> HIDE DEF rest
  <2>2. Shape([c EXCEPT !.down = rest]) /\ [c EXCEPT !.down = rest].client = c.client
    BY DownChanged
  <2> QED BY <2>1, <2>2, Zenon
<1>2. Shape(ClientCloses(c)) /\ ~ClientCloses(c).client
  BY ClientLeft, NoConnectionShape DEF ClientCloses
<1> QED BY <1>1, <1>2

(***************************************************************************)
(* The steps of t2m_infer and of the hidden port: no handler moves, and no *)
(* client socket opens.                                                    *)
(***************************************************************************)
ServerMove == /\ UNCHANGED handlerVars
              /\ conn' = [w \in Askers |-> conn'[w]]
              /\ \A w \in Askers : Shape(conn'[w]) /\ conn'[w].client = conn[w].client

LEMMA ServerMoveSafe ==
    ASSUME SerialInv, ServerMove
    PROVE  SerialInv'
  BY PipelineAssumption
     DEF SerialInv, Shapes, OpenInCall, OneAtATime, ServerMove, handlerVars, Askers

LEMMA OneConnection ==
    ASSUME Shapes, UNCHANGED handlerVars, NEW f, NEW c,
           conn' = [conn EXCEPT ![f] = c],
           f \in Askers => Shape(c) /\ c.client = conn[f].client
    PROVE  ServerMove
  BY DEF Shapes, ServerMove

LEMMA InferMoves ==
    ASSUME Shapes, InferStep \/ Killed
    PROVE  ServerMove
<1> USE DEF Shapes
<1>1. ASSUME UNCHANGED <<handlerVars, conn>>
      PROVE  ServerMove
  BY <1>1 DEF ServerMove
<1>2. ASSUME NEW n, ClientGone(n)
      PROVE  ServerMove
  BY <1>2, ServerSide, OneConnection DEF ClientGone
<1>3. CASE Accept
  BY <1>1, <1>3 DEF Accept
<1>4. ASSUME NEW n, UNCHANGED handlerVars,
             conn' = [conn EXCEPT ![infer.for] = ServerTakes(@, n)]
      PROVE  ServerMove
  BY <1>4, ServerSide, OneConnection
<1>5. CASE ReadLen \/ ReadRest
  BY <1>2, <1>4, <1>5 DEF ReadLen, ReadRest
<1>6. CASE Fetch \/ ReadHead \/ ReadVector \/ Infer
  BY <1>1, <1>6 DEF Fetch, ReadHead, ReadVector, Infer, FetchCutOff
<1>7. CASE SendStatus
  BY <1>7, ServerSide, OneConnection DEF SendStatus
<1>8. CASE SendRest
  <2>1. PICK words :
           conn' = [conn EXCEPT ![infer.for] = ServerCloses(ServerSends(@, words))]
    BY <1>8 DEF SendRest
  <2>2. infer.for \in Askers =>
           /\ Shape(ServerCloses(ServerSends(conn[infer.for], words)))
           /\ ServerCloses(ServerSends(conn[infer.for], words)).client = conn[infer.for].client
    BY ServerSide
  <2> QED BY <1>8, <2>1, <2>2, OneConnection DEF SendRest
<1>9. ASSUME InferDies
      PROVE  ServerMove
  BY <1>9, ServerSide DEF InferDies, ServerMove
<1> QED
  BY <1>3, <1>5, <1>6, <1>7, <1>8, <1>9 DEF InferStep, BrokenPipe, Killed

LEMMA HiddenMoves ==
    ASSUME Shapes, HiddenStep \/ FusedStops
    PROVE  ServerMove
<1>1. UNCHANGED <<handlerVars, conn>>
  BY DEF HiddenStep, HiddenAccept, HiddenRead, HiddenExtract, Extract, FusedStops
<1> QED BY <1>1 DEF ServerMove, Shapes

-----------------------------------------------------------------------------
(* A handler that returns leaves nothing behind. *)
LEMMA ReturnSafe ==
    ASSUME SerialInv, NEW w \in Askers, NEW status, NEW m,
           Respond(w, status, m),
           w \in Threads => mtx = w,
           conn' = [v \in Askers |-> conn'[v]],
           Shape(conn'[w]), ~conn'[w].client,
           \A v \in Askers \ {w} : conn'[v] = conn[v]
    PROVE  SerialInv'
<1>1. pc' = [pc EXCEPT ![w] = "idle"] /\ dirs' = dirs \ {w}
  BY DEF Respond, Goto
<1>2. Shapes'
  BY <1>1 DEF SerialInv, Shapes
<1>3. OpenInCall'
  BY <1>1 DEF SerialInv, Shapes, OpenInCall
<1>4. OneAtATime'
  <2> SUFFICES ASSUME NEW v \in Threads, mtx' # v
               PROVE  /\ pc'[v] \in {"idle", "lock"}
                      /\ conn'[v].client = FALSE
                      /\ v \notin dirs'
    BY DEF OneAtATime
  <2>1. CASE v = w
    BY <1>1, <2>1 DEF SerialInv, Shapes, Shape
  <2>2. CASE v # w
    <3>1. mtx # v
      BY <2>2, PipelineAssumption DEF Respond, Askers
    <3> QED BY <1>1, <2>2, <3>1 DEF SerialInv, Shapes, OneAtATime, Askers
  <2> QED BY <2>1, <2>2
<1> QED BY <1>2, <1>3, <1>4 DEF SerialInv

(* A handler that goes on with the mutex keeps the others out. *)
LEMMA GoOnSafe ==
    ASSUME SerialInv, NEW w \in Askers, NEW place, Goto(w, place),
           w \in Threads => mtx = w,
           mtx' = mtx,
           dirs' \subseteq dirs \cup {w},
           conn' = [v \in Askers |-> conn'[v]],
           Shape(conn'[w]),
           place \notin {"status", "error", "motion"} => ~conn'[w].client,
           \A v \in Askers \ {w} : conn'[v] = conn[v]
    PROVE  SerialInv'
<1>1. pc' = [pc EXCEPT ![w] = place]
  BY DEF Goto
<1>2. Shapes' /\ OpenInCall'
  BY <1>1 DEF SerialInv, Shapes, OpenInCall
<1>3. OneAtATime'
  BY <1>1 DEF SerialInv, Shapes, OneAtATime, Askers
<1> QED BY <1>2, <1>3 DEF SerialInv

(* Past the wait for the mutex, a handler holds it. *)
LEMMA HoldsMutex ==
    ASSUME SerialInv, NEW w \in Threads, pc[w] \notin {"idle", "lock"}
    PROVE  mtx = w
  BY DEF SerialInv, OneAtATime

LEMMA AskerSafe ==
    ASSUME SerialInv, NEW w \in Askers, Ask(w) \/ AskerStep(w) \/ HangUp(w)
    PROVE  SerialInv'
<1>1. /\ pc = [v \in Askers |-> pc[v]]
      /\ conn = [v \in Askers |-> conn[v]]
      /\ \A v \in Askers : Shape(conn[v])
  BY DEF SerialInv, Shapes
<1>2. pc[w] \notin {"status", "error", "motion"} => ~conn[w].client
  BY DEF SerialInv, OpenInCall
<1>3. pc[w] \notin {"idle", "lock"} /\ w \in Threads => mtx = w
  BY HoldsMutex
<1>4. CASE Ask(w)
  <2>1. /\ pc' = [pc EXCEPT ![w] = IF w \in Threads THEN "lock" ELSE "call"]
        /\ UNCHANGED <<mtx, dirs, conn>>
    BY <1>4 DEF Ask, Goto
  <2>2. ~conn[w].client
    BY <1>2, <1>4 DEF Ask
  <2>3. Shapes' /\ OpenInCall'
    BY <1>1, <2>1, <2>2 DEF SerialInv, Shapes, OpenInCall
  <2>4. OneAtATime'
    BY <1>1, <2>1 DEF SerialInv, OneAtATime, Askers
  <2> QED BY <2>3, <2>4 DEF SerialInv
<1>5. CASE Lock(w)
  <2>1. /\ pc[w] = "lock" /\ mtx = None /\ mtx' = w
        /\ pc' = [pc EXCEPT ![w] = "parse"]
        /\ UNCHANGED <<dirs, conn>>
    BY <1>5 DEF Lock, Goto
  <2>2. Shapes' /\ OpenInCall'
    BY <1>1, <1>2, <2>1 DEF SerialInv, Shapes, OpenInCall
  <2>3. \A v \in Threads : mtx # v
    BY <2>1, PipelineAssumption
  <2>4. OneAtATime'
    BY <1>1, <2>1, <2>3 DEF SerialInv, OneAtATime, Askers
  <2> QED BY <2>2, <2>4 DEF SerialInv
<1>6. CASE Parse(w)
  <2>1. pc[w] = "parse" /\ UNCHANGED conn
    BY <1>6 DEF Parse
  <2>2. CASE class[w] = "bad"
    BY <1>1, <1>2, <1>3, <1>6, <2>1, <2>2, ReturnSafe DEF Parse
  <2>3. CASE class[w] # "bad"
    BY <1>1, <1>2, <1>3, <1>6, <2>1, <2>3, GoOnSafe DEF Parse
  <2> QED BY <2>2, <2>3
<1>7. CASE Call(w)
  <2>1. pc[w] = "call"
    BY <1>7 DEF Call
  <2>2. CASE infer.at = "dead"
    BY <1>1, <1>2, <1>3, <1>7, <2>1, <2>2, ReturnSafe DEF Call, Fails
  <2>3. CASE infer.at # "dead"
    <3>1. /\ conn' = [conn EXCEPT ![w] = Opened(Request(Prompt(w)))]
          /\ Goto(w, "status") /\ UNCHANGED <<mtx, dirs>>
      BY <1>7, <2>3 DEF Call
    <3>2. Shape(conn'[w])
      BY <1>1, <3>1 DEF Shape, Opened
    <3> QED BY <1>1, <1>3, <2>1, <3>1, <3>2, GoOnSafe
  <2> QED BY <2>2, <2>3
<1>8. ASSUME NEW n, CutOff(w, n), pc[w] \notin {"idle", "lock"}
      PROVE  SerialInv'
  <2>1. conn' = [conn EXCEPT ![w] = ClientCloses(@)] /\ Respond(w, "failed", None)
    BY <1>8 DEF CutOff, Fails
  <2>2. Shape(conn'[w]) /\ ~conn'[w].client
    BY <1>1, <2>1, ClientSide
  <2> QED BY <1>1, <1>3, <1>8, <2>1, <2>2, ReturnSafe
<1>9. CASE ReadStatus(w)
  <2>1. pc[w] = "status"
    BY <1>9 DEF ReadStatus
  <2>2. CASE CutOff(w, 1)
    BY <1>8, <2>1, <2>2
  <2>3. CASE ~CutOff(w, 1)
    <3>1. /\ conn' = [conn EXCEPT ![w] = ClientTakes(@, 1)]
          /\ Goto(w, IF conn[w].down[1].is = "ok" THEN "motion" ELSE "error")
          /\ UNCHANGED <<mtx, dirs>>
      BY <1>9, <2>3 DEF ReadStatus
    <3>2. Shape(conn'[w])
      BY <1>1, <3>1, ClientSide
    <3> QED BY <1>1, <1>3, <2>1, <3>1, <3>2, GoOnSafe
  <2> QED BY <2>2, <2>3
<1>10. CASE ReadError(w)
  <2>1. pc[w] = "error"
    BY <1>10 DEF ReadError
  <2>2. CASE CutOff(w, 2)
    BY <1>8, <2>1, <2>2
  <2>3. CASE ~CutOff(w, 2)
    <3>1. conn' = [conn EXCEPT ![w] = ClientCloses(@)] /\ Respond(w, "failed", None)
      BY <1>10, <2>3 DEF ReadError, Fails
    <3>2. Shape(conn'[w]) /\ ~conn'[w].client
      BY <1>1, <3>1, ClientSide
    <3> QED BY <1>1, <1>3, <2>1, <3>1, <3>2, ReturnSafe
  <2> QED BY <2>2, <2>3
<1>11. CASE ReadMotion(w)
  <2>1. pc[w] = "motion"
    BY <1>11 DEF ReadMotion
  <2>2. CASE CutOff(w, 4)
    BY <1>8, <2>1, <2>2
  <2>3. CASE ~CutOff(w, 4)
    <3>1. conn' = [conn EXCEPT ![w] = ClientCloses(@)]
      BY <1>11, <2>3 DEF ReadMotion
    <3>2. Shape(conn'[w]) /\ ~conn'[w].client
      BY <1>1, <3>1, ClientSide
    <3>3. CASE w \in Threads
      <4>1. Goto(w, "mkdir") /\ UNCHANGED <<mtx, dirs>>
        BY <1>11, <2>3, <3>3 DEF ReadMotion
      <4> QED BY <1>1, <1>3, <2>1, <3>1, <3>2, <4>1, GoOnSafe
    <3>4. CASE w \notin Threads
      <4>1. \E m : Respond(w, "ok", m)
        BY <1>11, <2>3, <3>4 DEF ReadMotion
      <4> QED BY <1>1, <3>1, <3>2, <3>4, <4>1, ReturnSafe
    <3> QED BY <3>3, <3>4
  <2> QED BY <2>2, <2>3
<1>12. CASE MakeDir(w)
  <2>1. pc[w] = "mkdir" /\ UNCHANGED conn
    BY <1>12 DEF MakeDir
  <2>2. CASE Fails(w)
    BY <1>1, <1>2, <1>3, <2>1, <2>2, ReturnSafe DEF Fails
  <2>3. CASE ~Fails(w)
    <3>1. Goto(w, "write") /\ mtx' = mtx /\ dirs' = dirs \cup {w}
      BY <1>12, <2>3 DEF MakeDir
    <3> QED BY <1>1, <1>2, <1>3, <2>1, <3>1, GoOnSafe
  <2> QED BY <2>2, <2>3
<1>13. CASE Write(w) \/ Convert(w)
  <2>1. PICK place \in {"write", "convert"}, next \in {"convert", "read"}, fault \in {"disk", "convert"} :
           UseDir(w, place, next, fault)
    BY <1>13 DEF Write, Convert
  <2>2. pc[w] = place /\ UNCHANGED conn
    BY <2>1 DEF UseDir
  <2>3. CASE Fails(w)
    BY <1>1, <1>2, <1>3, <2>2, <2>3, ReturnSafe DEF Fails
  <2>4. CASE ~Fails(w)
    <3>1. Goto(w, next) /\ mtx' = mtx /\ dirs' = dirs
      BY <2>1, <2>4 DEF UseDir
    <3> QED BY <1>1, <1>2, <1>3, <2>2, <3>1, GoOnSafe
  <2> QED BY <2>3, <2>4
<1>14. CASE ReadFile(w)
  <2>1. pc[w] = "read" /\ UNCHANGED conn
    BY <1>14 DEF ReadFile
  <2>2. \E status, m : Respond(w, status, m)
    BY <1>14 DEF ReadFile, Fails
  <2> QED BY <1>1, <1>2, <1>3, <2>1, <2>2, ReturnSafe
<1>15. CASE HangUp(w)
  <2>1. PICK sent : conn' = [conn EXCEPT ![w] = ClientCloses(SentOnly(@, sent))]
    BY <1>15 DEF HangUp
  <2>2. Shape(SentOnly(conn[w], sent))
    <3> DEFINE part == SubSeq(conn[w].up, 1, sent)
    <3>1. SentOnly(conn[w], sent) = [conn[w] EXCEPT !.up = part]
      BY DEF SentOnly
    <3> HIDE DEF part
    <3>2. Shape([conn[w] EXCEPT !.up = part])
      BY <1>1, UpChanged
    <3> QED BY <3>1, <3>2, Zenon
  <2>3. Shape(ClientCloses(SentOnly(conn[w], sent))) /\ ~ClientCloses(SentOnly(conn[w], sent)).client
    BY <2>2, ClientSide
  <2>6. Shape(conn'[w]) /\ ~conn'[w].client
    BY <1>1, <2>1, <2>3
  <2>4. w \in Clients /\ Goto(w, "idle") /\ UNCHANGED <<mtx, dirs>>
    BY <1>15 DEF HangUp
  <2>5. w \notin Threads
    BY <2>4, PipelineAssumption
  <2> QED BY <1>1, <2>1, <2>6, <2>4, <2>5, GoOnSafe
<1> QED
  BY <1>4, <1>5, <1>6, <1>7, <1>9, <1>10, <1>11, <1>12, <1>13, <1>14, <1>15 DEF AskerStep

(***************************************************************************)
(* One POST is worked on at a time, for any number of handlers and direct  *)
(* clients and under every failure.                                        *)
(***************************************************************************)
THEOREM AlwaysOneAtATime == Spec => []OneAtATime
<1>1. Init => SerialInv
  <2> SUFFICES ASSUME Init PROVE SerialInv
    OBVIOUS
  <2>1. /\ pc = [w \in Askers |-> "idle"]
        /\ conn = [w \in Askers |-> NoConnection]
        /\ dirs = {}
    BY DEF Init
  <2>2. Shapes /\ OpenInCall
    BY <2>1, NoConnectionShape DEF Shapes, OpenInCall
  <2>3. OneAtATime
    BY <2>1, NoConnectionShape DEF OneAtATime, Askers
  <2> QED BY <2>2, <2>3 DEF SerialInv
<1>2. SerialInv /\ [Next]_vars => SerialInv'
  <2> SUFFICES ASSUME SerialInv, [Next]_vars PROVE SerialInv'
    OBVIOUS
  <2>1. CASE \E w \in Askers : Ask(w) \/ AskerStep(w) \/ HangUp(w)
    BY <2>1, AskerSafe
  <2>2. CASE InferStep \/ Killed
    BY <2>2, InferMoves, ServerMoveSafe DEF SerialInv
  <2>3. CASE HiddenStep \/ FusedStops
    BY <2>3, HiddenMoves, ServerMoveSafe DEF SerialInv
  <2>4. CASE UNCHANGED vars
    BY <2>4 DEF vars, handlerVars, SerialInv, Shapes, OpenInCall, OneAtATime
  <2> QED BY <2>1, <2>2, <2>3, <2>4 DEF Next
<1>3. SerialInv => OneAtATime
  BY DEF SerialInv
<1> QED BY <1>1, <1>2, <1>3, PTL DEF Spec

-----------------------------------------------------------------------------
(* The answers *)

(* Connections with words of U on the way up and of D on the way down. *)
Conns(U, D) == [up : Seq(U), down : Seq(D), client : BOOLEAN, server : BOOLEAN]

LEMMA Rest ==
    ASSUME NEW S, NEW s \in Seq(S), NEW n \in Nat
    PROVE  /\ SubSeq(s, n + 1, Len(s)) \in Seq(S)
           /\ SubSeq(s, 1, n) \in Seq(S) \/ n > Len(s)
           /\ n <= Len(s) => Len(SubSeq(s, n + 1, Len(s))) = Len(s) - n
           /\ n <= Len(s) => \A i \in 1 .. Len(s) - n : SubSeq(s, n + 1, Len(s))[i] = s[i + n]
<1>1. Len(s) \in Nat /\ \A i \in 1 .. Len(s) : s[i] \in S
  OBVIOUS
<1>2. \A i \in n + 1 .. Len(s) : s[i] \in S
  BY <1>1
<1>3. /\ SubSeq(s, n + 1, Len(s)) \in Seq(S)
      /\ Len(SubSeq(s, n + 1, Len(s))) = IF n + 1 <= Len(s) THEN Len(s) - (n + 1) + 1 ELSE 0
      /\ \A i \in 1 .. Len(s) - (n + 1) + 1 :
           SubSeq(s, n + 1, Len(s))[i] = s[n + 1 + i - 1]
  <2>1. n + 1 \in Int /\ Len(s) \in Int
    BY <1>1
  <2> QED BY ONLY <1>2, <2>1, SubSeqProperties
<1>4. n <= Len(s) => SubSeq(s, 1, n) \in Seq(S)
  <2>1. n <= Len(s) => \A i \in 1 .. n : s[i] \in S
    BY <1>1
  <2> QED BY <2>1, SubSeqProperties
<1> QED BY <1>1, <1>3, <1>4

LEMMA ConnTypes ==
    ASSUME NEW U, NEW D, NEW c \in Conns(U, D)
    PROVE  /\ ClientCloses(c) \in Conns(U, D)
           /\ ServerCloses(c) \in Conns(U, D)
           /\ ClientAtRest(c) \in Conns(U, D)
           /\ \A n \in Nat : ClientTakes(c, n) \in Conns(U, D)
           /\ \A n \in Nat : ServerTakes(c, n) \in Conns(U, D)
           /\ \A n \in 0 .. Len(c.up) : SentOnly(c, n) \in Conns(U, D)
           /\ \A s \in Seq(D) : ServerSends(c, s) \in Conns(U, D)
<1> USE DEF Conns
<1>0. NoConnection \in Conns(U, D)
  BY DEF NoConnection
<1>a. [c EXCEPT !.client = FALSE, !.down = <<>>] \in Conns(U, D)
  <2>1. <<>> \in Seq(D) /\ FALSE \in BOOLEAN
    OBVIOUS
  <2> QED BY <2>1
<1>b. [c EXCEPT !.server = FALSE] \in Conns(U, D)
  <2>1. FALSE \in BOOLEAN
    OBVIOUS
  <2> QED BY <2>1
<1>c. ClientAtRest(c) \in Conns(U, D)
  <2>1. <<>> \in Seq(U) /\ <<>> \in Seq(D)
    OBVIOUS
  <2> QED BY <2>1 DEF ClientAtRest
<1> HIDE DEF Conns
<1>1. ClientCloses(c) \in Conns(U, D)
  BY <1>0, <1>a, <1>b, Zenon DEF ClientCloses
<1>2. ServerCloses(c) \in Conns(U, D)
  BY <1>0, <1>a, <1>b, Zenon DEF ServerCloses
<1> USE DEF Conns
<1>3. ASSUME NEW n \in Nat
      PROVE  ClientTakes(c, n) \in Conns(U, D)
  <2> DEFINE rest == SubSeq(c.down, n + 1, Len(c.down))
  <2>1. rest \in Seq(D)
    BY Rest
  <2> HIDE DEF rest
  <2>2. [c EXCEPT !.down = rest] \in Conns(U, D)
    BY <2>1
  <2> QED BY <2>2 DEF ClientTakes, rest
<1>4. ASSUME NEW n \in Nat
      PROVE  ServerTakes(c, n) \in Conns(U, D)
  <2> DEFINE rest == SubSeq(c.up, n + 1, Len(c.up))
  <2>1. rest \in Seq(U)
    BY Rest
  <2> HIDE DEF rest
  <2>2. [c EXCEPT !.up = rest] \in Conns(U, D)
    BY <2>1
  <2> QED BY <2>2 DEF ServerTakes, rest
<1>5. ASSUME NEW n \in 0 .. Len(c.up)
      PROVE  SentOnly(c, n) \in Conns(U, D)
  <2> DEFINE part == SubSeq(c.up, 1, n)
  <2>1. part \in Seq(U)
    <3>1. Len(c.up) \in Nat
      OBVIOUS
    <3>2. n \in Nat /\ ~(n > Len(c.up))
      BY <3>1
    <3> QED BY <3>2, Rest
  <2> HIDE DEF part
  <2>2. [c EXCEPT !.up = part] \in Conns(U, D)
    BY <2>1
  <2> QED BY <2>2 DEF SentOnly, part
<1>6. ASSUME NEW s \in Seq(D)
      PROVE  ServerSends(c, s) \in Conns(U, D)
  <2>1. c.down \o s \in Seq(D)
    BY ConcatProperties
  <2> DEFINE all == c.down \o s
  <2> HIDE DEF all
  <2>2. [c EXCEPT !.down = all] \in Conns(U, D)
    BY <2>1 DEF all
  <2> HIDE DEF Conns
  <2> QED BY <2>2, Zenon DEF ServerSends, all
<1> QED BY <1>c, <1>1, <1>2, <1>3, <1>4, <1>5, <1>6

-----------------------------------------------------------------------------
(* Types, with what they rest on. *)

InferAt == {"accept", "len", "rest", "fetch", "head", "vector", "infer",
            "done", "failed", "sendmotion", "senderror", "dead"}
Serving == InferAt \ {"accept", "dead"}

(* A client is never where only handlers go; t2m_infer serves somebody. *)
PlacesInv ==
    /\ \A w \in Clients : pc[w] \in {"idle", "call", "status", "error", "motion"}
    /\ IF infer.at \in Serving THEN infer.for \in Askers ELSE infer.for = None

TypeInv == TypeOK /\ PlacesInv

LEMMA WordTypes ==
    /\ \A is \in {"len", "prompt", "duration", "seed", "ok", "error", "shape",
                  "motion", "timings", "msg", "vector", "ms"} :
         \A p \in Prompts \cup {None} : Word(is, p) \in Words
    /\ \A p \in Prompts \cup {None} :
         /\ Request(p) \in Seq(Words)
         /\ HiddenRequest(p) \in Seq(Words)
         /\ MotionReply(p) \in Seq(Words)
         /\ VectorReply(p) \in Seq(Words)
    /\ ErrorReply \in Seq(Words)
    /\ HiddenError \in Seq(Words)
<1>1. \A is \in {"len", "prompt", "duration", "seed", "ok", "error", "shape",
                 "motion", "timings", "msg", "vector", "ms"} :
        \A p \in Prompts \cup {None} : Word(is, p) \in Words
  BY DEF Word, Words
<1>2. ASSUME NEW p \in Prompts \cup {None}
      PROVE  /\ Request(p) \in Seq(Words) /\ HiddenRequest(p) \in Seq(Words)
             /\ MotionReply(p) \in Seq(Words) /\ VectorReply(p) \in Seq(Words)
  <2>1. /\ <<Word("len", p)>> \in Seq(Words)
        /\ <<Word("duration", p), Word("seed", p)>> \in Seq(Words)
    BY <1>1
  <2>2. Bytes(p) \in Seq(Words)
    BY <1>1 DEF Bytes
  <2>3. HiddenRequest(p) \in Seq(Words)
    BY <2>1, <2>2, ConcatProperties DEF HiddenRequest
  <2>4. Request(p) \in Seq(Words)
    <3>1. <<Word("len", p)>> \o Bytes(p) \in Seq(Words)
      BY <2>1, <2>2, ConcatProperties
    <3> QED BY <2>1, <3>1, ConcatProperties DEF Request
  <2>5. MotionReply(p) \in Seq(Words) /\ VectorReply(p) \in Seq(Words)
    BY <1>1 DEF MotionReply, VectorReply
  <2> QED BY <2>3, <2>4, <2>5
<1>3. ErrorReply \in Seq(Words) /\ HiddenError \in Seq(Words)
  BY <1>1 DEF ErrorReply, HiddenError
<1> QED BY <1>1, <1>2, <1>3

LEMMA PromptTypes == TypeOK => \A w \in Askers : Prompt(w) \in Prompts
  BY DEF TypeOK, Prompt, Prompts

(* One asker moves. *)
LEMMA AskerTypes ==
    ASSUME TypeInv, NEW w \in Askers, Ask(w) \/ AskerStep(w) \/ HangUp(w)
    PROVE  TypeInv'
<1> DEFINE C == Connections(Words)
<1>0. /\ pc \in [Askers -> {"idle", "lock", "parse", "call", "status", "error",
                            "motion", "mkdir", "write", "convert", "read"}]
      /\ class \in [Askers -> Classes]
      /\ answer \in [Askers -> Answers \cup {None}]
      /\ clip \in [Askers -> Prompts \cup {None}]
      /\ mtx \in Threads \cup {None}
      /\ dirs \subseteq Threads
      /\ conn \in [Askers -> C]
  BY DEF TypeInv, TypeOK
<1>a. C = Conns(Words, Words)
  BY DEF Connections, Conns
<1>b. conn[w] \in C
  BY <1>0
<1>c. /\ \A n \in Nat : ClientTakes(conn[w], n) \in C
      /\ ClientCloses(conn[w]) \in C
      /\ \A n \in 0 .. Len(conn[w].up) : ClientCloses(SentOnly(conn[w], n)) \in C
  BY <1>a, <1>b, ConnTypes
<1>d. conn[w].down \in Seq(Words) /\ conn[w].up \in Seq(Words)
  BY <1>b DEF Connections
<1> HIDE DEF C
<1> DEFINE Moves(place) ==
             /\ Goto(w, place) /\ place \in {"call", "status", "error", "motion"} \cup
                  (IF w \in Threads THEN {"lock", "parse", "mkdir", "write", "convert", "read"}
                   ELSE {"idle"})
             /\ class' \in [Askers -> Classes]
             /\ answer' \in [Askers -> Answers \cup {None}]
             /\ clip' \in [Askers -> Prompts \cup {None}]
             /\ mtx' \in Threads \cup {None}
             /\ dirs' \subseteq Threads
           Returns == \E status \in {"ok", "failed", "refused"}, m \in Prompts \cup {None} :
                        Respond(w, status, m)
<1>1. ASSUME \/ Returns
             \/ \E place : Moves(place),
             conn' \in [Askers -> C],
             UNCHANGED <<link, hidden>>,
             \/ UNCHANGED infer
             \/ infer' = [infer EXCEPT !.queue = Append(@, w)]
      PROVE  TypeInv'
  <2>1. /\ pc' \in [Askers -> {"idle", "lock", "parse", "call", "status", "error",
                            "motion", "mkdir", "write", "convert", "read"}]
        /\ \A v \in Clients : pc'[v] \in {"idle", "call", "status", "error", "motion"}
    BY <1>0, <1>1, PipelineAssumption DEF Respond, Goto, TypeInv, PlacesInv, Askers
  <2>2. /\ class' \in [Askers -> Classes]
        /\ answer' \in [Askers -> Answers \cup {None}]
        /\ clip' \in [Askers -> Prompts \cup {None}]
        /\ mtx' \in Threads \cup {None}
        /\ dirs' \subseteq Threads
    BY <1>0, <1>1 DEF Respond, Answers
  <2>3. infer' \in [at : InferAt, for : Askers \cup {None}, prompt : Prompts \cup {None},
                    vector : Prompts \cup {None}, slot : Slots,
                    queue : Seq(Askers)]
        /\ infer'.at = infer.at /\ infer'.for = infer.for
    <3>1. Append(infer.queue, w) \in Seq(Askers)
      BY DEF TypeInv, TypeOK
    <3> QED BY <1>1, <3>1 DEF TypeInv, TypeOK, InferAt
  <2>4. TypeOK'
    BY <1>1, <2>1, <2>2, <2>3 DEF TypeInv, TypeOK, C, InferAt
  <2>5. PlacesInv'
    BY <2>1, <2>3 DEF TypeInv, PlacesInv
  <2> QED BY <2>4, <2>5 DEF TypeInv
<1>2. ASSUME NEW x \in C, conn' = [conn EXCEPT ![w] = x]
      PROVE  conn' \in [Askers -> C]
  BY <1>0, <1>2
<1>3. Fails(w) => Returns
  BY DEF Fails
<1> HIDE DEF Moves, Returns
<1>4. CASE Ask(w)
  <2>1. class' \in [Askers -> Classes] /\ answer' \in [Askers -> Answers \cup {None}]
    BY <1>0, <1>4, PipelineAssumption DEF Ask
  <2>2. \E place : Moves(place)
    BY <1>0, <1>4, <2>1 DEF Ask, Moves
  <2> QED BY <1>0, <1>1, <1>4, <2>2 DEF Ask
<1>5. CASE Lock(w)
  <2>1. pc[w] = "lock" /\ UNCHANGED <<class, answer, clip, dirs, conn, infer, link, hidden>>
        /\ Goto(w, "parse") /\ mtx' = w
    BY <1>5 DEF Lock
  <2>2. w \in Threads
    BY <2>1 DEF TypeInv, PlacesInv, Askers
  <2>3. Moves("parse")
    BY <1>0, <2>1, <2>2 DEF Moves
  <2> QED BY <1>0, <1>1, <2>1, <2>3
<1>6. CASE Parse(w)
  <2>1. pc[w] = "parse" /\ UNCHANGED <<conn, infer, link, hidden>>
    BY <1>6 DEF Parse
  <2>2. Returns \/ Moves("call")
    BY <1>0, <1>6 DEF Parse, Returns, Moves
  <2> QED BY <1>0, <1>1, <2>1, <2>2
<1>7. CASE Call(w)
  <2>1. CASE infer.at = "dead"
    BY <1>0, <1>1, <1>3, <1>7, <2>1 DEF Call
  <2>2. CASE infer.at # "dead"
    <3>1. /\ conn' = [conn EXCEPT ![w] = Opened(Request(Prompt(w)))]
          /\ infer' = [infer EXCEPT !.queue = Append(@, w)]
          /\ Goto(w, "status")
          /\ UNCHANGED <<class, answer, clip, mtx, dirs, link, hidden>>
      BY <1>7, <2>2 DEF Call
    <3>2. Opened(Request(Prompt(w))) \in C
      <4>1. Request(Prompt(w)) \in Seq(Words) /\ <<>> \in Seq(Words)
        BY WordTypes, PromptTypes DEF TypeInv
      <4> HIDE DEF Request
      <4> QED BY <4>1 DEF Opened, C, Connections
    <3>3. Moves("status")
      BY <1>0, <3>1 DEF Moves
    <3> QED BY <1>1, <1>2, <3>1, <3>2, <3>3
  <2> QED BY <2>1, <2>2
<1>8. ASSUME NEW n, CutOff(w, n)
      PROVE  TypeInv'
  <2>1. Returns /\ conn' = [conn EXCEPT ![w] = ClientCloses(@)]
        /\ UNCHANGED <<infer, link, hidden>>
    BY <1>3, <1>8 DEF CutOff
  <2> QED BY <1>1, <1>2, <1>c, <2>1
<1>9. CASE ReadStatus(w)
  <2>1. CASE CutOff(w, 1)
    BY <1>8, <2>1
  <2>2. CASE ~CutOff(w, 1)
    <3>1. /\ conn' = [conn EXCEPT ![w] = ClientTakes(@, 1)]
          /\ Goto(w, IF conn[w].down[1].is = "ok" THEN "motion" ELSE "error")
          /\ UNCHANGED <<class, answer, clip, mtx, dirs, infer, link, hidden>>
      BY <1>9, <2>2 DEF ReadStatus
    <3>2. Moves(IF conn[w].down[1].is = "ok" THEN "motion" ELSE "error")
      BY <1>0, <3>1 DEF Moves
    <3> QED BY <1>1, <1>2, <1>c, <3>1, <3>2
  <2> QED BY <2>1, <2>2
<1>10. CASE ReadError(w)
  <2>1. CASE CutOff(w, 2)
    BY <1>8, <2>1
  <2>2. CASE ~CutOff(w, 2)
    <3>1. /\ conn' = [conn EXCEPT ![w] = ClientCloses(@)] /\ Returns
          /\ UNCHANGED <<infer, link, hidden>>
      BY <1>3, <1>10, <2>2 DEF ReadError
    <3> QED BY <1>1, <1>2, <1>c, <3>1
  <2> QED BY <2>1, <2>2
<1>11. CASE ReadMotion(w)
  <2>1. CASE CutOff(w, 4)
    BY <1>8, <2>1
  <2>2. CASE ~CutOff(w, 4)
    <3> DEFINE m == conn[w].down[3].of
    <3>1. /\ conn' = [conn EXCEPT ![w] = ClientCloses(@)]
          /\ UNCHANGED <<infer, link, hidden>>
          /\ Len(conn[w].down) >= 4
          /\ IF w \in Threads
             THEN /\ clip' = [clip EXCEPT ![w] = m]
                  /\ Goto(w, "mkdir")
                  /\ UNCHANGED <<class, answer, mtx, dirs>>
             ELSE Respond(w, "ok", m)
      BY <1>11, <2>2 DEF ReadMotion, ClientHas
    <3>2. m \in Prompts \cup {None}
      <4>1. conn[w].down[3] \in Words
        BY <1>d, <3>1
      <4> QED BY <4>1 DEF Words
    <3> HIDE DEF m
    <3>3. Returns \/ Moves("mkdir")
      BY <1>0, <3>1, <3>2 DEF Returns, Moves
    <3> QED BY <1>1, <1>2, <1>c, <3>1, <3>3
  <2> QED BY <2>1, <2>2
<1>12. CASE MakeDir(w)
  <2>1. pc[w] = "mkdir" /\ UNCHANGED <<conn, infer, link, hidden>>
    BY <1>12 DEF MakeDir
  <2>2. w \in Threads
    BY <2>1 DEF TypeInv, PlacesInv, Askers
  <2>3. Returns \/ Moves("write")
    BY <1>0, <1>3, <1>12, <2>2 DEF MakeDir, Moves
  <2> QED BY <1>0, <1>1, <2>1, <2>3
<1>13. CASE Write(w) \/ Convert(w)
  <2>1. pc[w] \in {"write", "convert"} /\ UNCHANGED <<conn, infer, link, hidden>>
    BY <1>13 DEF Write, Convert, UseDir
  <2>2. w \in Threads
    BY <2>1 DEF TypeInv, PlacesInv, Askers
  <2>3. Returns \/ Moves("convert") \/ Moves("read")
    BY <1>0, <1>3, <1>13, <2>2 DEF Write, Convert, UseDir, Moves
  <2> QED BY <1>0, <1>1, <2>1, <2>3
<1>14. CASE ReadFile(w)
  <2>1. Returns /\ UNCHANGED <<conn, infer, link, hidden>>
    <3>1. clip[w] \in Prompts \cup {None}
      BY <1>0
    <3> QED BY <1>3, <1>14, <3>1 DEF ReadFile, Returns
  <2> QED BY <1>0, <1>1, <2>1
<1>15. CASE HangUp(w)
  <2>1. /\ \E n \in 0 .. Len(conn[w].up) :
             conn' = [conn EXCEPT ![w] = ClientCloses(SentOnly(@, n))]
        /\ w \in Clients /\ Goto(w, "idle")
        /\ UNCHANGED <<class, answer, clip, mtx, dirs, infer, link, hidden>>
    BY <1>15 DEF HangUp
  <2>2. Moves("idle")
    BY <1>0, <2>1, PipelineAssumption DEF Moves
  <2> QED BY <1>1, <1>2, <1>c, <2>1, <2>2
<1> QED
  BY <1>4, <1>5, <1>6, <1>7, <1>9, <1>10, <1>11, <1>12, <1>13, <1>14, <1>15 DEF AskerStep

(* t2m_infer moves. *)
LEMMA InferTypes ==
    ASSUME TypeInv, InferStep \/ Killed
    PROVE  TypeInv'
<1> DEFINE C == Connections(Words)
           I == [at : InferAt, for : Askers \cup {None}, prompt : Prompts \cup {None},
                 vector : Prompts \cup {None}, slot : Slots,
                 queue : Seq(Askers)]
<1>0. /\ conn \in [Askers -> C] /\ link \in [Slots -> C] /\ infer \in I
      /\ infer.slot \in Slots /\ infer.queue \in Seq(Askers)
  BY DEF TypeInv, TypeOK, InferAt
<1>a. C = Conns(Words, Words)
  BY DEF Connections, Conns
<1>b. ASSUME NEW c \in C
      PROVE  /\ \A n \in Nat : ClientTakes(c, n) \in C /\ ServerTakes(c, n) \in C
             /\ ClientCloses(c) \in C /\ ServerCloses(c) \in C /\ ClientAtRest(c) \in C
             /\ \A s \in Seq(Words) : ServerSends(c, s) \in C
             /\ c.up \in Seq(Words) /\ c.down \in Seq(Words)
  <2>1. c \in Conns(Words, Words)
    BY <1>a
  <2>2. c.up \in Seq(Words) /\ c.down \in Seq(Words)
    BY <2>1 DEF Conns
  <2> QED BY <1>a, <2>1, <2>2, ConnTypes
<1>c. ASSUME NEW s \in Seq(Words), NEW k \in 1 .. Len(s)
      PROVE  s[k].of \in Prompts \cup {None}
  <2>1. s[k] \in Words
    OBVIOUS
  <2> QED BY <2>1 DEF Words
<1>d. /\ infer.at \in Serving => infer.for \in Askers /\ conn[infer.for] \in C
        /\ link[infer.slot] \in C
      /\ infer.at \notin Serving => infer.for = None
  BY <1>0 DEF TypeInv, PlacesInv
<1> HIDE DEF C
<1>1. ASSUME UNCHANGED <<handlerVars, hidden>>,
             conn' \in [Askers -> C], link' \in [Slots -> C], infer' \in I,
             PlacesInv'
      PROVE  TypeInv'
  BY <1>1 DEF TypeInv, TypeOK, C, InferAt, handlerVars
<1>2. ASSUME UNCHANGED pc,
             IF infer'.at \in Serving THEN infer'.for \in Askers ELSE infer'.for = None
      PROVE  PlacesInv'
  BY <1>2 DEF TypeInv, PlacesInv
<1>3. ASSUME NEW x \in C, infer.at \in Serving, conn' = [conn EXCEPT ![infer.for] = x]
      PROVE  conn' \in [Askers -> C]
  BY <1>0, <1>3
<1>4. ASSUME NEW x \in C, NEW i \in Slots, link' = [link EXCEPT ![i] = x]
      PROVE  link' \in [Slots -> C]
  BY <1>0, <1>4
<1>5. NextClient(infer) \in I /\ NextClient(infer).at = "accept" /\ NextClient(infer).for = None
  BY <1>0 DEF NextClient, InferAt
<1>6. CASE Accept
  <2>1. /\ infer' = [infer EXCEPT !.at = "len", !.for = Head(infer.queue), !.queue = Tail(@)]
        /\ infer.queue # <<>> /\ UNCHANGED <<handlerVars, conn, link, hidden>>
    BY <1>6 DEF Accept
  <2>2. Head(infer.queue) \in Askers /\ Tail(infer.queue) \in Seq(Askers)
    BY <1>0, <2>1
  <2>3. infer' \in I /\ infer'.at = "len" /\ infer'.for \in Askers
    BY <1>0, <2>1, <2>2 DEF InferAt
  <2>4. PlacesInv'
    BY <1>2, <2>1, <2>3 DEF handlerVars, Serving, InferAt
  <2> QED BY <1>0, <1>1, <2>1, <2>3, <2>4
<1>7. ASSUME infer.at \in Serving, infer'.at \in Serving,
             infer' \in I, infer'.for = infer.for,
             UNCHANGED <<handlerVars, hidden>>,
             conn' \in [Askers -> C], link' \in [Slots -> C]
      PROVE  TypeInv'
  <2>1. PlacesInv'
    BY <1>2, <1>7, <1>d DEF handlerVars
  <2> QED BY <1>1, <1>7, <2>1
<1>8. ASSUME NEW n, ClientGone(n), infer.at \in Serving
      PROVE  TypeInv'
  <2>1. /\ conn' = [conn EXCEPT ![infer.for] = ServerCloses(@)]
        /\ infer' = NextClient(infer) /\ UNCHANGED <<handlerVars, link, hidden>>
    BY <1>8 DEF ClientGone
  <2>2. conn' \in [Askers -> C]
    BY <1>0, <1>3, <1>8, <1>b, <1>d, <2>1
  <2>3. PlacesInv'
    BY <1>2, <1>5, <2>1 DEF handlerVars, Serving
  <2> QED BY <1>0, <1>1, <1>5, <2>1, <2>2, <2>3
<1>9. infer.prompt \in Prompts \cup {None} /\ infer.vector \in Prompts \cup {None}
  BY <1>0
<1>10. CASE ReadLen
  <2>1. infer.at = "len" /\ infer.at \in Serving
    BY <1>10 DEF ReadLen, Serving, InferAt
  <2>2. CASE ClientGone(1)
    BY <1>8, <2>1, <2>2
  <2>3. CASE ~ClientGone(1)
    <3> DEFINE p == conn[infer.for].up[1].of
    <3>1. /\ ServerHas(conn[infer.for], 1)
          /\ IF p.class = "huge" THEN infer' = [infer EXCEPT !.at = "failed"]
             ELSE infer' = [infer EXCEPT !.at = "rest", !.prompt = p]
          /\ conn' = [conn EXCEPT ![infer.for] = ServerTakes(@, 1)]
          /\ UNCHANGED <<handlerVars, link, hidden>>
      BY <1>10, <2>3 DEF ReadLen, At
    <3>2. p \in Prompts \cup {None}
      <4>1. conn[infer.for].up \in Seq(Words)
        BY <1>b, <1>d, <2>1
      <4>2. 1 \in 1 .. Len(conn[infer.for].up)
        BY <3>1, <4>1 DEF ServerHas
      <4> QED BY <1>c, <4>1, <4>2
    <3>3. conn' \in [Askers -> C]
      BY <1>3, <1>b, <1>d, <2>1, <3>1
    <3> HIDE DEF p
    <3>4. /\ infer' \in I /\ infer'.at \in {"failed", "rest"}
          /\ infer'.for = infer.for
      <4>1. CASE p.class = "huge"
        <5>1. infer' = [infer EXCEPT !.at = "failed"]
          BY <3>1, <4>1
        <5> QED BY <1>0, <5>1 DEF InferAt
      <4>2. CASE p.class # "huge"
        <5>1. infer' = [infer EXCEPT !.at = "rest", !.prompt = p]
          BY <3>1, <4>2
        <5> QED BY <1>0, <3>2, <5>1 DEF InferAt
      <4> QED BY <4>1, <4>2
    <3> HIDE DEF I
    <3> QED BY <1>0, <1>7, <2>1, <3>1, <3>3, <3>4 DEF Serving, InferAt
  <2> QED BY <2>2, <2>3
<1>11. CASE ReadRest
  <2> DEFINE n == Len(Bytes(infer.prompt)) + 2
  <2>1. infer.at = "rest" /\ infer.at \in Serving /\ n \in Nat /\ n >= 1
    <3>1. infer.at = "rest"
      BY <1>11 DEF ReadRest
    <3>2. Len(Bytes(infer.prompt)) \in Nat
      BY DEF Bytes
    <3> QED BY <3>1, <3>2 DEF Serving, InferAt
  <2>2. CASE ClientGone(n)
    BY <1>8, <2>1, <2>2
  <2>3. CASE ~ClientGone(n)
    <3> DEFINE p == conn[infer.for].up[1].of
    <3>1. /\ Len(conn[infer.for].up) >= n
          /\ infer' = [infer EXCEPT !.at = "fetch", !.prompt = p]
          /\ conn' = [conn EXCEPT ![infer.for] = ServerTakes(@, n)]
          /\ UNCHANGED <<handlerVars, link, hidden>>
      BY <1>11, <2>3 DEF ReadRest, ServerHas
    <3> HIDE DEF n
    <3>2. p \in Prompts \cup {None}
      <4>1. 1 \in 1 .. Len(conn[infer.for].up)
        BY <2>1, <3>1, <1>b, <1>d
      <4> QED BY <1>b, <1>c, <1>d, <2>1, <4>1
    <3>3. conn' \in [Askers -> C]
      BY <1>3, <1>b, <1>d, <2>1, <3>1
    <3> HIDE DEF p
    <3>4. /\ infer' \in I /\ infer'.at = "fetch"
          /\ infer'.for = infer.for
      BY <1>0, <3>1, <3>2 DEF InferAt
    <3> HIDE DEF I
    <3> QED BY <1>0, <1>7, <2>1, <3>1, <3>3, <3>4 DEF Serving, InferAt
  <2> QED BY <2>2, <2>3
<1>12. CASE Fetch
  <2>1. infer.at = "fetch" /\ UNCHANGED <<handlerVars, conn>>
    BY <1>12 DEF Fetch
  <2>2. CASE infer' = [infer EXCEPT !.at = "failed"] /\ UNCHANGED <<link, hidden>>
    <3>1. infer' \in I /\ infer'.at = "failed" /\ infer'.for = infer.for
      BY <1>0, <2>2 DEF InferAt
    <3> HIDE DEF I
    <3> QED BY <1>0, <1>7, <2>1, <2>2, <3>1 DEF Serving, InferAt
  <2>3. ASSUME NEW i \in Slots,
               link' = [link EXCEPT ![i] = Opened(HiddenRequest(infer.prompt))],
               infer' = [infer EXCEPT !.at = "head", !.slot = i],
               hidden' = [hidden EXCEPT !.queue = Append(@, i)]
        PROVE  TypeInv'
    <3>1. link' \in [Slots -> C]
      <4>1. HiddenRequest(infer.prompt) \in Seq(Words) /\ <<>> \in Seq(Words)
        BY <1>9, WordTypes, EmptySeq
      <4> HIDE DEF HiddenRequest
      <4>2. Opened(HiddenRequest(infer.prompt)) \in C
        BY <4>1 DEF Opened, C, Connections
      <4> QED BY <1>4, <2>3, <4>2
    <3>2. infer' \in I /\ infer'.at = "head" /\ infer'.for = infer.for
      BY <1>0, <2>3 DEF InferAt
    <3>3. hidden' \in [at : {"accept", "read", "extract", "dead"}, on : Slots,
                       prompt : Prompts \cup {None}, vector : Prompts \cup {None},
                       queue : Seq(Slots)]
      <4>1. Append(hidden.queue, i) \in Seq(Slots)
        BY <2>3 DEF TypeInv, TypeOK
      <4> QED BY <2>3, <4>1 DEF TypeInv, TypeOK
    <3>4. PlacesInv'
      BY <1>2, <1>d, <2>1, <3>2 DEF handlerVars, Serving, InferAt
    <3>5. TypeOK'
      BY <2>1, <3>1, <3>2, <3>3 DEF TypeInv, TypeOK, C, InferAt, handlerVars
    <3> QED BY <3>4, <3>5 DEF TypeInv
  <2> QED BY <1>12, <2>2, <2>3 DEF Fetch, At
<1>13. ASSUME NEW n, FetchCutOff(n), infer.at \in Serving
      PROVE  TypeInv'
  <2>1. /\ link' = [link EXCEPT ![infer.slot] = ClientAtRest(@)]
        /\ infer' = [infer EXCEPT !.at = "failed"]
        /\ UNCHANGED <<handlerVars, conn, hidden>>
    BY <1>13 DEF FetchCutOff, At
  <2>2. link' \in [Slots -> C]
    BY <1>0, <1>4, <1>b, <1>d, <2>1
  <2>3. infer' \in I /\ infer'.at = "failed" /\ infer'.for = infer.for
    BY <1>0, <2>1 DEF InferAt
  <2> HIDE DEF I
  <2> QED BY <1>0, <1>7, <1>13, <2>1, <2>2, <2>3 DEF Serving, InferAt
<1>14. CASE ReadHead
  <2>1. infer.at = "head" /\ infer.at \in Serving /\ {"vector", "failed"} \subseteq Serving
    BY <1>14 DEF ReadHead, Serving, InferAt
  <2>2. CASE FetchCutOff(3)
    BY <1>13, <2>1, <2>2
  <2>3. CASE ~FetchCutOff(3)
    <3>1. /\ \/ /\ link' = [link EXCEPT ![infer.slot] = ClientTakes(@, 3)]
                /\ infer' = [infer EXCEPT !.at = "vector"]
             \/ /\ link' = [link EXCEPT ![infer.slot] = ClientCloses(@)]
                /\ infer' = [infer EXCEPT !.at = "failed"]
          /\ UNCHANGED <<handlerVars, conn, hidden>>
      BY <1>14, <2>3 DEF ReadHead, At
    <3>2. link' \in [Slots -> C]
      BY <1>0, <1>4, <1>b, <1>d, <3>1
    <3>3. /\ infer' \in I /\ infer'.at \in {"vector", "failed"}
          /\ infer'.for = infer.for
      BY <1>0, <3>1 DEF InferAt
    <3> HIDE DEF I
    <3> QED BY <1>0, <1>7, <2>1, <3>1, <3>2, <3>3
  <2> QED BY <2>2, <2>3
<1>15. CASE ReadVector
  <2>1. infer.at = "vector" /\ infer.at \in Serving /\ "infer" \in Serving
    BY <1>15 DEF ReadVector, Serving, InferAt
  <2>2. CASE FetchCutOff(2)
    BY <1>13, <2>1, <2>2
  <2>3. CASE ~FetchCutOff(2)
    <3> DEFINE v == link[infer.slot].down[1].of
    <3>1. /\ Len(link[infer.slot].down) >= 2
          /\ link' = [link EXCEPT ![infer.slot] = ClientCloses(@)]
          /\ infer' = [infer EXCEPT !.at = "infer", !.vector = v]
          /\ UNCHANGED <<handlerVars, conn, hidden>>
      BY <1>15, <2>3 DEF ReadVector, ClientHas
    <3>2. v \in Prompts \cup {None}
      <4>1. link[infer.slot].down \in Seq(Words)
        BY <1>b, <1>d, <2>1
      <4>2. 1 \in 1 .. Len(link[infer.slot].down)
        BY <3>1, <4>1
      <4> QED BY <1>c, <4>1, <4>2
    <3>3. link' \in [Slots -> C]
      BY <1>0, <1>4, <1>b, <1>d, <3>1
    <3> HIDE DEF v
    <3>4. /\ infer' \in I /\ infer'.at = "infer"
          /\ infer'.for = infer.for
      BY <1>0, <3>1, <3>2 DEF InferAt
    <3> HIDE DEF I
    <3> QED BY <1>0, <1>7, <2>1, <3>1, <3>3, <3>4
  <2> QED BY <2>2, <2>3
<1>16. CASE Infer
  <2>1. infer.at \in Serving /\ {"done", "failed"} \subseteq Serving
    BY <1>16 DEF Infer, Serving, InferAt
  <2>2. /\ \E place \in {"done", "failed"} : infer' = [infer EXCEPT !.at = place]
        /\ UNCHANGED <<handlerVars, conn, link, hidden>>
    BY <1>16 DEF Infer, At
  <2>3. /\ infer' \in I /\ infer'.at \in {"done", "failed"}
        /\ infer'.for = infer.for
    BY <1>0, <2>2 DEF InferAt
  <2> HIDE DEF I
  <2> QED BY <1>0, <1>7, <2>1, <2>2, <2>3
<1>17. CASE SendStatus
  <2>1. infer.at \in Serving /\ {"sendmotion", "senderror"} \subseteq Serving
    BY <1>17 DEF SendStatus, Serving, InferAt
  <2>2. PICK is \in {"ok", "error"}, place \in {"sendmotion", "senderror"} :
          /\ conn' = [conn EXCEPT ![infer.for] = ServerSends(@, <<Word(is, None)>>)]
          /\ infer' = [infer EXCEPT !.at = place]
          /\ UNCHANGED <<handlerVars, link, hidden>>
    BY <1>17 DEF SendStatus, At
  <2>3. conn' \in [Askers -> C]
    <3>1. <<Word(is, None)>> \in Seq(Words)
      BY WordTypes
    <3> QED BY <1>3, <1>b, <1>d, <2>1, <2>2, <3>1
  <2>4. /\ infer' \in I /\ infer'.at \in {"sendmotion", "senderror"}
        /\ infer'.for = infer.for
    BY <1>0, <2>2 DEF InferAt
  <2> HIDE DEF I
  <2> QED BY <1>0, <1>7, <2>1, <2>2, <2>3, <2>4
<1>18. CASE SendRest
  <2>1. infer.at \in Serving
    BY <1>18 DEF SendRest, Serving, InferAt
  <2>2. PICK s \in Seq(Words) :
          /\ conn' = [conn EXCEPT ![infer.for] = ServerCloses(ServerSends(@, s))]
          /\ infer' = NextClient(infer)
          /\ UNCHANGED <<handlerVars, link, hidden>>
    <3>1. MotionReply(infer.vector) \in Seq(Words) /\ ErrorReply \in Seq(Words)
      BY <1>9, WordTypes
    <3> QED BY <1>18, <3>1 DEF SendRest
  <2>3. conn' \in [Askers -> C]
    BY <1>3, <1>b, <1>d, <2>1, <2>2
  <2>4. PlacesInv'
    BY <1>2, <1>5, <2>2 DEF handlerVars, Serving
  <2> QED BY <1>0, <1>1, <1>5, <2>2, <2>3, <2>4
<1>19. ASSUME InferDies
      PROVE  TypeInv'
  <2>1. conn' \in [Askers -> C]
    BY <1>0, <1>19, <1>b DEF InferDies
  <2>2. link' \in [Slots -> C]
    BY <1>0, <1>19, <1>b DEF InferDies
  <2>3. infer' \in I /\ infer'.at = "dead" /\ infer'.for = None
    <3>1. infer' = [NextClient(infer) EXCEPT !.at = "dead", !.queue = <<>>]
      BY <1>19 DEF InferDies
    <3> DEFINE i == NextClient(infer)
    <3>2. i \in I /\ i.for = None /\ infer' = [i EXCEPT !.at = "dead", !.queue = <<>>]
      BY <1>5, <3>1
    <3>3. <<>> \in Seq(Askers)
      BY EmptySeq
    <3> HIDE DEF i
    <3> QED BY <3>2, <3>3 DEF InferAt
  <2>4. UNCHANGED <<handlerVars, hidden>>
    BY <1>19 DEF InferDies
  <2>5. PlacesInv'
    BY <1>2, <2>3, <2>4 DEF handlerVars, Serving
  <2> QED BY <1>1, <2>1, <2>2, <2>3, <2>4, <2>5
<1> QED
  BY <1>6, <1>10, <1>11, <1>12, <1>14, <1>15, <1>16, <1>17, <1>18, <1>19
     DEF InferStep, BrokenPipe, Killed

(* The hidden port moves. *)
LEMMA HiddenTypes ==
    ASSUME TypeInv, HiddenStep \/ FusedStops
    PROVE  TypeInv'
<1> DEFINE C == Connections(Words)
           H == [at : {"accept", "read", "extract", "dead"}, on : Slots,
                 prompt : Prompts \cup {None}, vector : Prompts \cup {None},
                 queue : Seq(Slots)]
<1>0. /\ link \in [Slots -> C] /\ hidden \in H
      /\ hidden.on \in Slots /\ hidden.queue \in Seq(Slots)
      /\ hidden.prompt \in Prompts \cup {None} /\ hidden.vector \in Prompts \cup {None}
  BY DEF TypeInv, TypeOK
<1>a. C = Conns(Words, Words)
  BY DEF Connections, Conns
<1>b. ASSUME NEW c \in C
      PROVE  /\ \A n \in Nat : ServerTakes(c, n) \in C
             /\ ServerCloses(c) \in C
             /\ \A s \in Seq(Words) : ServerSends(c, s) \in C
             /\ c.up \in Seq(Words)
  <2>1. c \in Conns(Words, Words)
    BY <1>a
  <2>2. c.up \in Seq(Words)
    BY <2>1 DEF Conns
  <2> QED BY <1>a, <2>1, <2>2, ConnTypes
<1>c. UNCHANGED <<handlerVars, conn, infer>>
  BY DEF HiddenStep, HiddenAccept, HiddenRead, HiddenExtract, Extract, FusedStops
<1> HIDE DEF C
<1>1. ASSUME link' \in [Slots -> C], hidden' \in H
      PROVE  TypeInv'
  <2>1. PlacesInv'
    BY <1>c DEF TypeInv, PlacesInv, handlerVars
  <2> QED BY <1>1, <1>c, <2>1 DEF TypeInv, TypeOK, C, handlerVars
<1>2. ASSUME NEW x \in C, link' = [link EXCEPT ![hidden.on] = x]
      PROVE  link' \in [Slots -> C]
  BY <1>0, <1>2
<1>3. CASE HiddenAccept
  <2>1. Head(hidden.queue) \in Slots /\ Tail(hidden.queue) \in Seq(Slots)
    BY <1>0, <1>3 DEF HiddenAccept
  <2>2. hidden' \in H
    BY <1>0, <1>3, <2>1 DEF HiddenAccept
  <2> QED BY <1>0, <1>1, <1>3, <2>2 DEF HiddenAccept
<1>4. CASE HiddenRead
  <2> DEFINE c == link[hidden.on]
             p == c.up[2].of
  <2>0. c \in C
    BY <1>0
  <2>1. CASE ServerHas(c, 2)
    <3>1. /\ link' = [link EXCEPT ![hidden.on] = ServerTakes(@, 2)]
          /\ hidden' = [hidden EXCEPT !.at = "extract", !.prompt = p]
      BY <1>4, <2>1 DEF HiddenRead
    <3>2. p \in Prompts \cup {None}
      <4>1. c.up[2] \in Words
        BY <1>b, <2>0, <2>1 DEF ServerHas
      <4> QED BY <4>1 DEF Words
    <3>3. link' \in [Slots -> C]
      BY <1>2, <1>b, <2>0, <3>1
    <3> HIDE DEF p
    <3>4. hidden' \in H
      BY <1>0, <3>1, <3>2
    <3> QED BY <1>1, <3>3, <3>4
  <2>2. CASE ~ServerHas(c, 2)
    <3>1. /\ link' = [link EXCEPT ![hidden.on] = ServerCloses(@)]
          /\ hidden' = [hidden EXCEPT !.at = "accept", !.prompt = None]
      BY <1>4, <2>2 DEF HiddenRead, Drop
    <3>2. link' \in [Slots -> C] /\ hidden' \in H
      BY <1>0, <1>2, <1>b, <2>0, <3>1
    <3> QED BY <1>1, <3>2
  <2> QED BY <2>1, <2>2
<1>5. CASE HiddenExtract
  <2>1. hidden' \in H /\ hidden'.vector \in Prompts \cup {None}
    BY <1>0, <1>5 DEF HiddenExtract
  <2>2. \E s \in Seq(Words) : link' = [link EXCEPT ![hidden.on] = ServerSends(@, s)]
    <3>1. VectorReply(hidden'.vector) \in Seq(Words) /\ HiddenError \in Seq(Words)
      BY <2>1, WordTypes
    <3> QED BY <1>5, <3>1 DEF HiddenExtract, Extract
  <2>3. link' \in [Slots -> C]
    BY <1>0, <1>2, <1>b, <2>2
  <2> QED BY <1>1, <2>1, <2>3
<1>6. CASE FusedStops
  <2>1. hidden' \in H
    <3>1. hidden' = [hidden EXCEPT !.at = "dead", !.prompt = None, !.queue = <<>>]
      BY <1>0, <1>6 DEF FusedStops, Drop
    <3>2. <<>> \in Seq(Slots)
      BY EmptySeq
    <3> QED BY <1>0, <3>1, <3>2
  <2>2. PICK n \in 0 .. 4 :
          link' = [i \in Slots |-> ServerCloses(
                     IF n > 0 /\ i = hidden.on
                     THEN ServerSends(link[i], SubSeq(VectorReply(hidden.prompt), 1, n))
                     ELSE link[i])]
    BY <1>6 DEF FusedStops
  <2>3. SubSeq(VectorReply(hidden.prompt), 1, n) \in Seq(Words)
    <3> DEFINE s == VectorReply(hidden.prompt)
    <3>1. s \in Seq(Words)
      BY <1>0, WordTypes
    <3>2. Len(s) = 5
      BY DEF VectorReply
    <3> HIDE DEF s
    <3>3. n \in Nat /\ ~(n > Len(s))
      BY <3>2
    <3> QED BY <3>1, <3>3, Rest DEF s
  <2> DEFINE part == SubSeq(VectorReply(hidden.prompt), 1, n)
  <2> HIDE DEF part
  <2>4. \A i \in Slots : ServerSends(link[i], part) \in C
    BY <1>0, <1>b, <2>3 DEF part
  <2>5. \A i \in Slots :
          ServerCloses(IF n > 0 /\ i = hidden.on
                       THEN ServerSends(link[i], part) ELSE link[i]) \in C
    BY <1>0, <1>b, <2>4
  <2>6. link' \in [Slots -> C]
    BY <2>2, <2>5 DEF part
  <2> QED BY <1>1, <2>1, <2>6
<1> QED
  BY <1>3, <1>4, <1>5, <1>6 DEF HiddenStep

LEMMA TypeInvariant == Spec => []TypeInv
<1>1. Init => TypeInv
  <2> SUFFICES ASSUME Init PROVE TypeInv
    OBVIOUS
  <2>1. NoConnection \in Connections(Words)
    BY EmptySeq DEF NoConnection, Connections
  <2>2. infer.queue \in Seq(Askers) /\ hidden.queue \in Seq(Slots)
    BY EmptySeq DEF Init
  <2>3. 1 \in Slots
    BY PipelineAssumption DEF Slots
  <2>4. TypeOK
    BY <2>1, <2>2, <2>3, EmptySeq, PipelineAssumption DEF Init, TypeOK, Classes
  <2>5. PlacesInv
    BY PipelineAssumption DEF Init, PlacesInv, Serving, InferAt, Askers
  <2> QED BY <2>4, <2>5 DEF TypeInv
<1>2. TypeInv /\ [Next]_vars => TypeInv'
  <2>1. TypeInv /\ UNCHANGED vars => TypeInv'
    BY DEF TypeInv, TypeOK, PlacesInv, vars, handlerVars
  <2> QED BY <2>1, AskerTypes, InferTypes, HiddenTypes DEF Next
<1> QED BY <1>1, <1>2, PTL DEF Spec

(***************************************************************************)
(* Types are kept, for any number of handlers and direct clients, any      *)
(* prompts and all failures: no word on a wire is of another kind.         *)
(***************************************************************************)
THEOREM PipelineTyped == Spec => []TypeOK
<1>1. TypeInv => TypeOK
  BY DEF TypeInv
<1> QED BY <1>1, TypeInvariant, PTL

-----------------------------------------------------------------------------
(* Who holds which socket. *)

(* The sockets t2m_infer holds are those of the client it serves and of the *)
(* ones it has not accepted yet, each once.                                 *)
Waits(w) == \E k \in 1 .. Len(infer.queue) : infer.queue[k] = w

FrontInv ==
    /\ \A w \in Askers : conn[w].server <=> w = infer.for \/ Waits(w)
    /\ \A k \in 1 .. Len(infer.queue) : infer.queue[k] # infer.for
    /\ \A j, k \in 1 .. Len(infer.queue) : j # k => infer.queue[j] # infer.queue[k]
    /\ \A w \in Askers : pc[w] \in {"lock", "parse", "call"} => ~conn[w].server

(* Of the links that are open on both sides there is only the one t2m_infer *)
(* fetches by, and the hidden port holds the one it serves and the ones it  *)
(* has not accepted, each once.                                             *)
Once(q) == \A j, k \in 1 .. Len(q) : j # k => q[j] # q[k]
Lists(q, i) == \E k \in 1 .. Len(q) : q[k] = i

Fetching == infer.at \in {"head", "vector"}
Busy(i) == hidden.at \in {"read", "extract"} /\ hidden.on = i
Queued(i) == Lists(hidden.queue, i)

LinkInv ==
    /\ Fetching => link[infer.slot].client
    /\ \A i \in Slots : link[i].client /\ link[i].server => Fetching /\ i = infer.slot
    /\ \A i \in Slots : link[i].server <=> Busy(i) \/ Queued(i)
    /\ \A i \in Slots : ~(Busy(i) /\ Queued(i))
    /\ Once(hidden.queue)
    /\ Queued(infer.slot) /\ Fetching => link[infer.slot].down = <<>>

(* What each operation leaves of a connection. *)
LEMMA Sides ==
    ASSUME NEW c \in Connections(Words), NEW n, NEW s
    PROVE  /\ ClientTakes(c, n).client = c.client /\ ClientTakes(c, n).server = c.server
           /\ ClientTakes(c, n).up = c.up
           /\ ServerTakes(c, n).client = c.client /\ ServerTakes(c, n).server = c.server
           /\ ServerTakes(c, n).down = c.down
           /\ SentOnly(c, n).client = c.client /\ SentOnly(c, n).server = c.server
           /\ SentOnly(c, n).down = c.down
           /\ ServerSends(c, s).client = c.client /\ ServerSends(c, s).server = c.server
           /\ ServerSends(c, s).up = c.up
           /\ ClientCloses(c).client = FALSE /\ ClientCloses(c).server = c.server
           /\ ServerCloses(c).client = c.client /\ ServerCloses(c).server = FALSE
           /\ ClientAtRest(c).client = c.client /\ ClientAtRest(c).server = c.server
<1>1. \A x : /\ [c EXCEPT !.up = x].client = c.client /\ [c EXCEPT !.up = x].server = c.server
             /\ [c EXCEPT !.up = x].down = c.down
             /\ [c EXCEPT !.down = x].client = c.client /\ [c EXCEPT !.down = x].server = c.server
             /\ [c EXCEPT !.down = x].up = c.up
  BY DEF Connections
<1>2. /\ [c EXCEPT !.client = FALSE, !.down = <<>>].client = FALSE
      /\ [c EXCEPT !.client = FALSE, !.down = <<>>].server = c.server
      /\ [c EXCEPT !.server = FALSE].server = FALSE
      /\ [c EXCEPT !.server = FALSE].client = c.client
  BY DEF Connections
<1>3. c.client \in BOOLEAN /\ c.server \in BOOLEAN
  BY DEF Connections
<1>4. NoConnection.client = FALSE /\ NoConnection.server = FALSE
  BY DEF NoConnection
<1>5. ClientCloses(c).client = FALSE /\ ClientCloses(c).server = c.server
  BY <1>2, <1>3, <1>4, Zenon DEF ClientCloses
<1>6. ServerCloses(c).client = c.client /\ ServerCloses(c).server = FALSE
  BY <1>2, <1>3, <1>4, Zenon DEF ServerCloses
<1>7. /\ ClientTakes(c, n).client = c.client /\ ClientTakes(c, n).server = c.server
      /\ ClientTakes(c, n).up = c.up
  BY <1>1, Zenon DEF ClientTakes
<1>8. /\ ServerTakes(c, n).client = c.client /\ ServerTakes(c, n).server = c.server
      /\ ServerTakes(c, n).down = c.down
      /\ SentOnly(c, n).client = c.client /\ SentOnly(c, n).server = c.server
      /\ SentOnly(c, n).down = c.down
  BY <1>1, Zenon DEF ServerTakes, SentOnly
<1>9. /\ ServerSends(c, s).client = c.client /\ ServerSends(c, s).server = c.server
      /\ ServerSends(c, s).up = c.up
  BY <1>1, Zenon DEF ServerSends
<1>10. ClientAtRest(c).client = c.client /\ ClientAtRest(c).server = c.server
  BY DEF ClientAtRest, Connections
<1> QED BY <1>5, <1>6, <1>7, <1>8, <1>9, <1>10

(* t2m_infer takes words of its client, or finds it gone. *)
LEMMA Reading ==
    ASSUME TypeInv, ReadLen \/ ReadRest
    PROVE  \/ \E n : ClientGone(n) /\ infer'.at = "accept"
           \/ /\ \E n : conn' = [conn EXCEPT ![infer.for] = ServerTakes(@, n)]
              /\ infer'.at \in {"failed", "rest", "fetch"}
              /\ infer'.for = infer.for /\ infer'.queue = infer.queue
<1>1. infer \in [at : InferAt, for : Askers \cup {None}, prompt : Prompts \cup {None},
                vector : Prompts \cup {None}, slot : Slots, queue : Seq(Askers)]
  BY DEF TypeInv, TypeOK, InferAt
<1>2. ASSUME NEW n, ClientGone(n)
      PROVE  infer'.at = "accept"
  BY <1>1, <1>2 DEF ClientGone, NextClient
<1>3. ASSUME NEW at, infer' = [infer EXCEPT !.at = at]
      PROVE  infer'.at = at /\ infer'.for = infer.for /\ infer'.queue = infer.queue
  BY <1>1, <1>3
<1>4. ASSUME NEW at, NEW p, infer' = [infer EXCEPT !.at = at, !.prompt = p]
      PROVE  infer'.at = at /\ infer'.for = infer.for /\ infer'.queue = infer.queue
  BY <1>1, <1>4
<1>5. CASE ReadLen
  <2>1. CASE ClientGone(1)
    BY <1>2, <2>1
  <2>2. CASE ~ClientGone(1)
    <3>1. /\ conn' = [conn EXCEPT ![infer.for] = ServerTakes(@, 1)]
          /\ \/ infer' = [infer EXCEPT !.at = "failed"]
             \/ infer' = [infer EXCEPT !.at = "rest", !.prompt = conn[infer.for].up[1].of]
      BY <1>5, <2>2 DEF ReadLen, At
    <3>2. /\ infer'.at \in {"failed", "rest"}
          /\ infer'.for = infer.for /\ infer'.queue = infer.queue
      BY <1>3, <1>4, <3>1
    <3> QED BY <3>1, <3>2
  <2> QED BY <2>1, <2>2
<1>6. CASE ReadRest
  <2> DEFINE n == Len(Bytes(infer.prompt)) + 2
  <2>1. CASE ClientGone(n)
    BY <1>2, <2>1
  <2>2. CASE ~ClientGone(n)
    <3>1. /\ conn' = [conn EXCEPT ![infer.for] = ServerTakes(@, n)]
          /\ infer' = [infer EXCEPT !.at = "fetch", !.prompt = conn[infer.for].up[1].of]
      BY <1>6, <2>2 DEF ReadRest
    <3> HIDE DEF n
    <3>2. infer'.at = "fetch" /\ infer'.for = infer.for /\ infer'.queue = infer.queue
      BY <1>4, <3>1
    <3> QED BY <3>1, <3>2
  <2> QED BY <2>1, <2>2
<1> QED BY <1>5, <1>6

(* No socket of t2m_infer's side comes or goes, and it turns to nobody else. *)
LEMMA FrontSame ==
    ASSUME FrontInv,
           \A w \in Askers : conn'[w].server = conn[w].server,
           infer'.for = infer.for, infer'.queue = infer.queue,
           \A w \in Askers : pc'[w] \in {"lock", "parse", "call"} =>
             pc[w] \in {"lock", "parse", "call"} \/ ~conn[w].server
    PROVE  FrontInv'
<1>1. \A w \in Askers : Waits(w)' <=> Waits(w)
  BY DEF Waits
<1> QED BY <1>1 DEF FrontInv

LEMMA FrontAsker ==
    ASSUME TypeInv, FrontInv, NEW w \in Askers, Ask(w) \/ AskerStep(w) \/ HangUp(w)
    PROVE  FrontInv'
<1>0. /\ conn \in [Askers -> Connections(Words)] /\ DOMAIN pc = Askers
      /\ pc = [v \in Askers |-> pc[v]] /\ infer.queue \in Seq(Askers)
  BY DEF TypeInv, TypeOK
<1>1. ASSUME NEW c \in Connections(Words), conn' = [conn EXCEPT ![w] = c],
             c.server = conn[w].server, UNCHANGED infer,
             \E place : place \notin {"lock", "parse", "call"} /\ Goto(w, place)
      PROVE  FrontInv'
  BY <1>0, <1>1, FrontSame DEF Goto
<1>2. ASSUME UNCHANGED <<conn, infer>>,
             \E place : /\ Goto(w, place)
                        /\ place \in {"lock", "parse", "call"} =>
                             pc[w] \in {"lock", "parse", "call"} \/ ~conn[w].server
      PROVE  FrontInv'
  BY <1>0, <1>2, FrontSame DEF Goto
<1>3. CASE Ask(w)
  <2>1. ~conn[w].server /\ UNCHANGED <<conn, infer>> /\ \E place : Goto(w, place)
    BY <1>3 DEF Ask, NoConnection
  <2> QED BY <1>2, <2>1
<1>4. CASE Lock(w) \/ Parse(w)
  BY <1>2, <1>4 DEF Lock, Parse, Respond
<1>5. CASE MakeDir(w) \/ Write(w) \/ Convert(w) \/ ReadFile(w)
  BY <1>2, <1>5 DEF MakeDir, Write, Convert, UseDir, ReadFile, Fails, Respond
<1>6. CASE Call(w)
  <2>1. CASE infer.at = "dead"
    BY <1>2, <1>6, <2>1 DEF Call, Fails, Respond
  <2>2. CASE infer.at # "dead"
    <3>1. /\ conn' = [conn EXCEPT ![w] = Opened(Request(Prompt(w)))]
          /\ infer' = [infer EXCEPT !.queue = Append(@, w)]
          /\ Goto(w, "status") /\ pc[w] = "call"
      BY <1>6, <2>2 DEF Call
    <3>2. /\ infer'.queue = Append(infer.queue, w) /\ infer'.for = infer.for
      BY <3>1 DEF TypeInv, TypeOK
    <3>3. conn'[w].server = TRUE /\ \A v \in Askers \ {w} : conn'[v] = conn[v]
      BY <1>0, <3>1 DEF Opened
    <3>4. ~conn[w].server
      BY <3>1 DEF FrontInv
    <3>5. w # infer.for /\ ~Waits(w)
      BY <3>4 DEF FrontInv
    <3>6. /\ Len(infer'.queue) = Len(infer.queue) + 1 /\ Len(infer.queue) \in Nat
          /\ \A k \in 1 .. Len(infer.queue) : infer'.queue[k] = infer.queue[k]
          /\ infer'.queue[Len(infer.queue) + 1] = w
      BY <1>0, <3>2, AppendProperties
    <3>7. \A v \in Askers : Waits(v)' <=> Waits(v) \/ v = w
      <4>1. \A v \in Askers : Waits(v) => Waits(v)'
        BY <3>6 DEF Waits
      <4>2. Waits(w)'
        BY <3>6 DEF Waits
      <4>3. \A v \in Askers : Waits(v)' => Waits(v) \/ v = w
        <5> SUFFICES ASSUME NEW v \in Askers, Waits(v)'
                     PROVE  Waits(v) \/ v = w
          OBVIOUS
        <5>1. PICK k \in 1 .. Len(infer'.queue) : infer'.queue[k] = v
          BY DEF Waits
        <5>2. k \in 1 .. Len(infer.queue) \/ k = Len(infer.queue) + 1
          BY <3>6
        <5>3. CASE k \in 1 .. Len(infer.queue)
          BY <3>6, <5>1, <5>3 DEF Waits
        <5>4. CASE k = Len(infer.queue) + 1
          BY <3>6, <5>1, <5>4
        <5> QED BY <5>2, <5>3, <5>4
      <4> QED BY <4>1, <4>2, <4>3
    <3>8. \A v \in Askers : conn'[v].server <=> v = infer'.for \/ Waits(v)'
      BY <3>2, <3>3, <3>7 DEF FrontInv
    <3>9. \A k \in 1 .. Len(infer'.queue) : infer'.queue[k] # infer'.for
      BY <3>2, <3>5, <3>6 DEF FrontInv
    <3>10. \A j, k \in 1 .. Len(infer'.queue) : j # k => infer'.queue[j] # infer'.queue[k]
      <4>1. \A k \in 1 .. Len(infer.queue) : infer.queue[k] # w
        BY <3>5 DEF Waits
      <4>2. \A k \in 1 .. Len(infer'.queue) :
              k \in 1 .. Len(infer.queue) \/ k = Len(infer.queue) + 1
        BY <3>6
      <4>3. \A j, k \in 1 .. Len(infer.queue) : j # k => infer.queue[j] # infer.queue[k]
        BY DEF FrontInv
      <4> SUFFICES ASSUME NEW j \in 1 .. Len(infer'.queue),
                          NEW k \in 1 .. Len(infer'.queue), j # k
                   PROVE  infer'.queue[j] # infer'.queue[k]
        OBVIOUS
      <4>4. CASE j \in 1 .. Len(infer.queue) /\ k \in 1 .. Len(infer.queue)
        BY <3>6, <4>3, <4>4
      <4>5. CASE j = Len(infer.queue) + 1
        BY <3>6, <4>1, <4>2, <4>5
      <4>6. CASE k = Len(infer.queue) + 1
        BY <3>6, <4>1, <4>2, <4>6
      <4> QED BY <4>2, <4>4, <4>5, <4>6
    <3>11. \A v \in Askers : pc'[v] \in {"lock", "parse", "call"} => ~conn'[v].server
      BY <1>0, <3>1, <3>3 DEF Goto, FrontInv
    <3> QED BY <3>8, <3>9, <3>10, <3>11 DEF FrontInv
  <2> QED BY <2>1, <2>2
<1>7. conn[w] \in Connections(Words)
  BY <1>0
<1>8. ASSUME NEW c, conn' = [conn EXCEPT ![w] = c], c.server = conn[w].server,
             UNCHANGED infer,
             \E place : place \notin {"lock", "parse", "call"} /\ Goto(w, place)
      PROVE  FrontInv'
  BY <1>0, <1>8, FrontSame DEF Goto
<1>9. ASSUME NEW n, CutOff(w, n)
      PROVE  FrontInv'
  <2>1. ClientCloses(conn[w]).server = conn[w].server
    BY <1>7, Sides
  <2> QED BY <1>8, <1>9, <2>1 DEF CutOff, Fails, Respond
<1>10. CASE ReadStatus(w) \/ ReadError(w) \/ ReadMotion(w)
  <2>1. ClientCloses(conn[w]).server = conn[w].server
        /\ ClientTakes(conn[w], 1).server = conn[w].server
    BY <1>7, Sides
  <2>2. \/ \E n : CutOff(w, n)
        \/ /\ \/ conn' = [conn EXCEPT ![w] = ClientTakes(@, 1)]
              \/ conn' = [conn EXCEPT ![w] = ClientCloses(@)]
           /\ UNCHANGED infer
           /\ \E place : place \notin {"lock", "parse", "call"} /\ Goto(w, place)
    BY <1>10 DEF ReadStatus, ReadError, ReadMotion, Fails, Respond
  <2> QED BY <1>8, <1>9, <2>1, <2>2
<1>11. CASE HangUp(w)
  <2>1. PICK n \in 0 .. Len(conn[w].up) :
          conn' = [conn EXCEPT ![w] = ClientCloses(SentOnly(@, n))]
    BY <1>11 DEF HangUp
  <2>2. SentOnly(conn[w], n) \in Connections(Words)
    <3>1. conn[w] \in Conns(Words, Words)
      BY <1>7 DEF Connections, Conns
    <3>2. SentOnly(conn[w], n) \in Conns(Words, Words)
      BY <3>1, ConnTypes
    <3> QED BY <3>2 DEF Connections, Conns
  <2>3. ClientCloses(SentOnly(conn[w], n)).server = conn[w].server
    <3> DEFINE d == SentOnly(conn[w], n)
    <3>1. d.server = conn[w].server
      BY <1>7, Sides
    <3>2. d \in Connections(Words)
      BY <2>2
    <3> HIDE DEF d
    <3>3. ClientCloses(d).server = d.server
      BY <3>2, Sides
    <3> QED BY <3>1, <3>3 DEF d
  <2> QED BY <1>8, <1>11, <2>1, <2>3 DEF HangUp
<1> QED
  BY <1>3, <1>4, <1>5, <1>6, <1>10, <1>11 DEF AskerStep

LEMMA FrontInfer ==
    ASSUME TypeInv, FrontInv, InferStep \/ Killed
    PROVE  FrontInv'
<1>0. /\ conn \in [Askers -> Connections(Words)]
      /\ infer.queue \in Seq(Askers) /\ infer.for \in Askers \cup {None}
      /\ infer = [infer EXCEPT !.at = infer.at]
  BY DEF TypeInv, TypeOK
<1>1. infer.at \in Serving => infer.for \in Askers
  BY DEF TypeInv, PlacesInv
<1>2. \A w \in Askers : w # None
  BY PipelineAssumption DEF Askers
(* The sockets stay; only the place moves, or what is not looked at here. *)
<1>3. ASSUME UNCHANGED pc, infer'.for = infer.for, infer'.queue = infer.queue,
             \A w \in Askers : conn'[w].server = conn[w].server
      PROVE  FrontInv'
  BY <1>3, FrontSame
(* The client that was served is closed, and nobody is served. *)
<1>4. ASSUME UNCHANGED pc, infer.for \in Askers, infer' = NextClient(infer),
             NEW c, c.server = FALSE, conn' = [conn EXCEPT ![infer.for] = c]
      PROVE  FrontInv'
  <2>1. infer'.for = None /\ infer'.queue = infer.queue
    BY <1>0, <1>4 DEF NextClient, TypeInv, TypeOK
  <2>2. /\ conn'[infer.for].server = FALSE
        /\ \A w \in Askers \ {infer.for} : conn'[w] = conn[w]
    BY <1>0, <1>4
  <2>3. \A w \in Askers : Waits(w)' <=> Waits(w)
    BY <2>1 DEF Waits
  <2>4. ~Waits(infer.for)
    BY DEF Waits, FrontInv
  <2>5. \A w \in Askers : conn'[w].server <=> w = infer'.for \/ Waits(w)'
    BY <1>2, <2>1, <2>2, <2>3, <2>4 DEF FrontInv
  <2>6. \A k \in 1 .. Len(infer'.queue) : infer'.queue[k] # infer'.for
    BY <1>0, <1>2, <2>1
  <2>7. \A w \in Askers : pc'[w] \in {"lock", "parse", "call"} => ~conn'[w].server
    BY <1>4, <2>2 DEF FrontInv
  <2> QED BY <2>1, <2>5, <2>6, <2>7 DEF FrontInv
<1>5. ASSUME NEW n, infer.for \in Askers, ClientGone(n)
      PROVE  FrontInv'
  <2>1. ServerCloses(conn[infer.for]).server = FALSE
    BY <1>0, <1>5, Sides
  <2> QED BY <1>4, <1>5, <2>1 DEF ClientGone, handlerVars
<1>6. CASE Accept
  <2> DEFINE q == infer.queue
  <2>1. /\ infer'.for = Head(q) /\ infer'.queue = Tail(q)
        /\ UNCHANGED <<pc, conn>> /\ q # <<>> /\ infer.for = None
    <3>1. infer.for = None
      BY <1>6 DEF Accept, Serving, InferAt, TypeInv, PlacesInv
    <3> QED BY <1>6, <3>1 DEF Accept, handlerVars, TypeInv, TypeOK
  <2>2. /\ Len(q) \in Nat \ {0} /\ Len(Tail(q)) = Len(q) - 1 /\ Head(q) = q[1]
        /\ \A k \in 1 .. Len(q) - 1 : Tail(q)[k] = q[k + 1]
    BY <1>0, <2>1
  <2>3. \A w \in Askers : Waits(w) <=> w = infer'.for \/ Waits(w)'
    <3> SUFFICES ASSUME NEW w \in Askers
                 PROVE  Waits(w) <=> w = infer'.for \/ Waits(w)'
      OBVIOUS
    <3>1. ASSUME NEW k \in 1 .. Len(q), q[k] = w
          PROVE  w = infer'.for \/ Waits(w)'
      <4>1. CASE k = 1
        BY <2>1, <2>2, <3>1, <4>1
      <4>2. CASE k # 1
        <5>1. k - 1 \in 1 .. Len(q) - 1 /\ Tail(q)[k - 1] = q[k - 1 + 1] /\ k - 1 + 1 = k
          BY <2>2, <4>2
        <5> QED BY <2>1, <2>2, <3>1, <5>1 DEF Waits
      <4> QED BY <4>1, <4>2
    <3>2. Waits(w) => w = infer'.for \/ Waits(w)'
      BY <3>1 DEF Waits
    <3>3. w = infer'.for => Waits(w)
      BY <2>1, <2>2 DEF Waits
    <3>4. ASSUME NEW k \in 1 .. Len(q) - 1, Tail(q)[k] = w
          PROVE  Waits(w)
      <4>1. k + 1 \in 1 .. Len(q) /\ q[k + 1] = w
        BY <2>2, <3>4
      <4> QED BY <4>1 DEF Waits
    <3>5. Waits(w)' => Waits(w)
      BY <2>1, <2>2, <3>4 DEF Waits
    <3> QED BY <3>2, <3>3, <3>5
  <2>4. \A j, k \in 1 .. Len(q) : j # k => q[j] # q[k]
    BY DEF FrontInv
  <2>5. \A k \in 1 .. Len(infer'.queue) : k + 1 \in 1 .. Len(q) /\ infer'.queue[k] = q[k + 1]
    BY <2>1, <2>2
  <2>6. \A k \in 1 .. Len(infer'.queue) : infer'.queue[k] # infer'.for
    <3>1. 1 \in 1 .. Len(q) /\ \A k \in 1 .. Len(infer'.queue) : k + 1 # 1
      BY <2>1, <2>2
    <3> QED BY <2>1, <2>2, <2>4, <2>5, <3>1
  <2>7. \A j, k \in 1 .. Len(infer'.queue) : j # k => infer'.queue[j] # infer'.queue[k]
    <3>1. \A j, k \in 1 .. Len(infer'.queue) : j # k => j + 1 # k + 1
      OBVIOUS
    <3> QED BY <2>4, <2>5, <3>1
  <2>8. \A w \in Askers : conn'[w].server <=> w = infer'.for \/ Waits(w)'
    BY <1>2, <2>1, <2>3 DEF FrontInv
  <2> QED BY <2>1, <2>6, <2>7, <2>8 DEF FrontInv
<1>7. CASE ReadLen \/ ReadRest
  <2>1. infer.for \in Askers /\ UNCHANGED pc
    BY <1>1, <1>7 DEF ReadLen, ReadRest, ClientGone, Serving, InferAt, handlerVars
  <2>2. \/ \E n : ClientGone(n)
        \/ /\ \E n : conn' = [conn EXCEPT ![infer.for] = ServerTakes(@, n)]
           /\ infer'.for = infer.for /\ infer'.queue = infer.queue
    BY <1>7, Reading
  <2>3. \A n : ServerTakes(conn[infer.for], n).server = conn[infer.for].server
    BY <1>0, <2>1, Sides
  <2> QED BY <1>0, <1>3, <1>5, <2>1, <2>2, <2>3
<1>8. CASE Fetch \/ ReadHead \/ ReadVector \/ Infer
  <2>1. UNCHANGED <<pc, conn>>
    BY <1>8 DEF Fetch, ReadHead, ReadVector, FetchCutOff, Infer, handlerVars
  <2>2. infer'.for = infer.for /\ infer'.queue = infer.queue
    <3>1. CASE Fetch
      BY <3>1 DEF Fetch, At, TypeInv, TypeOK
    <3>2. CASE ReadHead
      BY <3>2 DEF ReadHead, FetchCutOff, At, TypeInv, TypeOK
    <3>3. CASE ReadVector
      BY <3>3 DEF ReadVector, FetchCutOff, At, TypeInv, TypeOK
    <3>4. CASE Infer
      BY <3>4 DEF Infer, At, TypeInv, TypeOK
    <3> QED BY <1>8, <3>1, <3>2, <3>3, <3>4
  <2> QED BY <1>3, <2>1, <2>2
<1>9. CASE SendStatus
  <2>1. infer.for \in Askers /\ UNCHANGED pc
    BY <1>1, <1>9 DEF SendStatus, Serving, InferAt, handlerVars
  <2>2. /\ \E s : conn' = [conn EXCEPT ![infer.for] = ServerSends(@, s)]
        /\ infer'.for = infer.for /\ infer'.queue = infer.queue
    BY <1>9 DEF SendStatus, At, TypeInv, TypeOK
  <2>3. \A s : ServerSends(conn[infer.for], s).server = conn[infer.for].server
    BY <1>0, <2>1, Sides
  <2> QED BY <1>0, <1>3, <2>1, <2>2, <2>3
<1>10. CASE SendRest
  <2>1. infer.for \in Askers /\ UNCHANGED pc
    BY <1>1, <1>10 DEF SendRest, Serving, InferAt, handlerVars
  <2>2. PICK s \in Seq(Words) :
          conn' = [conn EXCEPT ![infer.for] = ServerCloses(ServerSends(@, s))]
    <3>1. infer.vector \in Prompts \cup {None}
      BY DEF TypeInv, TypeOK
    <3>2. MotionReply(infer.vector) \in Seq(Words) /\ ErrorReply \in Seq(Words)
      BY <3>1, WordTypes
    <3> QED BY <1>10, <3>2 DEF SendRest
  <2>3. ServerSends(conn[infer.for], s) \in Connections(Words)
    <3>1. conn[infer.for] \in Conns(Words, Words)
      BY <1>0, <2>1 DEF Connections, Conns
    <3>2. ServerSends(conn[infer.for], s) \in Conns(Words, Words)
      BY <3>1, ConnTypes
    <3> QED BY <3>2 DEF Connections, Conns
  <2>4. ServerCloses(ServerSends(conn[infer.for], s)).server = FALSE
    BY <2>3, Sides
  <2> QED BY <1>4, <1>10, <2>1, <2>2, <2>4 DEF SendRest
<1>11. ASSUME InferDies
       PROVE  FrontInv'
  <2>1. infer'.for = None /\ infer'.queue = <<>> /\ UNCHANGED pc
    BY <1>11 DEF InferDies, NextClient, handlerVars, TypeInv, TypeOK
  <2>2. \A w \in Askers : conn'[w].server = FALSE
    BY <1>0, <1>11, Sides DEF InferDies
  <2>3. Len(infer'.queue) = 0 /\ \A w \in Askers : ~Waits(w)'
    BY <2>1 DEF Waits
  <2> QED BY <1>2, <2>1, <2>2, <2>3 DEF FrontInv
<1> QED
  BY <1>6, <1>7, <1>8, <1>9, <1>10, <1>11 DEF InferStep, BrokenPipe, Killed

LEMMA FrontHidden ==
    ASSUME FrontInv, HiddenStep \/ FusedStops \/ UNCHANGED vars
    PROVE  FrontInv'
<1>1. UNCHANGED <<pc, conn, infer>>
  BY DEF HiddenStep, HiddenAccept, HiddenRead, HiddenExtract, Extract, FusedStops,
         vars, handlerVars
<1> QED BY <1>1, FrontSame

-----------------------------------------------------------------------------
(* The links between t2m_infer and the hidden port. *)

(* A backlog that lists nobody twice, as one joins it and the first leaves. *)
LEMMA Joins ==
    ASSUME NEW S, NEW q \in Seq(S), Once(q), NEW x \in S, ~Lists(q, x)
    PROVE  /\ Once(Append(q, x))
           /\ \A i : Lists(Append(q, x), i) <=> i = x \/ Lists(q, i)
<1> DEFINE r == Append(q, x)
<1>1. /\ Len(q) \in Nat /\ Len(r) = Len(q) + 1 /\ r[Len(q) + 1] = x
      /\ \A k \in 1 .. Len(q) : r[k] = q[k]
  BY AppendProperties
<1> HIDE DEF r
<1>2. \A k \in 1 .. Len(r) : k \in 1 .. Len(q) \/ k = Len(q) + 1
  BY <1>1
<1>3. Once(r)
  <2> SUFFICES ASSUME NEW j \in 1 .. Len(r), NEW k \in 1 .. Len(r), j # k
               PROVE  r[j] # r[k]
    BY DEF Once
  <2>1. CASE j \in 1 .. Len(q) /\ k \in 1 .. Len(q)
    BY <1>1, <2>1 DEF Once
  <2>2. CASE j = Len(q) + 1
    BY <1>1, <1>2, <2>2 DEF Lists
  <2>3. CASE k = Len(q) + 1
    BY <1>1, <1>2, <2>3 DEF Lists
  <2> QED BY <1>2, <2>1, <2>2, <2>3
<1>4. ASSUME NEW i
      PROVE  Lists(r, i) <=> i = x \/ Lists(q, i)
  <2>1. Lists(r, i) => i = x \/ Lists(q, i)
    BY <1>1, <1>2 DEF Lists
  <2>2. Lists(q, i) => Lists(r, i)
    BY <1>1 DEF Lists
  <2>3. i = x => Lists(r, i)
    <3>1. Len(q) + 1 \in 1 .. Len(r)
      BY <1>1
    <3> QED BY <1>1, <3>1 DEF Lists
  <2> QED BY <2>1, <2>2, <2>3
<1> QED BY <1>3, <1>4 DEF r

LEMMA Leaves ==
    ASSUME NEW S, NEW q \in Seq(S), Once(q), q # <<>>
    PROVE  /\ Once(Tail(q))
           /\ ~Lists(Tail(q), Head(q))
           /\ \A i : Lists(q, i) <=> i = Head(q) \/ Lists(Tail(q), i)
<1> DEFINE t == Tail(q)
           h == Head(q)
<1>1. /\ Len(q) \in Nat \ {0} /\ Len(t) = Len(q) - 1 /\ h = q[1]
      /\ \A k \in 1 .. Len(q) - 1 : t[k] = q[k + 1]
  OBVIOUS
<1> HIDE DEF t, h
<1>2. \A k \in 1 .. Len(t) : k + 1 \in 1 .. Len(q) /\ k + 1 # 1 /\ t[k] = q[k + 1]
  BY <1>1
<1>3. Once(t)
  <2> SUFFICES ASSUME NEW j \in 1 .. Len(t), NEW k \in 1 .. Len(t), j # k
               PROVE  t[j] # t[k]
    BY DEF Once
  <2>1. j + 1 # k + 1
    OBVIOUS
  <2> QED BY <1>2, <2>1 DEF Once
<1>4. ~Lists(t, h)
  <2>1. 1 \in 1 .. Len(q)
    BY <1>1
  <2> QED BY <1>1, <1>2, <2>1 DEF Lists, Once
<1>5. ASSUME NEW i
      PROVE  Lists(q, i) <=> i = h \/ Lists(t, i)
  <2>1. ASSUME NEW k \in 1 .. Len(q), q[k] = i, k # 1
        PROVE  Lists(t, i)
    <3>1. k - 1 \in 1 .. Len(t) /\ k - 1 \in 1 .. Len(q) - 1 /\ k - 1 + 1 = k
      BY <1>1, <2>1
    <3>2. t[k - 1] = i
      BY <1>1, <2>1, <3>1
    <3> QED BY <3>1, <3>2 DEF Lists
  <2>2. Lists(q, i) => i = h \/ Lists(t, i)
    BY <1>1, <2>1 DEF Lists
  <2>3. Lists(t, i) => Lists(q, i)
    BY <1>2 DEF Lists
  <2>4. i = h => Lists(q, i)
    <3>1. 1 \in 1 .. Len(q)
      BY <1>1
    <3> QED BY <1>1, <3>1 DEF Lists
  <2> QED BY <2>2, <2>3, <2>4
<1> QED BY <1>3, <1>4, <1>5 DEF t, h

(* Nothing of the links is touched, or only what is not looked at. *)
LEMMA LinkSame ==
    ASSUME LinkInv, UNCHANGED <<link, hidden>>, infer'.slot = infer.slot,
           \/ infer'.at = infer.at
           \/ ~Fetching /\ ~Fetching'
    PROVE  LinkInv'
<1>1. /\ \A i \in Slots : (Busy(i)' <=> Busy(i)) /\ (Queued(i)' <=> Queued(i))
      /\ Queued(infer.slot)' <=> Queued(infer.slot)
      /\ Once(hidden.queue)' <=> Once(hidden.queue)
  BY DEF Busy, Queued
<1>2. Fetching' <=> Fetching
  BY DEF Fetching
<1> QED BY <1>1, <1>2 DEF LinkInv

LEMMA LinkAsker ==
    ASSUME TypeInv, LinkInv, NEW w \in Askers, Ask(w) \/ AskerStep(w) \/ HangUp(w)
    PROVE  LinkInv'
<1>1. UNCHANGED <<link, hidden>>
  BY DEF Ask, AskerStep, HangUp, Lock, Parse, Call, ReadStatus, ReadError, ReadMotion,
         CutOff, MakeDir, Write, Convert, UseDir, ReadFile
<1>2. infer'.at = infer.at /\ infer'.slot = infer.slot
  <2>1. CASE Call(w)
    BY <2>1 DEF Call, TypeInv, TypeOK
  <2>2. CASE ~Call(w)
    BY <2>2 DEF Ask, AskerStep, HangUp, Lock, Parse, ReadStatus, ReadError, ReadMotion,
                CutOff, MakeDir, Write, Convert, UseDir, ReadFile
  <2> QED BY <2>1, <2>2
<1> QED BY <1>1, <1>2, LinkSame

LEMMA LinkInfer ==
    ASSUME TypeInv, LinkInv, InferStep \/ Killed
    PROVE  LinkInv'
<1> DEFINE s == infer.slot
<1>0. /\ link \in [Slots -> Connections(Words)] /\ s \in Slots
      /\ \A i \in Slots : link[i] \in Connections(Words)
  BY DEF TypeInv, TypeOK
<1>1. ASSUME infer.at \in {"accept", "len", "rest", "fetch", "infer", "done", "failed",
                           "sendmotion", "senderror"},
             infer'.at \notin {"head", "vector"}, infer'.slot = s, UNCHANGED <<link, hidden>>
      PROVE  LinkInv'
  BY <1>1, LinkSame DEF Fetching
<1>2. ASSUME infer' = NextClient(infer)
      PROVE  infer'.at = "accept" /\ infer'.slot = s
  BY <1>2 DEF NextClient, TypeInv, TypeOK
<1>3. CASE Accept \/ ReadLen \/ ReadRest
  <2>1. /\ infer.at \in {"accept", "len", "rest"} /\ UNCHANGED <<link, hidden>>
        /\ \/ infer' = NextClient(infer)
           \/ infer'.at \in {"len", "failed", "rest", "fetch"} /\ infer'.slot = s
    <3>1. CASE Accept
      BY <3>1 DEF Accept, TypeInv, TypeOK
    <3>2. CASE ReadLen
      BY <3>2 DEF ReadLen, ClientGone, At, TypeInv, TypeOK
    <3>3. CASE ReadRest
      BY <3>3 DEF ReadRest, ClientGone, TypeInv, TypeOK
    <3> QED BY <1>3, <3>1, <3>2, <3>3
  <2> QED BY <1>1, <1>2, <2>1
<1>4. CASE Infer \/ SendStatus \/ SendRest
  <2>1. /\ infer.at \in {"infer", "done", "failed", "sendmotion", "senderror"}
        /\ UNCHANGED <<link, hidden>>
        /\ \/ infer' = NextClient(infer)
           \/ infer'.at \in {"done", "failed", "sendmotion", "senderror"} /\ infer'.slot = s
    <3>1. CASE Infer
      BY <3>1 DEF Infer, At, TypeInv, TypeOK
    <3>2. CASE SendStatus
      BY <3>2 DEF SendStatus, At, TypeInv, TypeOK
    <3>3. CASE SendRest
      BY <3>3 DEF SendRest
    <3> QED BY <1>4, <3>1, <3>2, <3>3
  <2> QED BY <1>1, <1>2, <2>1
<1>5. CASE Fetch
  <2>0. infer.at = "fetch" /\ ~Fetching
    BY <1>5 DEF Fetch, Fetching
  <2>1. CASE At("failed") /\ UNCHANGED <<link, hidden>>
    BY <1>1, <2>0, <2>1 DEF At, TypeInv, TypeOK
  <2>2. ASSUME NEW o \in Slots, FirstFree(o),
               link' = [link EXCEPT ![o] = Opened(HiddenRequest(infer.prompt))],
               infer' = [infer EXCEPT !.at = "head", !.slot = o],
               hidden' = [hidden EXCEPT !.queue = Append(@, o)]
        PROVE  LinkInv'
    <3>1. /\ infer'.at = "head" /\ infer'.slot = o /\ Fetching'
          /\ hidden'.at = hidden.at /\ hidden'.on = hidden.on
          /\ hidden'.queue = Append(hidden.queue, o)
      BY <2>2 DEF TypeInv, TypeOK, Fetching
    <3>2. /\ link'[o].client /\ link'[o].server /\ link'[o].down = <<>>
          /\ \A i \in Slots : i # o => link'[i] = link[i]
      BY <1>0, <2>2 DEF Opened
    <3>3. ~Busy(o) /\ ~Queued(o)
      <4>1. ~link[o].server
        BY <2>2 DEF FirstFree, NoConnection
      <4> QED BY <4>1 DEF LinkInv
    <3>4. \A i : Busy(i)' <=> Busy(i)
      BY <3>1 DEF Busy
    <3>5. Once(hidden'.queue) /\ \A i : Queued(i)' <=> i = o \/ Queued(i)
      <4>1. hidden.queue \in Seq(Slots)
        BY DEF TypeInv, TypeOK
      <4>2. Once(hidden.queue) /\ ~Lists(hidden.queue, o)
        BY <3>3 DEF LinkInv, Queued
      <4> QED BY <3>1, <4>1, <4>2, Joins DEF Queued
    <3> HIDE DEF Busy, Queued
    <3>6. \A i \in Slots : link'[i].client /\ link'[i].server => i = o
      BY <2>0, <3>2 DEF LinkInv
    <3>7. \A i \in Slots : /\ link'[i].server <=> Busy(i)' \/ Queued(i)'
                           /\ ~(Busy(i)' /\ Queued(i)')
      BY <3>2, <3>3, <3>4, <3>5 DEF LinkInv
    <3> QED BY <3>1, <3>2, <3>5, <3>6, <3>7 DEF LinkInv
  <2> QED BY <1>5, <2>1, <2>2 DEF Fetch
(* Something arrived by the link in use, or the hidden port has closed it. *)
<1>6. ASSUME Fetching, ~Queued(s), UNCHANGED hidden, infer'.slot = s,
             infer'.at # "head", NEW c, link' = [link EXCEPT ![s] = c],
             c.server = link[s].server,
             IF infer'.at = "vector" THEN c.client ELSE ~(c.client /\ c.server)
      PROVE  LinkInv'
  <2>1. /\ \A i \in Slots : (Busy(i)' <=> Busy(i)) /\ (Queued(i)' <=> Queued(i))
        /\ Queued(infer.slot)' <=> Queued(s)
        /\ Once(hidden.queue)' <=> Once(hidden.queue)
    BY <1>6 DEF Busy, Queued
  <2>2. link'[s] = c /\ \A i \in Slots : i # s => link'[i] = link[i]
    BY <1>0, <1>6
  <2>3. Fetching' <=> infer'.at = "vector"
    BY <1>6 DEF Fetching
  <2>4. \A i \in Slots : link'[i].server <=> link[i].server
    BY <1>6, <2>2
  <2>5. \A i \in Slots : /\ link'[i].server <=> Busy(i)' \/ Queued(i)'
                         /\ ~(Busy(i)' /\ Queued(i)')
    BY <2>1, <2>4 DEF LinkInv
  <2>6. \A i \in Slots : link'[i].client /\ link'[i].server => Fetching' /\ i = s
    BY <1>6, <2>2, <2>3 DEF LinkInv
  <2>7. Fetching' => link'[infer'.slot].client
    BY <1>6, <2>2, <2>3
  <2> QED BY <1>6, <2>1, <2>5, <2>6, <2>7 DEF LinkInv
<1>7. ASSUME Fetching, NEW n \in Nat, FetchCutOff(n)
      PROVE  LinkInv'
  <2>1. ~link[s].server
    BY <1>7 DEF FetchCutOff, ClientAtEnd
  <2>2. ~Queued(s)
    BY <1>0, <2>1 DEF LinkInv
  <2>3. infer'.slot = s /\ infer'.at = "failed"
    BY <1>7 DEF FetchCutOff, At, TypeInv, TypeOK
  <2>4. ClientAtRest(link[s]).server = link[s].server
    BY <1>0, Sides
  <2> QED BY <1>6, <1>7, <2>1, <2>2, <2>3, <2>4 DEF FetchCutOff
<1>8. CASE ReadHead \/ ReadVector
  <2>1. Fetching
    BY <1>8 DEF ReadHead, ReadVector, Fetching
  <2>2. \/ \E n \in {2, 3} : FetchCutOff(n)
        \/ /\ ClientHas(link[s], 2) \/ ClientHas(link[s], 3)
           /\ \/ link' = [link EXCEPT ![s] = ClientTakes(@, 3)] /\ infer'.at = "vector"
              \/ link' = [link EXCEPT ![s] = ClientCloses(@)] /\ infer'.at \in {"failed", "infer"}
           /\ infer'.slot = s /\ UNCHANGED hidden
    <3>1. CASE ReadHead
      BY <3>1 DEF ReadHead, At, TypeInv, TypeOK
    <3>2. CASE ReadVector
      BY <3>2 DEF ReadVector, TypeInv, TypeOK
    <3> QED BY <1>8, <3>1, <3>2
  <2>3. ASSUME ClientHas(link[s], 2) \/ ClientHas(link[s], 3)
        PROVE  ~Queued(s)
    <3>1. link[s].down # <<>>
      BY <2>3 DEF ClientHas
    <3> QED BY <2>1, <3>1 DEF LinkInv
  <2>4. /\ ClientCloses(link[s]).client = FALSE
        /\ ClientCloses(link[s]).server = link[s].server
        /\ ClientTakes(link[s], 3).client = link[s].client
        /\ ClientTakes(link[s], 3).server = link[s].server
    BY <1>0, Sides
  <2>5. link[s].client
    BY <2>1 DEF LinkInv
  <2> QED BY <1>6, <1>7, <2>1, <2>2, <2>3, <2>4, <2>5
<1>9. ASSUME InferDies
      PROVE  LinkInv'
  <2>1. infer'.at = "dead" /\ infer'.slot = s /\ UNCHANGED hidden /\ ~Fetching'
    BY <1>9 DEF InferDies, NextClient, TypeInv, TypeOK, Fetching
  <2>2. /\ \A i \in Slots : (Busy(i)' <=> Busy(i)) /\ (Queued(i)' <=> Queued(i))
        /\ Once(hidden.queue)' <=> Once(hidden.queue)
    BY <2>1 DEF Busy, Queued
  <2>3. \A i \in Slots : ~link'[i].client /\ link'[i].server = link[i].server
    BY <1>0, <1>9, Sides DEF InferDies
  <2>4. \A i \in Slots : (link'[i].server <=> Busy(i)' \/ Queued(i)') /\ ~(Busy(i)' /\ Queued(i)')
    BY <2>2, <2>3 DEF LinkInv
  <2> QED BY <2>1, <2>2, <2>3, <2>4 DEF LinkInv
<1> QED
  BY <1>3, <1>4, <1>5, <1>8, <1>9 DEF InferStep, BrokenPipe, Killed

LEMMA LinkHidden ==
    ASSUME TypeInv, LinkInv, HiddenStep \/ FusedStops
    PROVE  LinkInv'
<1> DEFINE s == infer.slot
<1>0. /\ link \in [Slots -> Connections(Words)] /\ s \in Slots
      /\ hidden.on \in Slots /\ hidden.queue \in Seq(Slots)
      /\ \A i \in Slots : link[i] \in Connections(Words)
  BY DEF TypeInv, TypeOK
<1>1. UNCHANGED infer /\ (Fetching' <=> Fetching)
  <2>1. UNCHANGED infer
    BY DEF HiddenStep, HiddenAccept, HiddenRead, HiddenExtract, Extract, FusedStops
  <2> QED BY <2>1 DEF Fetching
(* No side of t2m_infer changes, and the hidden port closes or keeps its own. *)
<1>2. ASSUME \A i \in Slots : link'[i].client = link[i].client,
             \A i \in Slots : link'[i].server => link[i].server,
             \A i \in Slots : (link'[i].server <=> Busy(i)' \/ Queued(i)')
                              /\ ~(Busy(i)' /\ Queued(i)'),
             Once(hidden'.queue),
             Queued(s)' /\ Fetching => link'[s].down = <<>>
      PROVE  LinkInv'
  <2>1. Queued(infer.slot)' <=> Queued(s)'
    BY <1>1 DEF Queued
  <2>2. Fetching' => link'[infer'.slot].client
    BY <1>0, <1>1, <1>2 DEF LinkInv
  <2>3. \A i \in Slots : link'[i].client /\ link'[i].server => Fetching' /\ i = infer'.slot
    BY <1>1, <1>2 DEF LinkInv
  <2> QED BY <1>1, <1>2, <2>1, <2>2, <2>3 DEF LinkInv
<1>3. CASE HiddenAccept
  <2> DEFINE q == hidden.queue
  <2>1. /\ UNCHANGED link /\ hidden.at = "accept" /\ q # <<>>
        /\ hidden'.at = "read" /\ hidden'.on = Head(q) /\ hidden'.queue = Tail(q)
    BY <1>3 DEF HiddenAccept, TypeInv, TypeOK
  <2>2. \A i : ~Busy(i) /\ (Busy(i)' <=> i = Head(q))
    BY <2>1 DEF Busy
  <2>3. /\ Once(Tail(q))
        /\ \A i : Queued(i) <=> i = Head(q) \/ Queued(i)'
        /\ \A i : i = Head(q) => ~Queued(i)'
    <3>1. q \in Seq(Slots) /\ Once(q)
      BY <1>0 DEF LinkInv
    <3>2. /\ Once(Tail(q)) /\ ~Lists(Tail(q), Head(q))
          /\ \A i : Lists(q, i) <=> i = Head(q) \/ Lists(Tail(q), i)
      BY <2>1, <3>1, Leaves
    <3>3. \A i : Queued(i)' <=> Lists(Tail(q), i)
      BY <2>1 DEF Queued
    <3> QED BY <3>2, <3>3 DEF Queued
  <2> HIDE DEF q
  <2>4. \A i \in Slots : (link'[i].server <=> Busy(i)' \/ Queued(i)') /\ ~(Busy(i)' /\ Queued(i)')
    <3>1. \A i \in Slots : link'[i].server <=> Queued(i)
      BY <2>1, <2>2 DEF LinkInv
    <3> HIDE DEF Busy, Queued
    <3> QED BY <2>2, <2>3, <3>1
  <2>5. Queued(s)' /\ Fetching => link'[s].down = <<>>
    <3>1. Queued(s)' => Queued(s)
      <4>1. \A i : Queued(i)' => Queued(i)
        BY <2>3
      <4>2. Queued(s)' <=> Lists(hidden'.queue, infer.slot)
        BY <1>1 DEF Queued
      <4> QED BY <4>1, <4>2 DEF Queued
    <3> QED BY <2>1, <3>1 DEF LinkInv
  <2> QED BY <1>2, <2>1, <2>3, <2>4, <2>5
(* The link that is served changes, and is served on or closed. *)
<1>4. ASSUME Busy(hidden.on), hidden'.on = hidden.on, hidden'.queue = hidden.queue,
             NEW c, link' = [link EXCEPT ![hidden.on] = c],
             c.client = link[hidden.on].client,
             c.server <=> hidden'.at \in {"read", "extract"}
      PROVE  LinkInv'
  <2>1. link'[hidden.on] = c /\ \A i \in Slots : i # hidden.on => link'[i] = link[i]
    BY <1>0, <1>4
  <2>2. /\ \A i : Busy(i)' <=> i = hidden.on /\ c.server
        /\ \A i : Queued(i)' <=> Queued(i)
    BY <1>4 DEF Busy, Queued
  <2>3. \A i : Busy(i) <=> i = hidden.on
    BY <1>4 DEF Busy
  <2>4. link[hidden.on].server /\ ~Queued(hidden.on)
    BY <1>0, <1>4 DEF LinkInv
  <2>5. \A i \in Slots : /\ link'[i].client = link[i].client
                         /\ link'[i].server => link[i].server
    BY <1>4, <2>1, <2>4
  <2>6. \A i \in Slots : (link'[i].server <=> Busy(i)' \/ Queued(i)') /\ ~(Busy(i)' /\ Queued(i)')
    BY <2>1, <2>2, <2>3, <2>4 DEF LinkInv
  <2>7. Queued(s)' /\ Fetching => link'[s].down = <<>>
    <3>1. Queued(s)' <=> Queued(s)
      BY <1>1, <1>4 DEF Queued
    <3>2. Queued(s) => s # hidden.on
      BY <2>4
    <3> QED BY <1>0, <2>1, <3>1, <3>2 DEF LinkInv
  <2>8. Once(hidden'.queue)
    BY <1>4 DEF LinkInv
  <2> QED BY <1>2, <2>5, <2>6, <2>7, <2>8
<1>5. CASE HiddenRead
  <2>1. hidden.at = "read" /\ Busy(hidden.on) /\ link[hidden.on].server
    <3>1. hidden.at = "read" /\ Busy(hidden.on)
      BY <1>5 DEF HiddenRead, Busy
    <3> QED BY <1>0, <3>1 DEF LinkInv
  <2>2. /\ ServerTakes(link[hidden.on], 2).client = link[hidden.on].client
        /\ ServerTakes(link[hidden.on], 2).server = link[hidden.on].server
        /\ ServerCloses(link[hidden.on]).client = link[hidden.on].client
        /\ ServerCloses(link[hidden.on]).server = FALSE
    <3>1. link[hidden.on] \in Connections(Words)
      BY <1>0
    <3> QED BY <3>1, Sides
  <2>3. CASE ServerHas(link[hidden.on], 2)
    <3>1. /\ link' = [link EXCEPT ![hidden.on] = ServerTakes(@, 2)]
          /\ hidden'.at = "extract" /\ hidden'.on = hidden.on /\ hidden'.queue = hidden.queue
      BY <1>5, <2>3 DEF HiddenRead, TypeInv, TypeOK
    <3> QED BY <1>4, <2>1, <2>2, <3>1
  <2>4. CASE ~ServerHas(link[hidden.on], 2)
    <3>1. /\ link' = [link EXCEPT ![hidden.on] = ServerCloses(@)]
          /\ hidden'.at = "accept" /\ hidden'.on = hidden.on /\ hidden'.queue = hidden.queue
      BY <1>5, <2>4 DEF HiddenRead, Drop, TypeInv, TypeOK
    <3> QED BY <1>4, <2>1, <2>2, <3>1
  <2> QED BY <2>3, <2>4
<1>6. CASE HiddenExtract
  <2>1. hidden.at = "extract" /\ Busy(hidden.on) /\ link[hidden.on].server
    <3>1. hidden.at = "extract" /\ Busy(hidden.on)
      BY <1>6 DEF HiddenExtract, Busy
    <3> QED BY <1>0, <3>1 DEF LinkInv
  <2>2. /\ \E x : link' = [link EXCEPT ![hidden.on] = ServerSends(@, x)]
        /\ hidden'.at = "read" /\ hidden'.on = hidden.on /\ hidden'.queue = hidden.queue
    BY <1>6 DEF HiddenExtract, Extract, TypeInv, TypeOK
  <2>3. \A x : /\ ServerSends(link[hidden.on], x).client = link[hidden.on].client
               /\ ServerSends(link[hidden.on], x).server = link[hidden.on].server
    BY <1>0, Sides
  <2> QED BY <1>4, <2>1, <2>2, <2>3
<1>7. CASE FusedStops
  <2>1. hidden'.at = "dead" /\ hidden'.queue = <<>>
    BY <1>7 DEF FusedStops, Drop, TypeInv, TypeOK
  <2>2. Once(hidden'.queue) /\ \A i : ~Busy(i)' /\ ~Queued(i)'
    <3>1. Len(hidden'.queue) = 0
      BY <2>1
    <3> QED BY <2>1, <3>1 DEF Busy, Queued, Lists, Once
  <2>3. PICK n \in 0 .. 4 :
          link' = [i \in Slots |-> ServerCloses(
                     IF n > 0 /\ i = hidden.on
                     THEN ServerSends(link[i], SubSeq(VectorReply(hidden.prompt), 1, n))
                     ELSE link[i])]
    BY <1>7 DEF FusedStops
  <2> DEFINE part == SubSeq(VectorReply(hidden.prompt), 1, n)
  <2>4. part \in Seq(Words)
    <3> DEFINE all == VectorReply(hidden.prompt)
    <3>1. hidden.prompt \in Prompts \cup {None}
      BY DEF TypeInv, TypeOK
    <3>2. all \in Seq(Words) /\ Len(all) = 5
      BY <3>1, WordTypes DEF VectorReply
    <3> HIDE DEF all
    <3>3. n \in Nat /\ ~(n > Len(all))
      BY <3>2
    <3> QED BY <3>2, <3>3, Rest DEF all
  <2> HIDE DEF part
  <2>5. ASSUME NEW i \in Slots
        PROVE  link'[i].client = link[i].client /\ ~link'[i].server
    <3>1. link[i] \in Connections(Words) /\ link[i] \in Conns(Words, Words)
      BY <1>0 DEF Connections, Conns
    <3>2. /\ ServerSends(link[i], part) \in Connections(Words)
          /\ ServerSends(link[i], part).client = link[i].client
      <4>1. ServerSends(link[i], part) \in Conns(Words, Words)
        BY <2>4, <3>1, ConnTypes
      <4> QED BY <3>1, <4>1, Sides DEF Connections, Conns
    <3>3. PICK c \in Connections(Words) :
            c.client = link[i].client /\ link'[i] = ServerCloses(c)
      BY <2>3, <2>5, <3>1, <3>2 DEF part
    <3>4. ServerCloses(c).client = c.client /\ ServerCloses(c).server = FALSE
      BY Sides
    <3> QED BY <3>3, <3>4
  <2> QED BY <1>2, <2>2, <2>5
<1> QED
  BY <1>3, <1>5, <1>6, <1>7 DEF HiddenStep

LEMMA SocketInvariant == Spec => [](TypeInv /\ FrontInv /\ LinkInv)
<1>1. Init => FrontInv
  <2> SUFFICES ASSUME Init PROVE FrontInv
    OBVIOUS
  <2>1. /\ \A w \in Askers : conn[w].server = FALSE /\ pc[w] = "idle" /\ w # None
        /\ infer.for = None /\ infer.queue = <<>>
    BY PipelineAssumption DEF Init, NoConnection, Askers
  <2>2. Len(infer.queue) = 0
    BY <2>1
  <2>3. \A w \in Askers : ~Waits(w)
    BY <2>2 DEF Waits
  <2> QED BY <2>1, <2>2, <2>3 DEF FrontInv
<1>2. Init => LinkInv
  <2> SUFFICES ASSUME Init PROVE LinkInv
    OBVIOUS
  <2>1. /\ \A i \in Slots : link[i] = NoConnection
        /\ infer.at = "accept" /\ hidden.at = "accept" /\ hidden.queue = <<>>
    BY DEF Init
  <2>2. Len(hidden.queue) = 0
    BY <2>1
  <2>3. Once(hidden.queue) /\ \A i : ~Busy(i) /\ ~Queued(i)
    BY <2>1, <2>2 DEF Busy, Queued, Once, Lists
  <2>4. \A i \in Slots : link[i].client = FALSE /\ link[i].server = FALSE
    BY <2>1 DEF NoConnection
  <2> QED BY <2>1, <2>3, <2>4 DEF LinkInv, Fetching
<1>3. TypeInv /\ FrontInv /\ LinkInv /\ [Next]_vars => FrontInv' /\ LinkInv'
  <2> SUFFICES ASSUME TypeInv, FrontInv, LinkInv, [Next]_vars
               PROVE  FrontInv' /\ LinkInv'
    OBVIOUS
  <2>1. CASE UNCHANGED vars
    <3>1. LinkInv'
      BY <2>1, LinkSame DEF vars
    <3> QED BY <2>1, <3>1, FrontHidden
  <2>2. CASE \E w \in Askers : Ask(w) \/ AskerStep(w) \/ HangUp(w)
    BY <2>2, FrontAsker, LinkAsker
  <2>3. CASE InferStep \/ Killed
    BY <2>3, FrontInfer, LinkInfer
  <2>4. CASE HiddenStep \/ FusedStops
    BY <2>4, FrontHidden, LinkHidden
  <2> QED BY <2>1, <2>2, <2>3, <2>4 DEF Next
<1> QED BY <1>1, <1>2, <1>3, TypeInvariant, PTL DEF Spec

(***************************************************************************)
(* No connection is left over alive, whatever fails and however many       *)
(* sockets t2m_infer may hold: what fetch_hidden threw past is closed at   *)
(* the hidden port's side, and a socket that was accepted belongs to the   *)
(* peer that is served or to one that waits to be.                         *)
(***************************************************************************)
THEOREM AlwaysNoLiveLeftover == Spec => []NoLiveLeftover
<1>1. TypeInv /\ FrontInv /\ LinkInv => NoLiveLeftover
  <2> SUFFICES ASSUME TypeInv, FrontInv, LinkInv PROVE NoLiveLeftover
    OBVIOUS
  <2>1. \A i \in Slots : link[i].client /\ link[i].server =>
          infer.at \in {"head", "vector"} /\ i = infer.slot
    BY DEF LinkInv, Fetching
  <2>2. \A i \in Slots : link[i].server =>
          \/ hidden.at \in {"read", "extract"} /\ i = hidden.on
          \/ \E k \in 1 .. Len(hidden.queue) : hidden.queue[k] = i
    BY DEF LinkInv, Busy, Queued, Lists
  <2>3. \A w \in Askers : conn[w].server =>
          w = infer.for \/ \E k \in 1 .. Len(infer.queue) : infer.queue[k] = w
    BY DEF FrontInv, Waits
  <2> QED BY <2>1, <2>2, <2>3 DEF NoLiveLeftover
<1> QED BY <1>1, SocketInvariant, PTL

-----------------------------------------------------------------------------
(* Whose prompt is where. *)

AllOf(s, p) == \A k \in 1 .. Len(s) : s[k].of = p

(* t2m_infer works on the prompt of the asker whose connection it reads. *)
PromptInv ==
    /\ \A w \in Askers : AllOf(conn[w].up, Prompt(w))
    /\ \A w \in Askers : conn[w].server => class[w] # "bad"
    /\ \A w \in Askers : pc[w] \notin {"idle", "lock", "parse"} => class[w] # "bad"
    /\ infer.at \in Serving \ {"len", "failed", "senderror"} =>
         infer.prompt = Prompt(infer.for) /\ class[infer.for] \notin {"bad", "huge"}

(* The link in use brings the vector of that prompt, if any. *)
Served == hidden.at = "extract" /\ hidden.on = infer.slot

LinkCarries(c, p) ==
    /\ AllOf(c.up, p)
    /\ Len(c.up) <= 2
    /\ p.class = "empty" => Len(c.up) <= 1
    /\ c.down # <<>> \/ infer.at = "vector" \/ Served => c.up = <<>>
    /\ Served => /\ infer.at = "head" /\ c.down = <<>>
                 /\ hidden.prompt = p /\ p.class # "empty"
    /\ \/ p.class = "fits" /\ AllOf(c.down, p)
       \/ infer.at = "head" /\ (c.down = <<>> \/ c.down[1].is # "ok")

BackInv ==
    /\ Fetching => LinkCarries(link[infer.slot], infer.prompt)
    /\ infer.at \in {"infer", "done", "sendmotion"} =>
         infer.vector = infer.prompt /\ infer.prompt.class = "fits"

(* An asker that was told of success receives the clip of its own prompt. *)
Replying(w) == infer.for = w /\ infer.at \in {"sendmotion", "senderror"}

ReplyFits(w, c) ==
    /\ pc[w] = "motion" => class[w] = "fits" /\ AllOf(c.down, Prompt(w))
    /\ pc[w] = "status" => \/ c.down = <<>> \/ c.down[1].is # "ok"
                           \/ class[w] = "fits" /\ AllOf(Tail(c.down), Prompt(w))
    /\ c.client /\ c.server /\ ~Replying(w) => pc[w] = "status" /\ c.down = <<>>
    /\ c.client /\ infer.for = w /\ infer.at = "senderror" =>
         /\ pc[w] # "motion"
         /\ pc[w] = "status" => c.down # <<>> /\ c.down[1].is # "ok"

ClipInv ==
    /\ \A w \in Askers : ReplyFits(w, conn[w])
    /\ \A w \in Askers : pc[w] \in {"mkdir", "write", "convert", "read"} =>
         class[w] = "fits" /\ clip[w] = Prompt(w)

LEMMA AllOfParts ==
    ASSUME NEW S, NEW p, NEW s \in Seq(S), AllOf(s, p)
    PROVE  /\ \A n \in Nat : AllOf(SubSeq(s, n + 1, Len(s)), p)
           /\ \A n \in 0 .. Len(s) : AllOf(SubSeq(s, 1, n), p)
           /\ s # <<>> => AllOf(Tail(s), p)
<1>0. Len(s) \in Nat
  OBVIOUS
<1>1. ASSUME NEW n \in Nat
      PROVE  AllOf(SubSeq(s, n + 1, Len(s)), p)
  <2> DEFINE t == SubSeq(s, n + 1, Len(s))
  <2>1. CASE n <= Len(s)
    <3>1. Len(t) = Len(s) - n /\ \A i \in 1 .. Len(s) - n : t[i] = s[i + n]
      BY <2>1, Rest
    <3> HIDE DEF t
    <3>2. \A i \in 1 .. Len(t) : i + n \in 1 .. Len(s) /\ t[i] = s[i + n]
      BY <1>0, <2>1, <3>1
    <3>3. AllOf(t, p)
      BY <3>2 DEF AllOf
    <3> QED BY <3>3 DEF t
  <2>2. CASE n > Len(s)
    <3>1. Len(t) = 0
      BY <1>0, <2>2, SubSeqProperties
    <3> HIDE DEF t
    <3>2. AllOf(t, p)
      BY <3>1 DEF AllOf
    <3> QED BY <3>2 DEF t
  <2> QED BY <1>0, <2>1, <2>2
<1>2. ASSUME NEW n \in 0 .. Len(s)
      PROVE  AllOf(SubSeq(s, 1, n), p)
  <2> DEFINE t == SubSeq(s, 1, n)
  <2>1. Len(t) = n /\ \A i \in 1 .. n : t[i] = s[i]
    BY <1>0, SubSeqProperties
  <2> HIDE DEF t
  <2>2. AllOf(t, p)
    BY <1>0, <2>1 DEF AllOf
  <2> QED BY <2>2 DEF t
<1>3. ASSUME s # <<>>
      PROVE  AllOf(Tail(s), p)
  <2> DEFINE t == Tail(s)
  <2>1. Len(t) = Len(s) - 1 /\ \A i \in 1 .. Len(s) - 1 : t[i] = s[i + 1]
    BY <1>3, HeadTailProperties
  <2> HIDE DEF t
  <2>2. \A i \in 1 .. Len(t) : i + 1 \in 1 .. Len(s) /\ t[i] = s[i + 1]
    BY <1>0, <2>1
  <2>3. AllOf(t, p)
    BY <2>2 DEF AllOf
  <2> QED BY <2>3 DEF t
<1> QED BY <1>1, <1>2, <1>3

LEMMA AllOfJoined ==
    ASSUME NEW S, NEW p, NEW s \in Seq(S), NEW t \in Seq(S), AllOf(s, p), AllOf(t, p)
    PROVE  AllOf(s \o t, p)
<1> DEFINE u == s \o t
<1>1. /\ Len(s) \in Nat /\ Len(t) \in Nat /\ Len(u) = Len(s) + Len(t)
      /\ \A i \in 1 .. Len(s) : u[i] = s[i]
      /\ \A i \in 1 .. Len(t) : u[Len(s) + i] = t[i]
  BY ConcatProperties
<1> HIDE DEF u
<1>2. ASSUME NEW i \in 1 .. Len(u)
      PROVE  u[i].of = p
  <2>1. CASE i <= Len(s)
    BY <1>1, <2>1 DEF AllOf
  <2>2. CASE i > Len(s)
    <3>1. i - Len(s) \in 1 .. Len(t) /\ Len(s) + (i - Len(s)) = i
      BY <1>1, <2>2
    <3>2. u[i] = t[i - Len(s)]
      BY <1>1, <3>1
    <3> QED BY <3>1, <3>2 DEF AllOf
  <2> QED BY <1>1, <2>1, <2>2
<1>3. AllOf(u, p)
  BY <1>2 DEF AllOf
<1> QED BY <1>3 DEF u

(* The words of a request, of a reply and of a vector are about one prompt. *)
LEMMA AllOfWords ==
    ASSUME NEW p
    PROVE  /\ AllOf(<<>>, p)
           /\ AllOf(Request(p), p)
           /\ AllOf(HiddenRequest(p), p)
           /\ AllOf(MotionReply(p), p)
           /\ AllOf(VectorReply(p), p)
           /\ Len(HiddenRequest(p)) = IF p.class = "empty" THEN 1 ELSE 2
<1>1. \A is : Word(is, p).of = p
  BY DEF Word
<1>2. AllOf(<<>>, p)
  BY DEF AllOf
<1> DEFINE W == {Word(is, p) : is \in {"len", "prompt", "duration", "seed"}}
<1>3. /\ Word("len", p) \in W /\ Word("prompt", p) \in W
      /\ Word("duration", p) \in W /\ Word("seed", p) \in W
  OBVIOUS
<1>4. \A e \in W : e.of = p
  BY <1>1
<1> HIDE DEF W
<1>5. ASSUME NEW s \in Seq(W)
      PROVE  AllOf(s, p)
  <2>1. \A k \in 1 .. Len(s) : s[k] \in W
    OBVIOUS
  <2> QED BY <1>4, <2>1 DEF AllOf
<1>6. Bytes(p) \in Seq(W) /\ Len(Bytes(p)) = IF p.class = "empty" THEN 0 ELSE 1
  BY <1>3 DEF Bytes
<1>7. /\ HiddenRequest(p) \in Seq(W)
      /\ Len(HiddenRequest(p)) = IF p.class = "empty" THEN 1 ELSE 2
  <2> DEFINE s == <<Word("len", p)>>
             t == Bytes(p)
  <2>1. s \in Seq(W) /\ Len(s) = 1
    BY <1>3
  <2>2. t \in Seq(W) /\ Len(t) = IF p.class = "empty" THEN 0 ELSE 1
    BY <1>6
  <2>3. HiddenRequest(p) = s \o t
    BY DEF HiddenRequest
  <2> HIDE DEF s, t
  <2> QED BY <2>1, <2>2, <2>3, ConcatProperties
<1>8. Request(p) \in Seq(W)
  <2> DEFINE s == <<Word("len", p)>> \o Bytes(p)
             t == <<Word("duration", p), Word("seed", p)>>
  <2>1. s \in Seq(W)
    BY <1>7 DEF HiddenRequest
  <2>2. t \in Seq(W)
    BY <1>3
  <2>3. Request(p) = s \o t
    BY DEF Request
  <2> HIDE DEF s, t
  <2> QED BY <2>1, <2>2, <2>3, ConcatProperties
<1>9. AllOf(MotionReply(p), p)
  BY <1>1 DEF AllOf, MotionReply
<1>10. AllOf(VectorReply(p), p)
  BY <1>1 DEF AllOf, VectorReply
<1> QED BY <1>2, <1>5, <1>7, <1>8, <1>9, <1>10

(* Closing forgets words, and changes none. *)
LEMMA Forgets ==
    ASSUME NEW c \in Connections(Words)
    PROVE  /\ ClientCloses(c).up \in {c.up, <<>>} /\ ClientCloses(c).down = <<>>
           /\ ServerCloses(c).up \in {c.up, <<>>} /\ ServerCloses(c).down \in {c.down, <<>>}
           /\ c.client => ServerCloses(c).up = c.up /\ ServerCloses(c).down = c.down
<1>1. /\ [c EXCEPT !.client = FALSE, !.down = <<>>].up = c.up
      /\ [c EXCEPT !.client = FALSE, !.down = <<>>].down = <<>>
      /\ [c EXCEPT !.server = FALSE].up = c.up
      /\ [c EXCEPT !.server = FALSE].down = c.down
  BY DEF Connections
<1>2. NoConnection.up = <<>> /\ NoConnection.down = <<>>
  BY DEF NoConnection
<1>3. ClientCloses(c).up \in {c.up, <<>>} /\ ClientCloses(c).down = <<>>
  <2>1. CASE c.server
    BY <1>1, <2>1, Zenon DEF ClientCloses
  <2>2. CASE ~c.server
    BY <1>2, <2>2, Zenon DEF ClientCloses
  <2> QED BY <2>1, <2>2
<1>4. /\ ServerCloses(c).up \in {c.up, <<>>} /\ ServerCloses(c).down \in {c.down, <<>>}
      /\ c.client => ServerCloses(c).up = c.up /\ ServerCloses(c).down = c.down
  <2>1. CASE c.client
    BY <1>1, <2>1, Zenon DEF ServerCloses
  <2>2. CASE ~c.client
    BY <1>2, <2>2, Zenon DEF ServerCloses
  <2> QED BY <2>1, <2>2
<1> QED BY <1>3, <1>4

(* What a step of the askers does to t2m_infer: at most a line in its queue. *)
LEMMA InferApart ==
    ASSUME TypeInv, NEW w \in Askers, Ask(w) \/ AskerStep(w) \/ HangUp(w)
    PROVE  /\ infer'.at = infer.at /\ infer'.for = infer.for /\ infer'.slot = infer.slot
           /\ infer'.prompt = infer.prompt /\ infer'.vector = infer.vector
           /\ UNCHANGED <<link, hidden>>
<1>1. CASE Call(w)
  BY <1>1 DEF Call, TypeInv, TypeOK
<1>2. CASE ~Call(w)
  BY <1>2 DEF Ask, AskerStep, HangUp, Lock, Parse, ReadStatus, ReadError, ReadMotion,
              CutOff, MakeDir, Write, Convert, UseDir, ReadFile
<1> QED BY <1>1, <1>2

LEMMA PromptAsker ==
    ASSUME TypeInv, FrontInv, PromptInv,
           NEW w \in Askers, Ask(w) \/ AskerStep(w) \/ HangUp(w)
    PROVE  PromptInv'
<1>0. /\ conn \in [Askers -> Connections(Words)] /\ DOMAIN pc = Askers
      /\ pc = [v \in Askers |-> pc[v]] /\ conn[w] \in Connections(Words)
      /\ class \in [Askers -> Classes]
  BY DEF TypeInv, TypeOK
<1>1. infer'.at = infer.at /\ infer'.for = infer.for /\ infer'.prompt = infer.prompt
  BY InferApart
<1>2. infer.at \in Serving => infer.for \in Askers /\ conn[infer.for].server
  BY DEF TypeInv, PlacesInv, FrontInv
<1>3. ASSUME UNCHANGED class, NEW c, conn' = [conn EXCEPT ![w] = c],
             AllOf(c.up, Prompt(w)), c.server => class[w] # "bad",
             NEW place, Goto(w, place),
             place \notin {"idle", "lock", "parse"} => class[w] # "bad"
      PROVE  PromptInv'
  <2>1. \A v : Prompt(v)' = Prompt(v)
    BY <1>3 DEF Prompt
  <2>2. \A v \in Askers : conn'[v] = IF v = w THEN c ELSE conn[v]
    BY <1>0, <1>3
  <2>3. \A v \in Askers : AllOf(conn'[v].up, Prompt(v))
    BY <1>3, <2>2 DEF PromptInv
  <2>4. \A v \in Askers : AllOf(conn[v].up, Prompt(v))'
    BY <2>1, <2>3 DEF AllOf
  <2>5. \A v \in Askers : conn'[v].server => class'[v] # "bad"
    BY <1>3, <2>2 DEF PromptInv
  <2>6. \A v \in Askers : pc'[v] \notin {"idle", "lock", "parse"} => class'[v] # "bad"
    BY <1>0, <1>3 DEF PromptInv, Goto
  <2>7. infer'.at \in Serving \ {"len", "failed", "senderror"} =>
          infer'.prompt = Prompt(infer.for)' /\ class'[infer'.for] \notin {"bad", "huge"}
    BY <1>1, <1>3, <2>1 DEF PromptInv, Prompt
  <2> QED BY <2>4, <2>5, <2>6, <2>7 DEF PromptInv
<1>4. ASSUME UNCHANGED <<class, conn>>, NEW place, Goto(w, place),
             place \notin {"idle", "lock", "parse"} => class[w] # "bad"
      PROVE  PromptInv'
  <2>1. conn' = [conn EXCEPT ![w] = conn[w]]
    BY <1>0, <1>4
  <2> QED BY <1>3, <1>4, <2>1 DEF PromptInv
<1>5. CASE Ask(w)
  <2>1. PICK c \in Classes :
          /\ c \in IF w \in Threads THEN Posted ELSE Sent
          /\ class' = [class EXCEPT ![w] = c]
    BY <1>5, PipelineAssumption DEF Ask
  <2>2. UNCHANGED conn /\ conn[w] = NoConnection
        /\ pc' = [pc EXCEPT ![w] = IF w \in Threads THEN "lock" ELSE "call"]
    BY <1>5 DEF Ask, Goto
  <2>3. \A v \in Askers \ {w} : Prompt(v)' = Prompt(v) /\ class'[v] = class[v]
    BY <1>0, <2>1 DEF Prompt
  <2>4. conn[w].up = <<>> /\ ~conn[w].server
    BY <2>2 DEF NoConnection
  <2>5. \A v \in Askers : AllOf(conn[v].up, Prompt(v))'
    <3>1. AllOf(conn[w].up, Prompt(w))'
      BY <2>2, <2>4 DEF AllOf
    <3>2. ASSUME NEW v \in Askers \ {w}
          PROVE  AllOf(conn[v].up, Prompt(v))'
      BY <2>2, <2>3 DEF PromptInv, AllOf
    <3> QED BY <3>1, <3>2
  <2>6. \A v \in Askers : conn'[v].server => class'[v] # "bad"
    BY <2>2, <2>3, <2>4 DEF PromptInv
  <2>7. \A v \in Askers : pc'[v] \notin {"idle", "lock", "parse"} => class'[v] # "bad"
    <3>1. w \notin Threads => class'[w] # "bad"
      BY <1>0, <2>1, PipelineAssumption
    <3> QED BY <1>0, <2>2, <2>3, <3>1 DEF PromptInv
  <2>8. infer'.at \in Serving \ {"len", "failed", "senderror"} =>
          infer'.prompt = Prompt(infer.for)' /\ class'[infer'.for] \notin {"bad", "huge"}
    BY <1>1, <1>2, <2>3, <2>4 DEF PromptInv, Prompt
  <2> QED BY <2>5, <2>6, <2>7, <2>8 DEF PromptInv
<1>6. CASE Lock(w) \/ Parse(w)
  <2>1. UNCHANGED <<class, conn>>
    BY <1>6 DEF Lock, Parse, Respond
  <2>2. \E place : Goto(w, place) /\ (place \notin {"idle", "lock", "parse"} => class[w] # "bad")
    BY <1>6 DEF Lock, Parse, Respond
  <2> QED BY <1>4, <2>1, <2>2
<1>7. CASE MakeDir(w) \/ Write(w) \/ Convert(w) \/ ReadFile(w)
  <2>1. UNCHANGED <<class, conn>> /\ pc[w] \in {"mkdir", "write", "convert", "read"}
    BY <1>7 DEF MakeDir, Write, Convert, UseDir, ReadFile, Fails, Respond
  <2>2. \E place : Goto(w, place)
    BY <1>7 DEF MakeDir, Write, Convert, UseDir, ReadFile, Fails, Respond
  <2>3. class[w] # "bad"
    BY <2>1 DEF PromptInv
  <2> QED BY <1>4, <2>1, <2>2, <2>3
<1>8. CASE Call(w)
  <2>0. class[w] # "bad"
    BY <1>8 DEF PromptInv, Call
  <2>1. CASE infer.at = "dead"
    <3>1. UNCHANGED <<class, conn>> /\ \E place : Goto(w, place)
      BY <1>8, <2>1 DEF Call, Fails, Respond
    <3> QED BY <1>4, <2>0, <3>1
  <2>2. CASE infer.at # "dead"
    <3>1. /\ UNCHANGED class /\ \E place : Goto(w, place)
          /\ conn' = [conn EXCEPT ![w] = Opened(Request(Prompt(w)))]
      BY <1>8, <2>2 DEF Call
    <3>2. AllOf(Opened(Request(Prompt(w))).up, Prompt(w))
      BY AllOfWords DEF Opened
    <3> QED BY <1>3, <2>0, <3>1, <3>2
  <2> QED BY <2>1, <2>2
<1>9. CASE ReadStatus(w) \/ ReadError(w) \/ ReadMotion(w) \/ HangUp(w)
  <2>0. class[w] # "bad" /\ AllOf(conn[w].up, Prompt(w))
    BY <1>9 DEF PromptInv, ReadStatus, ReadError, ReadMotion, HangUp
  <2>1. UNCHANGED class /\ \E place : Goto(w, place)
    BY <1>9 DEF ReadStatus, ReadError, ReadMotion, HangUp, CutOff, Fails, Respond
  <2>2. \/ conn' = [conn EXCEPT ![w] = ClientTakes(@, 1)]
        \/ conn' = [conn EXCEPT ![w] = ClientCloses(@)]
        \/ \E n \in 0 .. Len(conn[w].up) : conn' = [conn EXCEPT ![w] = ClientCloses(SentOnly(@, n))]
    BY <1>9 DEF ReadStatus, ReadError, ReadMotion, HangUp, CutOff
  <2>3. AllOf(ClientTakes(conn[w], 1).up, Prompt(w))
    BY <1>0, <2>0, Sides
  <2>4. AllOf(ClientCloses(conn[w]).up, Prompt(w))
    BY <1>0, <2>0, Forgets, AllOfWords
  <2>5. ASSUME NEW n \in 0 .. Len(conn[w].up)
        PROVE  AllOf(ClientCloses(SentOnly(conn[w], n)).up, Prompt(w))
    <3> DEFINE d == SentOnly(conn[w], n)
    <3>1. d \in Connections(Words)
      <4>1. conn[w] \in Conns(Words, Words)
        BY <1>0 DEF Connections, Conns
      <4>2. d \in Conns(Words, Words)
        BY <4>1, ConnTypes
      <4> QED BY <4>2 DEF Connections, Conns
    <3>2. d.up = SubSeq(conn[w].up, 1, n)
      BY <1>0 DEF SentOnly, Connections
    <3>3. conn[w].up \in Seq(Words)
      BY <1>0 DEF Connections
    <3>4. AllOf(d.up, Prompt(w))
      BY <2>0, <3>2, <3>3, AllOfParts
    <3> HIDE DEF d
    <3>5. AllOf(ClientCloses(d).up, Prompt(w))
      BY <3>1, <3>4, Forgets, AllOfWords
    <3> QED BY <3>5 DEF d
  <2> QED BY <1>3, <2>0, <2>1, <2>2, <2>3, <2>4, <2>5
<1> QED
  BY <1>5, <1>6, <1>7, <1>8, <1>9 DEF AskerStep

LEMMA PromptInfer ==
    ASSUME TypeInv, FrontInv, PromptInv, InferStep \/ Killed
    PROVE  PromptInv'
<1> DEFINE Knows == Serving \ {"len", "failed", "senderror"}
           f == infer.for
<1>0. /\ conn \in [Askers -> Connections(Words)]
      /\ \A w \in Askers : conn[w] \in Connections(Words)
  BY DEF TypeInv, TypeOK
<1>1. infer.at \in Serving => f \in Askers /\ conn[f].server
  BY DEF TypeInv, PlacesInv, FrontInv
<1>2. UNCHANGED <<class, pc>>
  BY DEF InferStep, Killed, InferDies, BrokenPipe, Accept, ReadLen, ReadRest, ClientGone, Fetch,
         ReadHead, ReadVector, FetchCutOff, Infer, SendStatus, SendRest, handlerVars
<1>3. \A v : Prompt(v)' = Prompt(v)
  BY <1>2 DEF Prompt
<1>4. ASSUME \A w \in Askers : AllOf(conn'[w].up, Prompt(w)),
             \A w \in Askers : conn'[w].server => conn[w].server,
             infer'.at \in Knows => /\ infer'.prompt = Prompt(infer'.for)
                                    /\ class[infer'.for] \notin {"bad", "huge"}
      PROVE  PromptInv'
  <2>1. \A w \in Askers : AllOf(conn[w].up, Prompt(w))'
    BY <1>3, <1>4 DEF AllOf
  <2>2. Prompt(infer.for)' = Prompt(infer'.for)
    BY <1>2 DEF Prompt
  <2> QED BY <1>2, <1>4, <2>1, <2>2 DEF PromptInv
<1>5. ASSUME f \in Askers, NEW c, conn' = [conn EXCEPT ![f] = c],
             AllOf(c.up, Prompt(f)), c.server => conn[f].server,
             infer'.at \in Knows => /\ infer'.prompt = Prompt(infer'.for)
                                    /\ class[infer'.for] \notin {"bad", "huge"}
      PROVE  PromptInv'
  <2>1. \A w \in Askers : conn'[w] = IF w = f THEN c ELSE conn[w]
    BY <1>0, <1>5
  <2>2. \A w \in Askers : AllOf(conn'[w].up, Prompt(w))
    BY <1>5, <2>1 DEF PromptInv
  <2>3. \A w \in Askers : conn'[w].server => conn[w].server
    BY <1>5, <2>1
  <2> HIDE DEF f
  <2> QED BY <1>4, <1>5, <2>2, <2>3
<1>6. ASSUME UNCHANGED conn,
             infer'.at \in Knows => /\ infer'.prompt = Prompt(infer'.for)
                                    /\ class[infer'.for] \notin {"bad", "huge"}
      PROVE  PromptInv'
  BY <1>4, <1>6 DEF PromptInv
<1>7. ASSUME infer' = NextClient(infer)
      PROVE  infer'.at \notin Knows
  BY <1>7 DEF NextClient, Serving, InferAt, TypeInv, TypeOK
<1>8. ASSUME f \in Askers, NEW n, ClientGone(n)
      PROVE  PromptInv'
  <2>1. /\ AllOf(ServerCloses(conn[f]).up, Prompt(f)) /\ ServerCloses(conn[f]).server = FALSE
    BY <1>0, <1>8, Forgets, AllOfWords, Sides DEF PromptInv
  <2> QED BY <1>5, <1>7, <1>8, <2>1 DEF ClientGone
<1>9. CASE Accept
  <2>1. UNCHANGED conn /\ infer'.at = "len"
    BY <1>9 DEF Accept, TypeInv, TypeOK
  <2> QED BY <1>6, <2>1
(* What has been read of the prompt is about the prompt. *)
<1>10. ASSUME f \in Askers, NEW n \in Nat, 1 <= n, ServerHas(conn[f], n)
       PROVE  /\ conn[f].up[1].of = Prompt(f)
              /\ AllOf(ServerTakes(conn[f], n).up, Prompt(f))
              /\ ServerTakes(conn[f], n).server = conn[f].server
  <2>1. conn[f].up \in Seq(Words) /\ Len(conn[f].up) \in Nat
    BY <1>0, <1>10 DEF Connections
  <2>2. AllOf(conn[f].up, Prompt(f))
    BY <1>10 DEF PromptInv
  <2>3. conn[f].up[1].of = Prompt(f)
    BY <1>10, <2>1, <2>2 DEF ServerHas, AllOf
  <2>4. ServerTakes(conn[f], n).up = SubSeq(conn[f].up, n + 1, Len(conn[f].up))
    BY <1>0, <1>10 DEF ServerTakes, Connections
  <2>5. AllOf(SubSeq(conn[f].up, n + 1, Len(conn[f].up)), Prompt(f))
    BY <1>10, <2>1, <2>2, AllOfParts
  <2>6. ServerTakes(conn[f], n).server = conn[f].server
    BY <1>0, <1>10, Sides
  <2> QED BY <2>3, <2>4, <2>5, <2>6
<1>11. CASE ReadLen
  <2>1. f \in Askers /\ conn[f].server /\ class[f] # "bad"
    BY <1>1, <1>11 DEF ReadLen, Serving, InferAt, PromptInv
  <2>2. CASE ClientGone(1)
    BY <1>8, <2>1, <2>2
  <2>3. CASE ~ClientGone(1)
    <3>1. /\ ServerHas(conn[f], 1) /\ conn' = [conn EXCEPT ![f] = ServerTakes(@, 1)]
          /\ IF conn[f].up[1].of.class = "huge"
             THEN infer' = [infer EXCEPT !.at = "failed"]
             ELSE infer' = [infer EXCEPT !.at = "rest", !.prompt = conn[f].up[1].of]
      BY <1>11, <2>3 DEF ReadLen, At
    <3>2. /\ conn[f].up[1].of = Prompt(f)
          /\ AllOf(ServerTakes(conn[f], 1).up, Prompt(f))
          /\ ServerTakes(conn[f], 1).server = conn[f].server
      <4>1. 1 \in Nat /\ 1 <= 1
        OBVIOUS
      <4> QED BY <1>10, <2>1, <3>1, <4>1
    <3>3. Prompt(f).class = class[f]
      BY DEF Prompt
    <3>4. infer'.at \in Knows => /\ infer'.prompt = Prompt(infer'.for)
                                 /\ class[infer'.for] \notin {"bad", "huge"}
      <4>1. CASE class[f] = "huge"
        BY <3>1, <3>2, <3>3, <4>1 DEF TypeInv, TypeOK
      <4>2. CASE class[f] # "huge"
        <5>1. infer' = [infer EXCEPT !.at = "rest", !.prompt = Prompt(f)]
          BY <3>1, <3>2, <3>3, <4>2
        <5>2. infer'.prompt = Prompt(f) /\ infer'.for = f
          BY <5>1 DEF TypeInv, TypeOK
        <5> QED BY <2>1, <4>2, <5>2
      <4> QED BY <4>1, <4>2
    <3> QED BY <1>5, <2>1, <3>1, <3>2, <3>4
  <2> QED BY <2>2, <2>3
<1>12. CASE ReadRest
  <2> DEFINE n == Len(Bytes(infer.prompt)) + 2
  <2>1. f \in Askers /\ infer.prompt = Prompt(f) /\ class[f] \notin {"bad", "huge"}
    BY <1>1, <1>12 DEF ReadRest, Serving, InferAt, PromptInv
  <2>2. n \in Nat /\ 1 <= n
    <3>1. Len(Bytes(infer.prompt)) \in {0, 1}
      BY DEF Bytes
    <3> QED BY <3>1
  <2>3. CASE ClientGone(n)
    BY <1>8, <2>1, <2>3
  <2>4. CASE ~ClientGone(n)
    <3>1. /\ ServerHas(conn[f], n) /\ conn' = [conn EXCEPT ![f] = ServerTakes(@, n)]
          /\ infer' = [infer EXCEPT !.at = "fetch", !.prompt = conn[f].up[1].of]
      BY <1>12, <2>4 DEF ReadRest
    <3> HIDE DEF n
    <3>2. /\ conn[f].up[1].of = Prompt(f)
          /\ AllOf(ServerTakes(conn[f], n).up, Prompt(f))
          /\ ServerTakes(conn[f], n).server = conn[f].server
      BY <1>10, <2>1, <2>2, <3>1
    <3>3. infer' = [infer EXCEPT !.at = "fetch", !.prompt = Prompt(f)]
      BY <3>1, <3>2
    <3>4. infer'.prompt = Prompt(f) /\ infer'.for = f
      BY <3>3 DEF TypeInv, TypeOK
    <3>5. infer'.prompt = Prompt(infer'.for) /\ class[infer'.for] \notin {"bad", "huge"}
      BY <2>1, <3>4
    <3> QED BY <1>5, <2>1, <3>1, <3>2, <3>5
  <2> QED BY <2>3, <2>4
(* The prompt is known, and stays while it is worked on. *)
<1>13. ASSUME infer.at \in Knows \/ infer'.at \notin Knows,
              infer'.for = f, infer'.prompt = infer.prompt
       PROVE  infer'.at \in Knows => /\ infer'.prompt = Prompt(infer'.for)
                                     /\ class[infer'.for] \notin {"bad", "huge"}
  BY <1>13 DEF PromptInv
<1>14. CASE Fetch \/ ReadHead \/ ReadVector \/ Infer
  <2>1. UNCHANGED conn /\ infer.at \in Knows
    BY <1>14 DEF Fetch, ReadHead, ReadVector, FetchCutOff, Infer, Serving, InferAt
  <2>2. infer'.for = f /\ infer'.prompt = infer.prompt
    <3>1. CASE Fetch
      BY <3>1 DEF Fetch, At, TypeInv, TypeOK
    <3>2. CASE ReadHead
      BY <3>2 DEF ReadHead, FetchCutOff, At, TypeInv, TypeOK
    <3>3. CASE ReadVector
      BY <3>3 DEF ReadVector, FetchCutOff, At, TypeInv, TypeOK
    <3>4. CASE Infer
      BY <3>4 DEF Infer, At, TypeInv, TypeOK
    <3> QED BY <1>14, <3>1, <3>2, <3>3, <3>4
  <2> QED BY <1>6, <1>13, <2>1, <2>2
<1>15. CASE SendStatus
  <2>1. f \in Askers
    BY <1>1, <1>15 DEF SendStatus, Serving, InferAt
  <2>2. /\ \E s : conn' = [conn EXCEPT ![f] = ServerSends(@, s)]
        /\ infer'.for = f /\ infer'.prompt = infer.prompt
        /\ infer.at = "done" \/ infer'.at = "senderror"
    BY <1>15 DEF SendStatus, At, TypeInv, TypeOK
  <2>3. \A s : /\ AllOf(ServerSends(conn[f], s).up, Prompt(f))
               /\ ServerSends(conn[f], s).server = conn[f].server
    BY <1>0, <2>1, Sides DEF PromptInv
  <2>4. infer.at \in Knows \/ infer'.at \notin Knows
    BY <2>2 DEF Serving, InferAt
  <2>5. infer'.at \in Knows => /\ infer'.prompt = Prompt(infer'.for)
                               /\ class[infer'.for] \notin {"bad", "huge"}
    BY <1>13, <2>2, <2>4
  <2> QED BY <1>5, <2>1, <2>2, <2>3, <2>5
<1>16. CASE SendRest
  <2>1. f \in Askers /\ infer' = NextClient(infer)
    BY <1>1, <1>16 DEF SendRest, Serving, InferAt
  <2>2. PICK s \in Seq(Words) : conn' = [conn EXCEPT ![f] = ServerCloses(ServerSends(@, s))]
    <3>1. infer.vector \in Prompts \cup {None}
      BY DEF TypeInv, TypeOK
    <3>2. MotionReply(infer.vector) \in Seq(Words) /\ ErrorReply \in Seq(Words)
      BY <3>1, WordTypes
    <3> QED BY <1>16, <3>2 DEF SendRest
  <2> DEFINE d == ServerSends(conn[f], s)
  <2>3. d \in Connections(Words)
    <3>1. conn[f] \in Conns(Words, Words)
      BY <1>0, <2>1 DEF Connections, Conns
    <3>2. d \in Conns(Words, Words)
      BY <3>1, ConnTypes
    <3> QED BY <3>2 DEF Connections, Conns
  <2>4. AllOf(d.up, Prompt(f))
    BY <1>0, <2>1, Sides DEF PromptInv
  <2> HIDE DEF d
  <2>5. AllOf(ServerCloses(d).up, Prompt(f)) /\ ServerCloses(d).server = FALSE
    BY <2>3, <2>4, Forgets, AllOfWords, Sides
  <2> QED BY <1>5, <1>7, <2>1, <2>2, <2>5 DEF d
<1>17. ASSUME InferDies
       PROVE  PromptInv'
  <2>1. infer'.at = "dead"
    BY <1>17 DEF InferDies, NextClient, TypeInv, TypeOK
  <2>2. \A w \in Askers : conn'[w] = ServerCloses(conn[w])
    BY <1>17 DEF InferDies
  <2>3. \A w \in Askers : AllOf(conn'[w].up, Prompt(w)) /\ ~conn'[w].server
    <3> SUFFICES ASSUME NEW w \in Askers
                 PROVE  AllOf(conn'[w].up, Prompt(w)) /\ ~conn'[w].server
      OBVIOUS
    <3>1. /\ conn[w] \in Connections(Words) /\ conn'[w] = ServerCloses(conn[w])
          /\ AllOf(conn[w].up, Prompt(w))
      BY <1>0, <2>2 DEF PromptInv
    <3>2. ServerCloses(conn[w]).up \in {conn[w].up, <<>>}
          /\ ServerCloses(conn[w]).server = FALSE
      BY <3>1, Forgets, Sides
    <3>3. AllOf(<<>>, Prompt(w))
      BY AllOfWords
    <3> QED BY <3>1, <3>2, <3>3
  <2>4. infer'.at \notin Knows
    BY <2>1 DEF Serving
  <2> QED BY <1>4, <2>3, <2>4
<1> QED
  BY <1>9, <1>11, <1>12, <1>14, <1>15, <1>16, <1>17 DEF InferStep, BrokenPipe, Killed

LEMMA PromptHidden ==
    ASSUME PromptInv, HiddenStep \/ FusedStops \/ UNCHANGED vars
    PROVE  PromptInv'
<1>1. UNCHANGED <<pc, class, conn, infer>>
  BY DEF HiddenStep, HiddenAccept, HiddenRead, HiddenExtract, Extract, FusedStops,
         vars, handlerVars
<1> QED BY <1>1 DEF PromptInv, AllOf, Prompt

LEMMA BackSame ==
    ASSUME BackInv, UNCHANGED <<link, hidden>>, infer'.at = infer.at, infer'.slot = infer.slot,
           infer'.prompt = infer.prompt, infer'.vector = infer.vector
    PROVE  BackInv'
<1>1. (Fetching' <=> Fetching) /\ (Served' <=> Served)
  BY DEF Fetching, Served
<1>2. LinkCarries(link[infer.slot], infer.prompt)' <=> LinkCarries(link[infer.slot], infer.prompt)
  BY <1>1 DEF LinkCarries, AllOf
<1> QED BY <1>1, <1>2 DEF BackInv

LEMMA BackAsker ==
    ASSUME TypeInv, BackInv, NEW w \in Askers, Ask(w) \/ AskerStep(w) \/ HangUp(w)
    PROVE  BackInv'
  BY InferApart, BackSame

(* The new link in use, part by part. *)
LEMMA CarriesNext ==
    ASSUME NEW d, NEW p, link'[infer'.slot] = d, infer'.prompt = p,
           AllOf(d.up, p), Len(d.up) <= 2, p.class = "empty" => Len(d.up) <= 1,
           d.down # <<>> \/ infer'.at = "vector" \/ Served' => d.up = <<>>,
           Served' => /\ infer'.at = "head" /\ d.down = <<>>
                      /\ hidden'.prompt = p /\ p.class # "empty",
           \/ p.class = "fits" /\ AllOf(d.down, p)
           \/ infer'.at = "head" /\ (d.down = <<>> \/ d.down[1].is # "ok")
    PROVE  LinkCarries(link[infer.slot], infer.prompt)'
  BY DEF LinkCarries, AllOf

LEMMA BackInfer ==
    ASSUME TypeInv, LinkInv, PromptInv, BackInv, InferStep \/ Killed
    PROVE  BackInv'
<1> DEFINE s == infer.slot
           p == infer.prompt
           Holding == {"head", "vector", "infer", "done", "sendmotion"}
<1>0. /\ link \in [Slots -> Connections(Words)] /\ s \in Slots
      /\ link[s] \in Connections(Words) /\ link[s].down \in Seq(Words)
  BY DEF TypeInv, TypeOK, Connections
<1>1. ASSUME infer'.at \notin Holding
      PROVE  BackInv'
  BY <1>1 DEF BackInv, Fetching
<1>2. CASE Accept \/ ReadLen \/ ReadRest \/ SendRest \/ BrokenPipe \/ Killed
  <2>1. infer'.at \notin Holding
    <3>1. CASE Accept
      BY <3>1 DEF Accept, TypeInv, TypeOK
    <3>2. CASE ReadLen \/ ReadRest
      BY <3>2, Reading
    <3>3. CASE SendRest
      BY <3>3 DEF SendRest, NextClient, TypeInv, TypeOK
    <3>4. CASE BrokenPipe \/ Killed
      BY <3>4 DEF BrokenPipe, Killed, InferDies, NextClient, TypeInv, TypeOK
    <3> QED BY <1>2, <3>1, <3>2, <3>3, <3>4
  <2> QED BY <1>1, <2>1
<1>3. CASE Fetch
  <2>1. CASE At("failed")
    <3>1. infer'.at = "failed"
      BY <2>1 DEF At, TypeInv, TypeOK
    <3> QED BY <1>1, <3>1
  <2>2. ASSUME NEW o \in Slots, FirstFree(o),
               link' = [link EXCEPT ![o] = Opened(HiddenRequest(p))],
               infer' = [infer EXCEPT !.at = "head", !.slot = o],
               hidden' = [hidden EXCEPT !.queue = Append(@, o)]
        PROVE  BackInv'
    <3>1. /\ infer'.at = "head" /\ infer'.slot = o /\ infer'.prompt = p
          /\ hidden'.at = hidden.at /\ hidden'.on = hidden.on
      BY <2>2 DEF TypeInv, TypeOK
    <3>2. link'[infer'.slot] = Opened(HiddenRequest(p))
      BY <1>0, <2>2, <3>1
    <3>3. ~Served'
      <4>1. ~Busy(o)
        BY <2>2 DEF LinkInv, FirstFree, NoConnection
      <4> QED BY <3>1, <4>1 DEF Busy, Served
    <3> DEFINE d == Opened(HiddenRequest(p))
    <3>4. d.down = <<>> /\ AllOf(d.up, p) /\ Len(d.up) = IF p.class = "empty" THEN 1 ELSE 2
      <4>1. d.down = <<>> /\ d.up = HiddenRequest(p)
        BY DEF Opened
      <4> QED BY <4>1, AllOfWords
    <3> HIDE DEF d
    <3>5. /\ Len(d.up) <= 2
          /\ p.class = "empty" => Len(d.up) <= 1
      BY <3>4
    <3>6. LinkCarries(link[infer.slot], infer.prompt)'
      BY <3>1, <3>2, <3>3, <3>4, <3>5, CarriesNext DEF d
    <3> QED BY <3>1, <3>6 DEF BackInv
  <2> QED BY <1>3, <2>1, <2>2 DEF Fetch
<1>4. CASE ReadHead
  <2> DEFINE c == link[s]
  <2>0. infer.at = "head" /\ LinkCarries(c, p)
    BY <1>4 DEF ReadHead, BackInv, Fetching
  <2>1. CASE ClientHas(c, 3) /\ c.down[1].is = "ok" /\ ~FetchCutOff(3)
    <3>1. /\ link' = [link EXCEPT ![s] = ClientTakes(@, 3)]
          /\ infer' = [infer EXCEPT !.at = "vector"] /\ UNCHANGED hidden
      BY <1>4, <2>1 DEF ReadHead, At
    <3>2. /\ infer'.at = "vector" /\ infer'.slot = s /\ infer'.prompt = p
      BY <3>1 DEF TypeInv, TypeOK
    <3>3. link'[infer'.slot] = ClientTakes(c, 3)
      BY <1>0, <3>1, <3>2
    <3>4. c.down # <<>>
      BY <2>1 DEF ClientHas
    <3>5. c.up = <<>> /\ ~Served /\ p.class = "fits" /\ AllOf(c.down, p)
      BY <2>0, <2>1, <3>4 DEF LinkCarries
    <3>6. /\ ClientTakes(c, 3).up = <<>>
          /\ AllOf(ClientTakes(c, 3).down, p)
      <4>1. ClientTakes(c, 3).down = SubSeq(c.down, 3 + 1, Len(c.down))
        BY <1>0 DEF ClientTakes, Connections
      <4>2. AllOf(SubSeq(c.down, 3 + 1, Len(c.down)), p)
        BY <1>0, <3>5, AllOfParts
      <4> QED BY <1>0, <3>5, <4>1, <4>2, Sides
    <3>7. ~Served'
      BY <3>1, <3>2, <3>5 DEF Served
    <3>8. AllOf(<<>>, p)
      BY AllOfWords
    <3> DEFINE d == ClientTakes(c, 3)
    <3>9. d.up = <<>> /\ AllOf(d.down, p) /\ Len(d.up) = 0
      BY <3>6
    <3> HIDE DEF d
    <3>10. AllOf(d.up, p) /\ Len(d.up) <= 2 /\ Len(d.up) <= 1
      BY <3>8, <3>9
    <3>11. LinkCarries(link[infer.slot], infer.prompt)'
      BY <3>2, <3>3, <3>5, <3>7, <3>9, <3>10, CarriesNext DEF d
    <3> QED BY <3>2, <3>11 DEF BackInv
  <2>2. CASE ~(ClientHas(c, 3) /\ c.down[1].is = "ok") \/ FetchCutOff(3)
    <3>1. infer'.at = "failed"
      BY <1>4, <2>2 DEF ReadHead, FetchCutOff, At, TypeInv, TypeOK
    <3> QED BY <1>1, <3>1
  <2> QED BY <2>1, <2>2
<1>5. CASE ReadVector
  <2> DEFINE c == link[s]
  <2>0. infer.at = "vector" /\ LinkCarries(c, p)
    BY <1>5 DEF ReadVector, BackInv, Fetching
  <2>1. CASE FetchCutOff(2)
    <3>1. infer'.at = "failed"
      BY <2>1 DEF FetchCutOff, At, TypeInv, TypeOK
    <3> QED BY <1>1, <3>1
  <2>2. CASE ~FetchCutOff(2)
    <3>1. ClientHas(c, 2) /\ infer' = [infer EXCEPT !.at = "infer", !.vector = c.down[1].of]
      BY <1>5, <2>2 DEF ReadVector
    <3>2. p.class = "fits" /\ AllOf(c.down, p)
      BY <2>0 DEF LinkCarries
    <3>3. c.down[1].of = p
      <4>1. Len(c.down) >= 2 /\ Len(c.down) \in Nat
        BY <1>0, <3>1 DEF ClientHas
      <4> QED BY <3>2, <4>1 DEF AllOf
    <3>4. infer' = [infer EXCEPT !.at = "infer", !.vector = p]
      BY <3>1, <3>3
    <3>5. infer'.at = "infer" /\ infer'.prompt = p /\ infer'.vector = p
      BY <3>4 DEF TypeInv, TypeOK
    <3> QED BY <3>2, <3>5 DEF BackInv, Fetching
  <2> QED BY <2>1, <2>2
<1>6. CASE Infer \/ SendStatus
  <2>1. /\ infer.at \in {"infer", "done", "failed"} /\ infer'.at \notin {"head", "vector", "infer"}
        /\ infer.at = "failed" => infer'.at = "senderror"
        /\ infer'.prompt = p /\ infer'.vector = infer.vector
    <3>1. CASE Infer
      BY <3>1 DEF Infer, At, TypeInv, TypeOK
    <3>2. CASE SendStatus
      BY <3>2 DEF SendStatus, At, TypeInv, TypeOK
    <3> QED BY <1>6, <3>1, <3>2
  <2> QED BY <2>1 DEF BackInv, Fetching
<1> QED
  BY <1>2, <1>3, <1>4, <1>5, <1>6 DEF InferStep

LEMMA BackHidden ==
    ASSUME TypeInv, LinkInv, PromptInv, BackInv, HiddenStep \/ FusedStops
    PROVE  BackInv'
<1> DEFINE s == infer.slot
           p == infer.prompt
           c == link[s]
<1>0. /\ link \in [Slots -> Connections(Words)] /\ s \in Slots /\ hidden.on \in Slots
      /\ c \in Connections(Words) /\ c.down \in Seq(Words) /\ c.up \in Seq(Words)
  BY DEF TypeInv, TypeOK, Connections
<1>1. UNCHANGED infer /\ (Fetching' <=> Fetching)
  BY DEF HiddenStep, HiddenAccept, HiddenRead, HiddenExtract, Extract, FusedStops, Fetching
<1>2. SUFFICES ASSUME Fetching
               PROVE  LinkCarries(link[infer.slot], infer.prompt)'
  BY <1>1 DEF BackInv
<1>3. /\ LinkCarries(c, p) /\ c.client /\ infer.at \in {"head", "vector"}
      /\ p.class \notin {"bad", "huge"}
  <2>1. c.client
    BY <1>0, <1>2 DEF LinkInv
  <2>2. p.class = class[infer.for] /\ class[infer.for] \notin {"bad", "huge"}
    BY <1>2 DEF PromptInv, Fetching, Serving, InferAt, Prompt
  <2> QED BY <1>2, <2>1, <2>2 DEF BackInv, Fetching
(* To show the new link and the new state of the hidden port is enough. *)
<1>4. ASSUME NEW d, link'[s] = d, AllOf(d.up, p), Len(d.up) <= 2,
             p.class = "empty" => Len(d.up) <= 1,
             d.down # <<>> \/ infer.at = "vector" \/ Served' => d.up = <<>>,
             Served' => /\ infer.at = "head" /\ d.down = <<>>
                        /\ hidden'.prompt = p /\ p.class # "empty",
             \/ p.class = "fits" /\ AllOf(d.down, p)
             \/ infer.at = "head" /\ (d.down = <<>> \/ d.down[1].is # "ok")
      PROVE  LinkCarries(link[infer.slot], infer.prompt)'
  <2>1. link'[infer'.slot] = d /\ infer'.prompt = p /\ infer'.at = infer.at
    BY <1>1, <1>4
  <2> QED BY <1>4, <2>1, CarriesNext
(* Nothing was sent, and it is not served any more, or not yet. *)
<1>5. ASSUME link'[s].up = c.up, link'[s].down = c.down, ~Served'
      PROVE  LinkCarries(link[infer.slot], infer.prompt)'
  BY <1>3, <1>4, <1>5 DEF LinkCarries
<1>6. CASE HiddenAccept
  <2>1. link'[s] = c /\ hidden'.at = "read"
    BY <1>6 DEF HiddenAccept, TypeInv, TypeOK
  <2> QED BY <1>5, <2>1 DEF Served
<1>7. CASE HiddenRead
  <2> DEFINE b == link[hidden.on]
  <2>1. CASE ~ServerHas(b, 2)
    <3>1. link' = [link EXCEPT ![hidden.on] = ServerCloses(@)] /\ hidden'.at = "accept"
      BY <1>7, <2>1 DEF HiddenRead, Drop, TypeInv, TypeOK
    <3>2. link'[s] \in {c, ServerCloses(c)}
      BY <1>0, <3>1
    <3>3. ServerCloses(c).up = c.up /\ ServerCloses(c).down = c.down
      BY <1>0, <1>3, Forgets
    <3>4. link'[s].up = c.up /\ link'[s].down = c.down
      BY <3>2, <3>3
    <3> QED BY <1>5, <3>1, <3>4 DEF Served
  <2>2. CASE ServerHas(b, 2)
    <3>1. /\ link' = [link EXCEPT ![hidden.on] = ServerTakes(@, 2)]
          /\ hidden' = [hidden EXCEPT !.at = "extract", !.prompt = b.up[2].of]
      BY <1>7, <2>2 DEF HiddenRead
    <3>2. hidden'.at = "extract" /\ hidden'.on = hidden.on /\ hidden'.prompt = b.up[2].of
      BY <3>1 DEF TypeInv, TypeOK
    <3>3. CASE hidden.on # s
      <4>1. link'[s] = c /\ ~Served'
        BY <1>0, <1>1, <3>1, <3>2, <3>3 DEF Served
      <4> QED BY <1>5, <4>1
    <3>4. CASE hidden.on = s
      <4>1. /\ Len(c.up) = 2 /\ c.up # <<>> /\ AllOf(c.up, p)
        <5>1. Len(c.up) <= 2 /\ AllOf(c.up, p)
          BY <1>3 DEF LinkCarries
        <5>2. Len(c.up) >= 2 /\ Len(c.up) \in Nat
          BY <1>0, <2>2, <3>4 DEF ServerHas
        <5>3. Len(c.up) = 2
          <6> DEFINE n == Len(c.up)
          <6>1. n <= 2 /\ n >= 2 /\ n \in Nat
            BY <5>1, <5>2
          <6> HIDE DEF n
          <6>2. n = 2
            BY <6>1
          <6> QED BY <6>2 DEF n
        <5>4. c.up # <<>>
          BY <5>3
        <5> QED BY <5>1, <5>3, <5>4
      <4>2. c.up[2].of = p /\ p.class # "empty"
        BY <1>3, <4>1 DEF AllOf, LinkCarries
      <4>3. c.down = <<>> /\ infer.at = "head"
        BY <1>3, <4>1 DEF LinkCarries
      <4> DEFINE d == ServerTakes(c, 2)
      <4>4. link'[s] = d
        BY <1>0, <3>1, <3>4
      <4>5. d.down = <<>>
        BY <1>0, <4>3, Sides
      <4>6. d.up = <<>>
        <5>1. d.up = SubSeq(c.up, 2 + 1, Len(c.up))
          BY <1>0 DEF ServerTakes, Connections
        <5> DEFINE t == SubSeq(c.up, 2 + 1, Len(c.up))
        <5>2. t \in Seq(Words) /\ Len(t) = 0
          BY <1>0, <4>1, Rest
        <5> HIDE DEF t
        <5>3. t = <<>>
          BY <5>2
        <5> QED BY <5>1, <5>3 DEF t
      <4>7. hidden'.prompt = p
        BY <3>2, <3>4, <4>2
      <4>8. AllOf(<<>>, p) /\ Len(<<>>) = 0
        BY AllOfWords
      <4> HIDE DEF d
      <4>9. AllOf(d.up, p) /\ Len(d.up) = 0
        BY <4>6, <4>8
      <4> QED BY <1>4, <4>2, <4>3, <4>4, <4>5, <4>6, <4>7, <4>9
    <3> QED BY <3>3, <3>4
  <2> QED BY <2>1, <2>2
<1>8. CASE HiddenExtract
  <2>1. hidden'.at = "read" /\ ~Served'
    BY <1>8 DEF HiddenExtract, Served, TypeInv, TypeOK
  <2>2. CASE hidden.on # s
    <3>1. link'[s] = c
      BY <1>0, <1>8, <2>2 DEF HiddenExtract, Extract
    <3> QED BY <1>5, <2>1, <3>1
  <2>3. CASE hidden.on = s
    <3>1. Served
      BY <1>8, <2>3 DEF HiddenExtract, Served
    <3>2. /\ c.up = <<>> /\ c.down = <<>> /\ infer.at = "head"
          /\ hidden.prompt = p /\ p.class # "empty"
      BY <1>3, <3>1 DEF LinkCarries
    <3>3. \E words : /\ link' = [link EXCEPT ![s] = ServerSends(@, words)]
                     /\ \/ words = VectorReply(p) /\ p.class # "long"
                        \/ words = HiddenError
      <4>1. CASE hidden' = [hidden EXCEPT !.at = "read", !.vector = hidden.prompt]
                 /\ hidden.prompt.class # "long" /\ Extract(TRUE)
        <5>1. hidden'.vector = p
          BY <3>2, <4>1 DEF TypeInv, TypeOK
        <5> QED BY <2>3, <3>2, <4>1, <5>1 DEF Extract
      <4>2. CASE Extract(FALSE)
        BY <2>3, <4>2 DEF Extract
      <4> QED BY <1>8, <4>1, <4>2 DEF HiddenExtract
    <3>4. PICK words : /\ link' = [link EXCEPT ![s] = ServerSends(@, words)]
                       /\ \/ words = VectorReply(p) /\ p.class # "long"
                          \/ words = HiddenError
      BY <3>3
    <3>5. /\ link'[s] = ServerSends(c, words) /\ ServerSends(c, words).up = <<>>
          /\ ServerSends(c, words).down = <<>> \o words
      <4>1. link'[s] = ServerSends(c, words)
        BY <1>0, <3>4
      <4>2. ServerSends(c, words) = [c EXCEPT !.down = @ \o words]
        BY <1>3 DEF ServerSends
      <4>3. ServerSends(c, words).up = c.up
        BY <1>0, Sides
      <4>4. [c EXCEPT !.down = c.down \o words].down = c.down \o words
        BY <1>0 DEF Connections
      <4> QED BY <3>2, <4>1, <4>2, <4>3, <4>4
    <3>6. p \in Prompts \cup {None}
      BY DEF TypeInv, TypeOK
    <3>7. words \in Seq(Words)
      BY <3>4, <3>6, WordTypes
    <3>8. ServerSends(c, words).down = words
      BY <3>5, <3>7
    <3> DEFINE d == ServerSends(c, words)
    <3>9. \/ p.class = "fits" /\ AllOf(words, p)
          \/ words[1].is # "ok"
      <4>1. CASE words = VectorReply(p) /\ p.class # "long"
        <5>1. p.class \in Classes
          <6>1. infer.prompt = Prompt(infer.for) /\ infer.for \in Askers
            BY <1>2 DEF PromptInv, Fetching, Serving, InferAt, TypeInv, PlacesInv
          <6> QED BY <6>1 DEF Prompt, TypeInv, TypeOK
        <5>2. p.class = "fits"
          BY <1>3, <3>2, <4>1, <5>1 DEF Classes
        <5> QED BY <4>1, <5>2, AllOfWords
      <4>2. CASE words = HiddenError
        BY <4>2 DEF HiddenError, Word
      <4> QED BY <3>4, <4>1, <4>2
    <3>10. AllOf(<<>>, p) /\ Len(<<>>) = 0
      BY AllOfWords
    <3>11. d.up = <<>> /\ d.down = words /\ link'[s] = d
      BY <3>5, <3>8
    <3> HIDE DEF d
    <3>12. AllOf(d.up, p) /\ Len(d.up) = 0
      BY <3>10, <3>11
    <3> QED BY <1>4, <2>1, <3>2, <3>9, <3>11, <3>12
  <2> QED BY <2>2, <2>3
<1>9. CASE FusedStops
  <2>1. hidden'.at = "dead" /\ ~Served'
    BY <1>9 DEF FusedStops, Drop, Served, TypeInv, TypeOK
  <2>2. PICK n \in 0 .. 4 :
          /\ n > 0 => hidden.at = "extract" /\ hidden.prompt.class = "fits"
          /\ link' = [i \in Slots |-> ServerCloses(
                        IF n > 0 /\ i = hidden.on
                        THEN ServerSends(link[i], SubSeq(VectorReply(hidden.prompt), 1, n))
                        ELSE link[i])]
    BY <1>9 DEF FusedStops
  <2>3. CASE ~(n > 0 /\ s = hidden.on)
    <3>1. link'[s] = ServerCloses(c)
      BY <1>0, <2>2, <2>3
    <3>2. ServerCloses(c).up = c.up /\ ServerCloses(c).down = c.down
      BY <1>0, <1>3, Forgets
    <3>3. link'[s].up = c.up /\ link'[s].down = c.down
      BY <3>1, <3>2
    <3> QED BY <1>5, <2>1, <3>3
  <2>4. CASE n > 0 /\ s = hidden.on
    <3> DEFINE part == SubSeq(VectorReply(hidden.prompt), 1, n)
    <3>1. Served
      BY <2>2, <2>4 DEF Served
    <3>2. /\ c.up = <<>> /\ c.down = <<>> /\ infer.at = "head"
          /\ hidden.prompt = p /\ p.class = "fits"
      BY <1>3, <2>2, <2>4, <3>1 DEF LinkCarries
    <3>3. part \in Seq(Words) /\ AllOf(part, p)
      <4> DEFINE all == VectorReply(hidden.prompt)
      <4>1. hidden.prompt \in Prompts \cup {None}
        BY DEF TypeInv, TypeOK
      <4>2. all \in Seq(Words) /\ Len(all) = 5 /\ AllOf(all, p)
        BY <3>2, <4>1, WordTypes, AllOfWords DEF VectorReply
      <4> HIDE DEF all
      <4>3. n \in Nat /\ ~(n > Len(all)) /\ n \in 0 .. Len(all)
        BY <4>2
      <4> QED BY <4>2, <4>3, Rest, AllOfParts DEF all
    <3> HIDE DEF part
    <3> DEFINE d == ServerSends(c, part)
    <3>4. link'[s] = ServerCloses(d)
      BY <1>0, <2>2, <2>4 DEF part
    <3>5. d \in Connections(Words) /\ d.client /\ d.up = <<>>
      <4>1. c \in Conns(Words, Words)
        BY <1>0 DEF Connections, Conns
      <4>2. d \in Conns(Words, Words)
        BY <3>3, <4>1, ConnTypes
      <4>3. d \in Connections(Words)
        BY <4>2 DEF Connections, Conns
      <4>4. d.client = c.client /\ d.up = c.up
        BY <1>0, Sides
      <4> HIDE DEF d
      <4> QED BY <1>3, <3>2, <4>3, <4>4
    <3>6. d.down = part
      <4>1. d = [c EXCEPT !.down = c.down \o part]
        BY <1>3 DEF ServerSends
      <4>2. [c EXCEPT !.down = c.down \o part].down = c.down \o part
        BY <1>0 DEF Connections
      <4>3. c.down \o part = part
        BY <3>2, <3>3
      <4> QED BY <4>1, <4>2, <4>3
    <3> HIDE DEF d
    <3>7. ServerCloses(d).up = <<>> /\ ServerCloses(d).down = part
      BY <3>5, <3>6, Forgets
    <3>8. AllOf(<<>>, p) /\ Len(<<>>) = 0
      BY AllOfWords
    <3> DEFINE e == ServerCloses(d)
    <3>9. link'[s] = e /\ e.up = <<>> /\ e.down = part
      BY <3>4, <3>7
    <3> HIDE DEF e
    <3>10. AllOf(e.up, p) /\ Len(e.up) = 0 /\ AllOf(e.down, p)
      BY <3>3, <3>8, <3>9
    <3> QED BY <1>4, <2>1, <3>2, <3>9, <3>10
  <2> QED BY <2>3, <2>4
<1> QED
  BY <1>6, <1>7, <1>8, <1>9 DEF HiddenStep

LEMMA ClipAsker ==
    ASSUME TypeInv, FrontInv, ClipInv,
           NEW w \in Askers, Ask(w) \/ AskerStep(w) \/ HangUp(w)
    PROVE  ClipInv'
<1> DEFINE Files == {"mkdir", "write", "convert", "read"}
           c == conn[w]
<1>0. /\ conn \in [Askers -> Connections(Words)] /\ c \in Connections(Words)
      /\ c.down \in Seq(Words)
      /\ pc = [v \in Askers |-> pc[v]] /\ class = [v \in Askers |-> class[v]]
      /\ clip = [v \in Askers |-> clip[v]]
  BY DEF TypeInv, TypeOK, Connections
<1>1. infer'.at = infer.at /\ infer'.for = infer.for
  BY InferApart
<1>2. ASSUME \A v \in Askers \ {w} : /\ pc'[v] = pc[v] /\ class'[v] = class[v]
                                     /\ clip'[v] = clip[v] /\ conn'[v] = conn[v],
             ReplyFits(w, conn[w])',
             pc'[w] \in Files => class'[w] = "fits" /\ clip'[w] = Prompt(w)'
      PROVE  ClipInv'
  <2>1. ASSUME NEW v \in Askers \ {w}
        PROVE  /\ ReplyFits(v, conn[v])'
               /\ pc'[v] \in Files => class'[v] = "fits" /\ clip'[v] = Prompt(v)'
    <3>1. Prompt(v)' = Prompt(v) /\ (Replying(v)' <=> Replying(v))
      BY <1>1, <1>2 DEF Prompt, Replying
    <3>2. /\ AllOf(conn[v].down, Prompt(v))' <=> AllOf(conn[v].down, Prompt(v))
          /\ AllOf(Tail(conn[v].down), Prompt(v))' <=> AllOf(Tail(conn[v].down), Prompt(v))
      BY <1>2, <3>1 DEF AllOf
    <3>3. /\ pc'[v] = pc[v] /\ class'[v] = class[v]
          /\ clip'[v] = clip[v] /\ conn'[v] = conn[v]
      BY <1>2
    <3>4. ReplyFits(v, conn[v])
      BY DEF ClipInv
    <3>5. ReplyFits(v, conn[v])'
      BY <1>1, <3>1, <3>2, <3>3, <3>4 DEF ReplyFits
    <3> QED BY <3>1, <3>3, <3>5 DEF ClipInv
  <2> QED BY <1>2, <2>1 DEF ClipInv
<1>3. ReplyFits(w, c)
  BY DEF ClipInv
<1>4. ASSUME ~conn'[w].client, pc'[w] \notin {"status", "motion"}
      PROVE  ReplyFits(w, conn[w])'
  BY <1>4 DEF ReplyFits
<1>5. ASSUME conn'[w] = c, pc[w] # "status", pc'[w] \notin {"status", "motion"}
      PROVE  ReplyFits(w, conn[w])'
  <2>1. Replying(w)' <=> Replying(w)
    BY <1>1 DEF Replying
  <2> QED BY <1>3, <1>5, <2>1 DEF ReplyFits
<1>6. CASE Ask(w)
  <2>1. /\ \A v \in Askers \ {w} : /\ pc'[v] = pc[v] /\ class'[v] = class[v]
                                   /\ clip'[v] = clip[v] /\ conn'[v] = conn[v]
        /\ conn'[w] = NoConnection /\ pc'[w] \in {"lock", "call"}
    BY <1>0, <1>6 DEF Ask, Goto
  <2> QED BY <1>2, <1>4, <2>1 DEF NoConnection
<1>7. CASE Lock(w) \/ Parse(w)
  <2>1. /\ \A v \in Askers \ {w} : /\ pc'[v] = pc[v] /\ class'[v] = class[v]
                                   /\ clip'[v] = clip[v] /\ conn'[v] = conn[v]
        /\ conn'[w] = c /\ pc[w] # "status"
        /\ pc'[w] \in {"parse", "call", "idle"}
    BY <1>0, <1>7 DEF Lock, Parse, Respond, Goto
  <2> QED BY <1>2, <1>5, <2>1
<1>8. CASE MakeDir(w) \/ Write(w) \/ Convert(w) \/ ReadFile(w)
  <2>1. /\ \A v \in Askers \ {w} : /\ pc'[v] = pc[v] /\ class'[v] = class[v]
                                   /\ clip'[v] = clip[v] /\ conn'[v] = conn[v]
        /\ conn'[w] = c /\ pc[w] \in Files /\ class'[w] = class[w]
        /\ \/ pc'[w] \in Files /\ clip'[w] = clip[w]
           \/ pc'[w] = "idle"
    BY <1>0, <1>8 DEF MakeDir, Write, Convert, UseDir, ReadFile, Fails, Respond, Goto
  <2>2. pc'[w] \in Files => class'[w] = "fits" /\ clip'[w] = Prompt(w)'
    BY <2>1 DEF ClipInv, Prompt
  <2> QED BY <1>2, <1>5, <2>1, <2>2
<1>9. CASE Call(w)
  <2>1. CASE infer.at = "dead"
    <3>1. /\ \A v \in Askers \ {w} : /\ pc'[v] = pc[v] /\ class'[v] = class[v]
                                     /\ clip'[v] = clip[v] /\ conn'[v] = conn[v]
          /\ conn'[w] = c /\ pc[w] = "call" /\ pc'[w] = "idle"
      BY <1>0, <1>9, <2>1 DEF Call, Fails, Respond, Goto
    <3> QED BY <1>2, <1>5, <3>1
  <2>2. CASE infer.at # "dead"
    <3>1. /\ \A v \in Askers \ {w} : /\ pc'[v] = pc[v] /\ class'[v] = class[v]
                                     /\ clip'[v] = clip[v] /\ conn'[v] = conn[v]
          /\ conn'[w].down = <<>> /\ pc[w] = "call" /\ pc'[w] = "status"
      <4> DEFINE d == Opened(Request(Prompt(w)))
      <4>1. d.down = <<>>
        BY DEF Opened
      <4>2. /\ conn' = [conn EXCEPT ![w] = d] /\ Goto(w, "status") /\ pc[w] = "call"
            /\ UNCHANGED <<class, clip>>
        BY <1>9, <2>2 DEF Call
      <4> HIDE DEF d
      <4> QED BY <1>0, <4>1, <4>2 DEF Goto
    <3>2. infer'.for # w
      BY <1>1, <3>1 DEF FrontInv
    <3>3. ReplyFits(w, conn[w])'
      BY <3>1, <3>2 DEF ReplyFits
    <3> QED BY <1>2, <3>1, <3>3
  <2> QED BY <2>1, <2>2
(* The asker closes, and has its answer, or goes on with its motion. *)
<1>10. ASSUME NEW d \in Connections(Words), conn' = [conn EXCEPT ![w] = ClientCloses(d)],
              UNCHANGED class, NEW place \in {"idle", "mkdir"}, Goto(w, place),
              \A v \in Askers \ {w} : clip'[v] = clip[v],
              place = "mkdir" => class[w] = "fits" /\ clip'[w] = Prompt(w)
       PROVE  ClipInv'
  <2>1. ~ClientCloses(d).client
    BY Sides
  <2>2. /\ \A v \in Askers \ {w} : /\ pc'[v] = pc[v] /\ class'[v] = class[v]
                                   /\ clip'[v] = clip[v] /\ conn'[v] = conn[v]
        /\ conn'[w] = ClientCloses(d) /\ pc'[w] = place
    BY <1>0, <1>10 DEF Goto
  <2>3. ReplyFits(w, conn[w])'
    BY <1>4, <2>1, <2>2
  <2>4. pc'[w] \in Files => class'[w] = "fits" /\ clip'[w] = Prompt(w)'
    BY <1>10, <2>2 DEF Prompt
  <2> QED BY <1>2, <2>2, <2>3, <2>4
<1>11. ASSUME NEW n, CutOff(w, n)
       PROVE  ClipInv'
  <2>1. \A v \in Askers \ {w} : clip'[v] = clip[v]
    BY <1>0, <1>11 DEF CutOff, Fails, Respond
  <2> QED BY <1>0, <1>10, <1>11, <2>1 DEF CutOff, Fails, Respond
<1>12. CASE ReadStatus(w)
  <2>1. CASE CutOff(w, 1)
    BY <1>11, <2>1
  <2>2. CASE ~CutOff(w, 1)
    <3>1. /\ pc[w] = "status" /\ ClientHas(c, 1)
          /\ conn' = [conn EXCEPT ![w] = ClientTakes(@, 1)]
          /\ Goto(w, IF c.down[1].is = "ok" THEN "motion" ELSE "error")
          /\ UNCHANGED <<class, clip>>
      BY <1>12, <2>2 DEF ReadStatus
    <3>2. /\ \A v \in Askers \ {w} : /\ pc'[v] = pc[v] /\ class'[v] = class[v]
                                     /\ clip'[v] = clip[v] /\ conn'[v] = conn[v]
          /\ conn'[w] = ClientTakes(c, 1)
          /\ pc'[w] = IF c.down[1].is = "ok" THEN "motion" ELSE "error"
      BY <1>0, <3>1 DEF Goto
    <3>3. /\ conn'[w].client = c.client /\ conn'[w].server = c.server
          /\ conn'[w].down = Tail(c.down) /\ c.down # <<>>
      <4>1. ClientTakes(c, 1).down = SubSeq(c.down, 1 + 1, Len(c.down))
        BY <1>0 DEF ClientTakes, Connections
      <4>2. c.down # <<>>
        BY <3>1 DEF ClientHas
      <4>3. SubSeq(c.down, 1 + 1, Len(c.down)) = Tail(c.down)
        <5>1. 1 + 1 = 2 /\ Tail(c.down) = SubSeq(c.down, 2, Len(c.down))
          BY <1>0, <4>2, HeadTailProperties
        <5> QED BY <5>1
      <4>4. ClientTakes(c, 1).client = c.client /\ ClientTakes(c, 1).server = c.server
        BY <1>0, Sides
      <4>5. ClientTakes(c, 1).down = Tail(c.down)
        BY <4>1, <4>3
      <4> QED BY <3>2, <4>2, <4>4, <4>5, Zenon
    <3>4. Prompt(w)' = Prompt(w) /\ (Replying(w)' <=> Replying(w))
      BY <1>1, <3>1 DEF Prompt, Replying
    <3>5. pc'[w] = "motion" => class'[w] = "fits" /\ AllOf(conn[w].down, Prompt(w))'
      <4>1. pc'[w] = "motion" => class[w] = "fits" /\ AllOf(Tail(c.down), Prompt(w))
        BY <1>3, <3>1, <3>2, <3>3 DEF ReplyFits
      <4> QED BY <3>1, <3>3, <3>4, <4>1 DEF AllOf
    <3>6. ~(conn'[w].client /\ conn'[w].server /\ ~Replying(w)')
      BY <1>3, <3>3, <3>4 DEF ReplyFits
    <3>7. conn'[w].client /\ infer'.for = w /\ infer'.at = "senderror" => pc'[w] # "motion"
      BY <1>1, <1>3, <3>1, <3>2, <3>3 DEF ReplyFits
    <3>8. ReplyFits(w, conn[w])'
      BY <3>2, <3>5, <3>6, <3>7 DEF ReplyFits
    <3> QED BY <1>2, <3>2, <3>8
  <2> QED BY <2>1, <2>2
<1>13. CASE ReadError(w)
  <2>1. CASE CutOff(w, 2)
    BY <1>11, <2>1
  <2>2. CASE ~CutOff(w, 2)
    <3>1. conn' = [conn EXCEPT ![w] = ClientCloses(@)] /\ Fails(w)
      BY <1>13, <2>2 DEF ReadError
    <3>2. \A v \in Askers \ {w} : clip'[v] = clip[v]
      BY <1>0, <3>1 DEF Fails, Respond
    <3> QED BY <1>0, <1>10, <3>1, <3>2 DEF Fails, Respond
  <2> QED BY <2>1, <2>2
<1>14. CASE ReadMotion(w)
  <2>1. CASE CutOff(w, 4)
    BY <1>11, <2>1
  <2>2. CASE ~CutOff(w, 4)
    <3>1. /\ pc[w] = "motion" /\ ClientHas(c, 4)
          /\ conn' = [conn EXCEPT ![w] = ClientCloses(@)]
          /\ \/ /\ clip' = [clip EXCEPT ![w] = c.down[3].of]
                /\ Goto(w, "mkdir") /\ UNCHANGED class
             \/ \E m : Respond(w, "ok", m)
      BY <1>14, <2>2 DEF ReadMotion
    <3>2. class[w] = "fits" /\ c.down[3].of = Prompt(w)
      <4>1. Len(c.down) >= 4 /\ Len(c.down) \in Nat
        BY <1>0, <3>1 DEF ClientHas
      <4> QED BY <1>3, <3>1, <4>1 DEF ReplyFits, AllOf
    <3>3. CASE clip' = [clip EXCEPT ![w] = c.down[3].of] /\ Goto(w, "mkdir") /\ UNCHANGED class
      <4>1. clip'[w] = Prompt(w) /\ \A v \in Askers \ {w} : clip'[v] = clip[v]
        BY <1>0, <3>2, <3>3
      <4> QED BY <1>0, <1>10, <3>1, <3>2, <3>3, <4>1
    <3>4. CASE \E m : Respond(w, "ok", m)
      <4>1. \A v \in Askers \ {w} : clip'[v] = clip[v]
        BY <1>0, <3>4 DEF Respond
      <4> QED BY <1>0, <1>10, <3>1, <3>4, <4>1 DEF Respond
    <3> QED BY <3>1, <3>3, <3>4
  <2> QED BY <2>1, <2>2
<1>15. CASE HangUp(w)
  <2>1. PICK n \in 0 .. Len(c.up) : conn' = [conn EXCEPT ![w] = ClientCloses(SentOnly(@, n))]
    BY <1>15 DEF HangUp
  <2>2. SentOnly(c, n) \in Connections(Words)
    <3>1. c \in Conns(Words, Words)
      BY <1>0 DEF Connections, Conns
    <3>2. SentOnly(c, n) \in Conns(Words, Words)
      BY <3>1, ConnTypes
    <3> QED BY <3>2 DEF Connections, Conns
  <2>3. UNCHANGED <<class, clip>> /\ Goto(w, "idle")
    BY <1>15 DEF HangUp
  <2> QED BY <1>10, <2>1, <2>2, <2>3
<1> QED
  BY <1>6, <1>7, <1>8, <1>9, <1>12, <1>13, <1>14, <1>15 DEF AskerStep

(* A reply is two sends: what follows the first word stays of one prompt. *)
LEMMA AllOfAfterFirst ==
    ASSUME NEW S, NEW p, NEW s \in Seq(S), NEW t \in Seq(S), s # <<>>,
           AllOf(Tail(s), p), AllOf(t, p)
    PROVE  s \o t # <<>> /\ (s \o t)[1] = s[1] /\ AllOf(Tail(s \o t), p)
<1> DEFINE u == s \o t
           v == Tail(s)
           r == Tail(u)
<1>1. /\ Len(s) \in Nat \ {0} /\ Len(t) \in Nat /\ u \in Seq(S)
      /\ Len(u) = Len(s) + Len(t)
      /\ \A i \in 1 .. Len(s) : u[i] = s[i]
      /\ \A i \in 1 .. Len(t) : u[Len(s) + i] = t[i]
  <2>1. Len(s) \in Nat \ {0} /\ Len(t) \in Nat
    BY EmptySeq
  <2> QED BY <2>1, ConcatProperties
<1>2. Len(v) = Len(s) - 1 /\ \A i \in 1 .. Len(s) - 1 : v[i] = s[i + 1]
  BY HeadTailProperties
<1> HIDE DEF u
<1>3. u # <<>> /\ u[1] = s[1]
  BY <1>1, EmptySeq
<1>4. Len(r) = Len(u) - 1 /\ \A i \in 1 .. Len(u) - 1 : r[i] = u[i + 1]
  BY <1>1, <1>3, HeadTailProperties
<1> HIDE DEF v, r
<1>5. ASSUME NEW i \in 1 .. Len(r)
      PROVE  r[i].of = p
  <2>1. i \in 1 .. Len(u) - 1 /\ r[i] = u[i + 1]
    BY <1>1, <1>4
  <2>2. CASE i + 1 <= Len(s)
    <3>1. i \in 1 .. Len(v) /\ u[i + 1] = v[i]
      BY <1>1, <1>2, <2>1, <2>2
    <3> QED BY <2>1, <3>1 DEF AllOf, v
  <2>3. CASE i + 1 > Len(s)
    <3>1. i + 1 - Len(s) \in 1 .. Len(t) /\ Len(s) + (i + 1 - Len(s)) = i + 1
      BY <1>1, <2>1, <2>3
    <3>2. u[i + 1] = t[i + 1 - Len(s)]
      BY <1>1, <3>1
    <3> QED BY <2>1, <3>1, <3>2 DEF AllOf
  <2> QED BY <1>1, <2>1, <2>2, <2>3
<1>6. AllOf(r, p)
  BY <1>5 DEF AllOf
<1> QED BY <1>3, <1>6 DEF u, r

LEMMA ClipInfer ==
    ASSUME TypeInv, FrontInv, PromptInv, BackInv, ClipInv, InferStep \/ Killed
    PROVE  ClipInv'
<1> DEFINE f == infer.for
<1>0. /\ conn \in [Askers -> Connections(Words)]
      /\ \A w \in Askers : conn[w] \in Connections(Words) /\ conn[w].down \in Seq(Words)
  BY DEF TypeInv, TypeOK, Connections
<1>1. infer.at \in Serving => f \in Askers /\ conn[f].server
  BY DEF TypeInv, PlacesInv, FrontInv
<1>2. UNCHANGED <<class, pc, clip>>
  BY DEF InferStep, Killed, InferDies, BrokenPipe, Accept, ReadLen, ReadRest, ClientGone, Fetch,
         ReadHead, ReadVector, FetchCutOff, Infer, SendStatus, SendRest, handlerVars
<1>3. \A w : Prompt(w)' = Prompt(w)
  BY <1>2 DEF Prompt
<1>4. ASSUME \A w \in Askers : ReplyFits(w, conn[w])'
      PROVE  ClipInv'
  BY <1>2, <1>3, <1>4 DEF ClipInv
<1>5. \A w \in Askers : ReplyFits(w, conn[w])
  BY DEF ClipInv
(* Nothing was said to this asker, and no error is being sent to it. *)
<1>6. ASSUME NEW w \in Askers, conn'[w].down = conn[w].down,
             conn'[w].client = conn[w].client, conn'[w].server = conn[w].server,
             ~Replying(w), ~(infer'.for = w /\ infer'.at = "senderror")
      PROVE  ReplyFits(w, conn[w])'
  <2>1. /\ AllOf(conn[w].down, Prompt(w))' <=> AllOf(conn[w].down, Prompt(w))
        /\ AllOf(Tail(conn[w].down), Prompt(w))' <=> AllOf(Tail(conn[w].down), Prompt(w))
    BY <1>3, <1>6 DEF AllOf
  <2>2. ReplyFits(w, conn[w])
    BY <1>5
  <2> QED BY <1>2, <1>6, <2>1, <2>2 DEF ReplyFits
(* Its connection was closed. *)
<1>7. ASSUME NEW w \in Askers, conn'[w].down \in {conn[w].down, <<>>}, ~conn'[w].server,
             ~(infer'.for = w /\ infer'.at = "senderror")
      PROVE  ReplyFits(w, conn[w])'
  <2>1. /\ AllOf(conn[w].down, Prompt(w)) => AllOf(conn[w].down, Prompt(w))'
        /\ AllOf(Tail(conn[w].down), Prompt(w)) /\ conn'[w].down = conn[w].down
             => AllOf(Tail(conn[w].down), Prompt(w))'
    <3>1. CASE conn'[w].down = conn[w].down
      BY <1>3, <3>1 DEF AllOf
    <3>2. CASE conn'[w].down = <<>>
      BY <1>3, <3>2, EmptySeq DEF AllOf
    <3> QED BY <1>7, <3>1, <3>2
  <2>2. ReplyFits(w, conn[w])
    BY <1>5
  <2> QED BY <1>2, <1>7, <2>1, <2>2 DEF ReplyFits
<1>8. ASSUME infer' = NextClient(infer)
      PROVE  infer'.for = None /\ infer'.at = "accept"
  BY <1>8 DEF NextClient, TypeInv, TypeOK
<1>9. \A w \in Askers : w # None
  BY PipelineAssumption DEF Askers
<1>10. ASSUME UNCHANGED conn, infer.at \notin {"sendmotion", "senderror"}, infer'.at # "senderror"
       PROVE  ClipInv'
  <2>1. \A w \in Askers : ReplyFits(w, conn[w])'
    BY <1>6, <1>10 DEF Replying
  <2> QED BY <1>4, <2>1
<1>11. CASE Accept \/ Fetch \/ ReadHead \/ ReadVector \/ Infer
  <2>1. UNCHANGED conn /\ infer.at \notin {"sendmotion", "senderror"}
    BY <1>11 DEF Accept, Fetch, ReadHead, ReadVector, FetchCutOff, Infer
  <2>2. infer'.at # "senderror"
    <3>1. CASE Accept
      BY <3>1 DEF Accept, TypeInv, TypeOK
    <3>2. CASE Fetch
      BY <3>2 DEF Fetch, At, TypeInv, TypeOK
    <3>3. CASE ReadHead
      BY <3>3 DEF ReadHead, FetchCutOff, At, TypeInv, TypeOK
    <3>4. CASE ReadVector
      BY <3>4 DEF ReadVector, FetchCutOff, At, TypeInv, TypeOK
    <3>5. CASE Infer
      BY <3>5 DEF Infer, At, TypeInv, TypeOK
    <3> QED BY <1>11, <3>1, <3>2, <3>3, <3>4, <3>5
  <2> QED BY <1>10, <2>1, <2>2
(* The asker that is served has a new connection, the others have theirs. *)
<1>12. ASSUME NEW g \in Askers, g = f, NEW d, conn' = [conn EXCEPT ![g] = d],
              infer'.for \in {g, None}, ReplyFits(g, conn[g])'
       PROVE  ClipInv'
  <2>1. \A w \in Askers \ {g} : conn'[w] = conn[w] /\ ~Replying(w) /\ infer'.for # w
    BY <1>0, <1>9, <1>12 DEF Replying
  <2>2. \A w \in Askers \ {g} : ReplyFits(w, conn[w])'
    BY <1>6, <2>1
  <2> QED BY <1>4, <1>12, <2>2
<1>13. ASSUME f \in Askers, NEW n, ClientGone(n)
       PROVE  ClipInv'
  <2>1. PICK g \in Askers : g = f
    BY <1>13
  <2>2. conn' = [conn EXCEPT ![g] = ServerCloses(conn[g])] /\ infer'.for = None
    BY <1>8, <1>13, <2>1 DEF ClientGone
  <2>3. conn'[g] = ServerCloses(conn[g])
    BY <1>0, <2>2
  <2>4. conn'[g].down \in {conn[g].down, <<>>} /\ conn'[g].server = FALSE
    <3> DEFINE d == ServerCloses(conn[g])
    <3>1. d.down \in {conn[g].down, <<>>} /\ d.server = FALSE
      BY <1>0, Forgets, Sides
    <3> HIDE DEF d
    <3> QED BY <2>3, <3>1 DEF d
  <2>5. ReplyFits(g, conn[g])'
    BY <1>7, <1>9, <2>2, <2>4
  <2> QED BY <1>12, <2>1, <2>2, <2>5
<1>14. CASE ReadLen \/ ReadRest
  <2>1. f \in Askers /\ infer.at \in {"len", "rest"}
    BY <1>1, <1>14 DEF ReadLen, ReadRest, Serving, InferAt
  <2>2. \/ \E n : ClientGone(n)
        \/ /\ \E n : conn' = [conn EXCEPT ![f] = ServerTakes(@, n)]
           /\ infer'.for = f /\ infer'.at # "senderror"
    BY <1>14, Reading
  <2>3. ASSUME NEW n, conn' = [conn EXCEPT ![f] = ServerTakes(@, n)],
               infer'.for = f, infer'.at # "senderror"
        PROVE  ClipInv'
    <3>1. PICK g \in Askers : g = f
      BY <2>1
    <3>2. conn'[g] = ServerTakes(conn[g], n) /\ conn' = [conn EXCEPT ![g] = ServerTakes(conn[g], n)]
      BY <1>0, <2>3, <3>1
    <3>3. /\ conn'[g].down = conn[g].down /\ conn'[g].client = conn[g].client
          /\ conn'[g].server = conn[g].server
      <4> DEFINE d == ServerTakes(conn[g], n)
      <4>1. d.down = conn[g].down /\ d.client = conn[g].client /\ d.server = conn[g].server
        <5>1. conn[g] \in Connections(Words)
          BY <1>0
        <5> QED BY <5>1, Sides
      <4> HIDE DEF d
      <4> QED BY <3>2, <4>1 DEF d
    <3>4. ~Replying(g)
      BY <2>1 DEF Replying
    <3>5. ReplyFits(g, conn[g])'
      BY <1>6, <2>3, <3>3, <3>4
    <3> QED BY <1>12, <2>3, <3>1, <3>2, <3>5
  <2> QED BY <1>13, <2>1, <2>2, <2>3
(* With a clip to send, it is the clip of the prompt of the asker. *)
<1>15. infer.at \in {"done", "sendmotion"} =>
         infer.vector = Prompt(f) /\ class[f] = "fits"
  BY DEF BackInv, PromptInv, Serving, InferAt, Prompt
<1>16. CASE SendStatus
  <2>1. PICK g \in Askers : g = f
    BY <1>1, <1>16 DEF SendStatus, Serving, InferAt
  <2>2. /\ infer.at \in {"done", "failed"} /\ infer'.for = g
        /\ infer'.at = IF infer.at = "done" THEN "sendmotion" ELSE "senderror"
    BY <1>16, <2>1 DEF SendStatus, At, TypeInv, TypeOK
  <2>3. PICK is \in {"ok", "error"} :
          /\ conn' = [conn EXCEPT ![g] = ServerSends(conn[g], <<Word(is, None)>>)]
          /\ is = "ok" <=> infer.at = "done"
    BY <1>16, <2>1 DEF SendStatus
  <2> DEFINE s == <<Word(is, None)>>
             c == conn[g]
  <2>4. conn'[g] = ServerSends(c, s)
    BY <1>0, <2>3
  <2>5. Replying(g)' /\ ~Replying(g) /\ c.server
    BY <1>1, <2>1, <2>2 DEF Replying, Serving, InferAt
  <2>6. CASE ~c.client
    <3>1. conn'[g] = c
      BY <2>4, <2>6 DEF ServerSends
    <3>2. /\ AllOf(conn[g].down, Prompt(g))' <=> AllOf(conn[g].down, Prompt(g))
          /\ AllOf(Tail(conn[g].down), Prompt(g))' <=> AllOf(Tail(conn[g].down), Prompt(g))
      BY <1>3, <3>1 DEF AllOf
    <3>3. ReplyFits(g, c)
      BY <1>5
    <3>4. ReplyFits(g, conn[g])'
      BY <1>2, <2>6, <3>1, <3>2, <3>3 DEF ReplyFits
    <3> QED BY <1>12, <2>1, <2>2, <2>3, <3>4
  <2>7. CASE c.client
    <3>1. pc[g] = "status" /\ c.down = <<>>
      BY <1>5, <2>5, <2>7 DEF ReplyFits
    <3>2. conn'[g].down = s
      <4>1. ServerSends(c, s) = [c EXCEPT !.down = c.down \o s]
        BY <2>7 DEF ServerSends
      <4>2. [c EXCEPT !.down = c.down \o s].down = c.down \o s
        BY <1>0 DEF Connections
      <4>3. s \in Seq(Words)
        BY WordTypes
      <4> HIDE DEF s
      <4>4. c.down \o s = s
        BY <3>1, <4>3
      <4> QED BY <2>4, <4>1, <4>2, <4>4
    <3>3. /\ s # <<>> /\ s[1].is = is /\ Tail(s) = <<>>
      BY DEF Word
    <3> HIDE DEF s
    <3>4. class[g] = "fits" \/ is # "ok"
      BY <1>15, <2>1, <2>3
    <3>5. AllOf(Tail(conn[g].down), Prompt(g))'
      <4>1. Tail(conn[g].down)' = <<>> /\ Len(<<>>) = 0
        BY <3>2, <3>3
      <4>2. Len(Tail(conn[g].down))' = 0
        BY <4>1
      <4> QED BY <4>2 DEF AllOf
    <3>6. infer'.at = "senderror" => is # "ok"
      BY <2>2, <2>3
    <3>7. /\ pc'[g] = "status" /\ conn'[g].down # <<>> /\ conn'[g].down[1].is = is
          /\ class'[g] = class[g]
      BY <1>2, <3>1, <3>2, <3>3
    <3>8. ReplyFits(g, conn[g])'
      BY <2>5, <3>4, <3>5, <3>6, <3>7 DEF ReplyFits
    <3> QED BY <1>12, <2>1, <2>2, <2>3, <3>8
  <2> QED BY <2>6, <2>7
<1>17. CASE SendRest
  <2>1. PICK g \in Askers : g = f
    BY <1>1, <1>17 DEF SendRest, Serving, InferAt
  <2>2. infer'.for = None /\ infer.at \in {"sendmotion", "senderror"}
    BY <1>8, <1>17 DEF SendRest
  <2>3. PICK s : /\ conn' = [conn EXCEPT ![g] = ServerCloses(ServerSends(conn[g], s))]
                 /\ s = IF infer.at = "sendmotion" THEN MotionReply(infer.vector) ELSE ErrorReply
    BY <1>17, <2>1 DEF SendRest
  <2>4. s \in Seq(Words) /\ s # <<>> /\ s[1].is # "ok"
    <3>1. infer.vector \in Prompts \cup {None}
      BY DEF TypeInv, TypeOK
    <3>2. MotionReply(infer.vector) \in Seq(Words) /\ ErrorReply \in Seq(Words)
      BY <3>1, WordTypes
    <3>3. /\ MotionReply(infer.vector) # <<>> /\ ErrorReply # <<>>
          /\ MotionReply(infer.vector)[1].is = "shape" /\ ErrorReply[1].is = "len"
      BY DEF MotionReply, ErrorReply, Word
    <3> HIDE DEF MotionReply, ErrorReply
    <3> QED BY <2>3, <3>2, <3>3
  <2>5. infer.at = "sendmotion" => AllOf(s, Prompt(g)) /\ class[g] = "fits"
    BY <1>15, <2>1, <2>3, AllOfWords
  <2> DEFINE c == conn[g]
             d == ServerSends(c, s)
  <2>6. conn'[g] = ServerCloses(d)
    BY <1>0, <2>3
  <2>7. d \in Connections(Words) /\ d.client = c.client
    <3>1. c \in Conns(Words, Words)
      BY <1>0 DEF Connections, Conns
    <3>2. d \in Conns(Words, Words)
      BY <2>4, <3>1, ConnTypes
    <3>3. d.client = c.client
      BY <1>0, Sides
    <3> QED BY <3>2, <3>3 DEF Connections, Conns
  <2>8. CASE ~c.client
    <3>1. d = c
      BY <2>8 DEF ServerSends
    <3>2. conn'[g].down \in {c.down, <<>>} /\ conn'[g].server = FALSE
      <4> DEFINE e == ServerCloses(c)
      <4>1. e.down \in {c.down, <<>>} /\ e.server = FALSE
        BY <1>0, Forgets, Sides
      <4>2. conn'[g] = e
        BY <2>6, <3>1
      <4> HIDE DEF e
      <4> QED BY <4>1, <4>2
    <3>3. ReplyFits(g, conn[g])'
      BY <1>7, <1>9, <2>2, <3>2
    <3> QED BY <1>12, <2>1, <2>2, <2>3, <3>3
  <2>9. CASE c.client
    <3> DEFINE u == c.down \o s
    <3>1. d.down = u
      <4>1. d = [c EXCEPT !.down = c.down \o s]
        BY <2>9 DEF ServerSends
      <4>2. [c EXCEPT !.down = c.down \o s].down = c.down \o s
        BY <1>0 DEF Connections
      <4> QED BY <4>1, <4>2
    <3> HIDE DEF d
    <3>2. conn'[g].down = u /\ conn'[g].server = FALSE
      <4> DEFINE e == ServerCloses(d)
      <4>1. e.down = u /\ e.server = FALSE
        <5>1. ServerCloses(d).down = d.down /\ ServerCloses(d).server = FALSE
          BY <2>7, <2>9, Forgets, Sides
        <5> QED BY <3>1, <5>1
      <4>2. conn'[g] = e
        BY <2>6
      <4> HIDE DEF e
      <4> QED BY <4>1, <4>2
    <3>3. ReplyFits(g, c) /\ c.down \in Seq(Words)
      BY <1>0, <1>5
    <3> HIDE DEF u
    <3>4. pc[g] = "motion" => class[g] = "fits" /\ AllOf(u, Prompt(g))
      <4>1. pc[g] = "motion" => infer.at = "sendmotion"
        BY <2>1, <2>2, <2>9, <3>3 DEF ReplyFits
      <4>2. pc[g] = "motion" => AllOf(c.down, Prompt(g))
        BY <3>3 DEF ReplyFits
      <4> QED BY <2>4, <2>5, <3>3, <4>1, <4>2, AllOfJoined DEF u
    <3>5. pc[g] = "status" => \/ u = <<>> \/ u[1].is # "ok"
                              \/ class[g] = "fits" /\ AllOf(Tail(u), Prompt(g))
      <4> SUFFICES ASSUME pc[g] = "status"
                   PROVE  \/ u = <<>> \/ u[1].is # "ok"
                          \/ class[g] = "fits" /\ AllOf(Tail(u), Prompt(g))
        OBVIOUS
      <4>1. CASE c.down = <<>>
        <5>1. u = s
          BY <2>4, <4>1 DEF u
        <5> QED BY <2>4, <5>1
      <4>2. CASE c.down # <<>>
        <5>1. u[1] = c.down[1]
          <6>1. Len(c.down) \in Nat \ {0}
            BY <3>3, <4>2, EmptySeq
          <6> QED BY <2>4, <3>3, <6>1, ConcatProperties DEF u
        <5>2. CASE c.down[1].is # "ok"
          BY <5>1, <5>2
        <5>3. CASE c.down[1].is = "ok"
          <6>1. infer.at = "sendmotion"
            BY <2>1, <2>2, <2>9, <3>3, <5>3 DEF ReplyFits
          <6>2. AllOf(Tail(c.down), Prompt(g))
            BY <3>3, <4>2, <5>3 DEF ReplyFits
          <6> QED BY <2>4, <2>5, <3>3, <4>2, <6>1, <6>2, AllOfAfterFirst DEF u
        <5> QED BY <5>2, <5>3
      <4> QED BY <4>1, <4>2
    <3>6. /\ AllOf(u, Prompt(g)) => AllOf(conn[g].down, Prompt(g))'
          /\ AllOf(Tail(u), Prompt(g)) => AllOf(Tail(conn[g].down), Prompt(g))'
      BY <1>3, <3>2 DEF AllOf
    <3>7. infer'.for # g
      BY <1>9, <2>2
    <3>8. ReplyFits(g, conn[g])'
      BY <1>2, <3>2, <3>4, <3>5, <3>6, <3>7 DEF ReplyFits
    <3> QED BY <1>12, <2>1, <2>2, <2>3, <3>8
  <2> QED BY <2>8, <2>9
<1>18. ASSUME InferDies
       PROVE  ClipInv'
  <2>1. infer'.at = "dead"
    BY <1>18 DEF InferDies, NextClient, TypeInv, TypeOK
  <2>2. ASSUME NEW w \in Askers
        PROVE  conn'[w].down \in {conn[w].down, <<>>} /\ conn'[w].server = FALSE
    <3> DEFINE d == ServerCloses(conn[w])
    <3>1. conn'[w] = d
      BY <1>18 DEF InferDies
    <3>2. conn[w] \in Connections(Words)
      BY <1>0
    <3>3. d.down \in {conn[w].down, <<>>}
      BY <3>2, Forgets
    <3>4. d.server = FALSE
      BY <3>2, Sides
    <3> HIDE DEF d
    <3> QED BY <3>1, <3>3, <3>4
  <2>3. \A w \in Askers : ReplyFits(w, conn[w])'
    BY <1>7, <2>1, <2>2
  <2> QED BY <1>4, <2>3
<1> QED
  BY <1>11, <1>14, <1>16, <1>17, <1>18 DEF InferStep, BrokenPipe, Killed

LEMMA ClipHidden ==
    ASSUME ClipInv, HiddenStep \/ FusedStops \/ UNCHANGED vars
    PROVE  ClipInv'
<1>1. UNCHANGED <<pc, class, clip, conn, infer>>
  BY DEF HiddenStep, HiddenAccept, HiddenRead, HiddenExtract, Extract, FusedStops,
         vars, handlerVars
<1>2. \A w : Prompt(w)' = Prompt(w) /\ (Replying(w)' <=> Replying(w))
  BY <1>1 DEF Prompt, Replying
<1>3. ASSUME NEW w \in Askers
      PROVE  ReplyFits(w, conn[w])'
  <2>1. /\ AllOf(conn[w].down, Prompt(w))' <=> AllOf(conn[w].down, Prompt(w))
        /\ AllOf(Tail(conn[w].down), Prompt(w))' <=> AllOf(Tail(conn[w].down), Prompt(w))
    BY <1>1, <1>2 DEF AllOf
  <2>2. ReplyFits(w, conn[w])
    BY DEF ClipInv
  <2> QED BY <1>1, <1>2, <2>1, <2>2 DEF ReplyFits
<1> QED BY <1>1, <1>2, <1>3 DEF ClipInv

-----------------------------------------------------------------------------
(* The pipeline as a service. *)

Asked == [w \in Askers |-> IF pc[w] = "idle" THEN None ELSE class[w]]

(* The answers the code gives are among those the service may give. *)
LEMMA GivenAnswers ==
    ASSUME NEW w, NEW c \in Classes
    PROVE  /\ c = "bad" => [status |-> "refused", clip |-> None] \in Service!Allowed(w, c)
           /\ c # "bad" => [status |-> "failed", clip |-> None] \in Service!Allowed(w, c)
           /\ c = "fits" => [status |-> "ok", clip |-> [by |-> w, class |-> c]]
                              \in Service!Allowed(w, c)
<1>1. CASE c = "bad"
  BY <1>1 DEF Service!Allowed
<1>2. CASE c = "fits"
  BY <1>2 DEF Service!Allowed, Service!Clip
<1>3. CASE c \notin {"bad", "fits"}
  BY <1>3 DEF Service!Allowed
<1> QED BY <1>1, <1>2, <1>3

LEMMA ServiceAsker ==
    ASSUME TypeInv, PromptInv, ClipInv,
           NEW w \in Askers, Ask(w) \/ AskerStep(w) \/ HangUp(w)
    PROVE  Service!Next \/ UNCHANGED <<Asked, answer>>
<1>0. /\ pc = [v \in Askers |-> pc[v]] /\ class \in [Askers -> Classes]
      /\ answer = [v \in Askers |-> answer[v]] /\ None \notin Classes
      /\ conn[w].down \in Seq(Words)
  BY PipelineAssumption DEF TypeInv, TypeOK, Connections
(* On its way, the asker still waits for the same answer. *)
<1>1. ASSUME pc[w] # "idle", NEW place, place # "idle", Goto(w, place),
             UNCHANGED <<class, answer>>
      PROVE  UNCHANGED <<Asked, answer>>
  <2>1. \A v \in Askers : pc'[v] = "idle" <=> pc[v] = "idle"
    BY <1>0, <1>1 DEF Goto
  <2> QED BY <1>1, <2>1 DEF Asked
<1>2. ASSUME pc[w] # "idle", NEW s, NEW m, Respond(w, s, m),
             [status |-> s, clip |-> m] \in Service!Allowed(w, class[w])
      PROVE  Service!Next
  <2>1. /\ pc' = [pc EXCEPT ![w] = "idle"] /\ UNCHANGED class
        /\ answer' = [answer EXCEPT ![w] = [status |-> s, clip |-> m]]
    BY <1>2 DEF Respond, Goto
  <2>2. Asked[w] = class[w] /\ Asked[w] # None
    BY <1>0, <1>2 DEF Asked
  <2>3. Asked' = [Asked EXCEPT ![w] = None]
    <3>1. \A v \in Askers : pc'[v] = IF v = w THEN "idle" ELSE pc[v]
      BY <1>0, <2>1
    <3> QED BY <2>1, <3>1 DEF Asked
  <2>4. Service!Tell(w)
    BY <1>2, <2>1, <2>2, <2>3 DEF Service!Tell, Asked
  <2> QED BY <2>4 DEF Service!Next
<1>3. ASSUME Fails(w), pc[w] \notin {"idle", "lock", "parse"}
      PROVE  Service!Next
  <2>1. class[w] \in Classes /\ class[w] # "bad"
    BY <1>0, <1>3 DEF PromptInv
  <2> QED BY <1>2, <1>3, <2>1, GivenAnswers DEF Fails
<1>4. ASSUME Respond(w, "ok", Prompt(w)), pc[w] # "idle", class[w] = "fits"
      PROVE  Service!Next
  <2>1. class[w] \in Classes
    BY <1>0
  <2>2. [status |-> "ok", clip |-> Prompt(w)] \in Service!Allowed(w, class[w])
    BY <1>4, <2>1, GivenAnswers DEF Prompt
  <2> QED BY <1>2, <1>4, <2>2
<1>5. CASE Ask(w)
  <2>1. PICK c \in Classes : class' = [class EXCEPT ![w] = c]
    BY <1>5, PipelineAssumption DEF Ask
  <2>2. /\ pc[w] = "idle" /\ answer' = [answer EXCEPT ![w] = None]
        /\ \E place : place # "idle" /\ pc' = [pc EXCEPT ![w] = place]
    BY <1>5 DEF Ask, Goto
  <2>3. Asked[w] = None
    BY <2>2 DEF Asked
  <2>4. Asked' = [Asked EXCEPT ![w] = c]
    <3>1. \A v \in Askers : /\ v # w => pc'[v] = pc[v] /\ class'[v] = class[v]
                            /\ v = w => pc'[v] # "idle" /\ class'[v] = c
      BY <1>0, <2>1, <2>2
    <3> QED BY <3>1 DEF Asked
  <2>5. Service!Ask(w)
    BY <2>2, <2>3, <2>4 DEF Service!Ask, Asked
  <2> QED BY <2>5 DEF Service!Next
<1>6. CASE Lock(w)
  <2>1. pc[w] = "lock" /\ Goto(w, "parse") /\ UNCHANGED <<class, answer>>
    BY <1>6 DEF Lock
  <2> QED BY <1>1, <2>1
<1>7. CASE Parse(w)
  <2>1. CASE class[w] = "bad"
    <3>1. pc[w] # "idle" /\ Respond(w, "refused", None)
      BY <1>7, <2>1 DEF Parse
    <3>2. [status |-> "refused", clip |-> None] \in Service!Allowed(w, class[w])
      BY <1>0, <2>1, GivenAnswers
    <3> QED BY <1>2, <3>1, <3>2
  <2>2. CASE class[w] # "bad"
    <3>1. pc[w] = "parse" /\ Goto(w, "call") /\ UNCHANGED <<class, answer>>
      BY <1>7, <2>2 DEF Parse
    <3> QED BY <1>1, <3>1
  <2> QED BY <2>1, <2>2
<1>8. CASE Call(w)
  <2>1. \/ Fails(w) /\ pc[w] = "call"
        \/ pc[w] = "call" /\ Goto(w, "status") /\ UNCHANGED <<class, answer>>
    BY <1>8 DEF Call
  <2> QED BY <1>1, <1>3, <2>1
<1>9. CASE ReadStatus(w)
  <2>1. /\ pc[w] = "status"
        /\ \/ Fails(w)
           \/ /\ \E place \in {"motion", "error"} : Goto(w, place)
              /\ UNCHANGED <<class, answer>>
    BY <1>9 DEF ReadStatus, CutOff
  <2> QED BY <1>1, <1>3, <2>1
<1>10. CASE ReadError(w)
  <2>1. pc[w] = "error" /\ Fails(w)
    BY <1>10 DEF ReadError, CutOff
  <2> QED BY <1>3, <2>1
<1>11. CASE ReadMotion(w)
  <2>1. pc[w] = "motion"
    BY <1>11 DEF ReadMotion
  <2>2. CASE Fails(w)
    BY <1>3, <2>1, <2>2
  <2>3. CASE ~Fails(w)
    <3>1. /\ ClientHas(conn[w], 4)
          /\ \/ Goto(w, "mkdir") /\ UNCHANGED <<class, answer>>
             \/ Respond(w, "ok", conn[w].down[3].of)
      BY <1>11, <2>3 DEF ReadMotion, CutOff
    <3>2. class[w] = "fits" /\ conn[w].down[3].of = Prompt(w)
      <4>1. Len(conn[w].down) >= 4 /\ Len(conn[w].down) \in Nat
        BY <1>0, <3>1 DEF ClientHas
      <4>2. class[w] = "fits" /\ AllOf(conn[w].down, Prompt(w))
        BY <2>1 DEF ClipInv, ReplyFits
      <4> QED BY <4>1, <4>2 DEF AllOf
    <3>3. CASE Goto(w, "mkdir") /\ UNCHANGED <<class, answer>>
      BY <1>1, <2>1, <3>3
    <3>4. CASE Respond(w, "ok", conn[w].down[3].of)
      BY <1>4, <2>1, <3>2, <3>4
    <3> QED BY <3>1, <3>3, <3>4
  <2> QED BY <2>2, <2>3
<1>12. CASE MakeDir(w) \/ Write(w) \/ Convert(w)
  <2>1. /\ pc[w] \in {"mkdir", "write", "convert"}
        /\ \/ Fails(w)
           \/ /\ \E place \in {"write", "convert", "read"} : Goto(w, place)
              /\ UNCHANGED <<class, answer>>
    BY <1>12 DEF MakeDir, Write, Convert, UseDir
  <2> QED BY <1>1, <1>3, <2>1
<1>13. CASE ReadFile(w)
  <2>1. pc[w] = "read" /\ (Fails(w) \/ Respond(w, "ok", clip[w]))
    BY <1>13 DEF ReadFile
  <2>2. class[w] = "fits" /\ clip[w] = Prompt(w)
    BY <2>1 DEF ClipInv
  <2> QED BY <1>3, <1>4, <2>1, <2>2
<1>14. CASE HangUp(w)
  <2>1. /\ pc[w] # "idle" /\ pc' = [pc EXCEPT ![w] = "idle"] /\ UNCHANGED <<class, answer>>
    BY <1>14 DEF HangUp, Goto
  <2>2. Asked[w] # None
    BY <1>0, <2>1 DEF Asked
  <2>3. Asked' = [Asked EXCEPT ![w] = None]
    <3>1. \A v \in Askers : pc'[v] = IF v = w THEN "idle" ELSE pc[v]
      BY <1>0, <2>1
    <3> QED BY <2>1, <3>1 DEF Asked
  <2>4. Service!GiveUp(w)
    BY <2>1, <2>2, <2>3 DEF Service!GiveUp, Asked
  <2> QED BY <2>4 DEF Service!Next
<1> QED
  BY <1>5, <1>6, <1>7, <1>8, <1>9, <1>10, <1>11, <1>12, <1>13, <1>14 DEF AskerStep

PipelineInv == TypeInv /\ FrontInv /\ LinkInv /\ PromptInv /\ BackInv /\ ClipInv

LEMMA PipelineInvariant == Spec => []PipelineInv
<1>1. Init => PromptInv /\ BackInv /\ ClipInv
  <2> SUFFICES ASSUME Init PROVE PromptInv /\ BackInv /\ ClipInv
    OBVIOUS
  <2>1. /\ \A w \in Askers : /\ conn[w].up = <<>> /\ conn[w].server = FALSE
                             /\ conn[w].client = FALSE /\ pc[w] = "idle"
        /\ infer.at = "accept"
    BY DEF Init, NoConnection
  <2>2. PromptInv
    BY <2>1, AllOfWords DEF PromptInv, Serving
  <2>3. BackInv
    BY <2>1 DEF BackInv, Fetching
  <2>4. ClipInv
    BY <2>1 DEF ClipInv, ReplyFits
  <2> QED BY <2>2, <2>3, <2>4
<1>2. TypeInv /\ FrontInv /\ LinkInv /\ PromptInv /\ BackInv /\ ClipInv /\ [Next]_vars
        => PromptInv' /\ BackInv' /\ ClipInv'
  <2> SUFFICES ASSUME TypeInv, FrontInv, LinkInv, PromptInv, BackInv, ClipInv, [Next]_vars
               PROVE  PromptInv' /\ BackInv' /\ ClipInv'
    OBVIOUS
  <2>1. CASE UNCHANGED vars
    <3>1. BackInv'
      BY <2>1, BackSame DEF vars
    <3> QED BY <2>1, <3>1, PromptHidden, ClipHidden
  <2>2. CASE \E w \in Askers : Ask(w) \/ AskerStep(w) \/ HangUp(w)
    BY <2>2, PromptAsker, BackAsker, ClipAsker
  <2>3. CASE InferStep \/ Killed
    BY <2>3, PromptInfer, BackInfer, ClipInfer
  <2>4. CASE HiddenStep \/ FusedStops
    BY <2>4, PromptHidden, BackHidden, ClipHidden
  <2> QED BY <2>1, <2>2, <2>3, <2>4 DEF Next
<1> QED BY <1>1, <1>2, SocketInvariant, PTL DEF Spec, PipelineInv

(***************************************************************************)
(* The pipeline implements the service: whatever is asked, by however many *)
(* handlers and clients, and whatever fails on the way, a question has one *)
(* answer, and a clip that is answered was made from the very prompt of    *)
(* the question, never from one another asker sent or one read half.       *)
(***************************************************************************)
THEOREM PipelineImplementsService == Spec => ImplementsService
<1>1. Init => Service!Init
  <2> SUFFICES ASSUME Init PROVE Service!Init
    OBVIOUS
  <2>1. /\ [w \in Askers |-> IF pc[w] = "idle" THEN None ELSE class[w]] = [w \in Askers |-> None]
        /\ answer = [w \in Askers |-> None]
    BY DEF Init
  <2> QED BY <2>1 DEF Service!Init
<1>2. PipelineInv /\ [Next]_vars => [Service!Next]_<<Asked, answer>>
  <2> SUFFICES ASSUME PipelineInv, [Next]_vars
               PROVE  Service!Next \/ UNCHANGED <<Asked, answer>>
    OBVIOUS
  <2>1. CASE \E w \in Askers : Ask(w) \/ AskerStep(w) \/ HangUp(w)
    BY <2>1, ServiceAsker DEF PipelineInv
  <2>2. CASE InferStep \/ Killed \/ HiddenStep \/ FusedStops \/ UNCHANGED vars
    <3>1. UNCHANGED <<pc, class, answer>>
      BY <2>2 DEF InferStep, Killed, InferDies, BrokenPipe, Accept, ReadLen, ReadRest, ClientGone,
                  Fetch, ReadHead, ReadVector, FetchCutOff, Infer, SendStatus, SendRest,
                  HiddenStep, HiddenAccept, HiddenRead, HiddenExtract, Extract, FusedStops,
                  handlerVars, vars
    <3> QED BY <3>1 DEF Asked
  <2> QED BY <2>1, <2>2 DEF Next
<1> QED
  BY <1>1, <1>2, PipelineInvariant, PTL DEF Spec, ImplementsService, Service!Spec, Asked

-----------------------------------------------------------------------------
(* Prompts that fit *)

(***************************************************************************)
(* Only processes end and clients leave: the disk, the sessions, the       *)
(* converter and llama_decode work, t2m_infer may hold its two sockets,    *)
(* and no direct client sends an empty prompt, each of which costs         *)
(* t2m_infer a socket (FetchCutOff).                                       *)
(***************************************************************************)
Kindly ==
    /\ Failures \subseteq {"stop", "kill", "hangup"}
    /\ FdLimit >= 2
    /\ "empty" \notin Sent

BothUp == infer.at # "dead" /\ hidden.at # "dead"

Waiting == {"status", "error", "motion"}

(* The words of a request that fits which t2m_infer has still to read, and  *)
(* those of the reply it has sent.                                          *)
Unread(w) ==
    IF ~conn[w].server THEN 0
    ELSE IF infer.for # w \/ infer.at = "len" THEN 4
    ELSE IF infer.at = "rest" THEN 3 ELSE 0

Replied(w) == IF ~conn[w].server THEN 5 ELSE IF Replying(w) THEN 1 ELSE 0

(* None of them is lost on the way to or from the asker. *)
Delivers(w) ==
    /\ conn[w].client <=> pc[w] \in Waiting
    /\ class[w] # "empty"
    /\ class[w] = "fits" =>
         /\ pc[w] # "error"
         /\ infer.for = w => infer.at \notin {"failed", "senderror"}
         /\ conn[w].client =>
              /\ Len(conn[w].up) = Unread(w)
              /\ Len(conn[w].down) = IF pc[w] = "motion" THEN Replied(w) - 1 ELSE Replied(w)
              /\ pc[w] = "status" /\ conn[w].down # <<>> => conn[w].down[1].is = "ok"

(* t2m_infer holds no link but the one in use, the hidden port stays with   *)
(* it, and a reply of more than one word is a vector.                       *)
Fetches ==
    /\ \A i \in Slots : link[i].client => Fetching /\ i = infer.slot
    /\ Fetching => link[infer.slot].server /\ Len(link[infer.slot].up) # 1
    /\ infer.at = "head" /\ Len(link[infer.slot].down) > 1
         => link[infer.slot].down[1].is = "ok"

GoodInv == BothUp => Fetches /\ (\A w \in Askers : Delivers(w)) /\ GoodPromptsSucceed

LEMMA RequestLength ==
    ASSUME NEW p, p.class = "fits"
    PROVE  Len(Request(p)) = 4 /\ Len(Bytes(p)) = 1
<1>1. Bytes(p) = <<Word("prompt", p)>>
  BY DEF Bytes
<1> DEFINE S == {Word("len", p), Word("prompt", p), Word("duration", p), Word("seed", p)}
           a == <<Word("len", p)>>
           b == Bytes(p)
           c == <<Word("duration", p), Word("seed", p)>>
<1>2. /\ a \in Seq(S) /\ Len(a) = 1 /\ b \in Seq(S) /\ Len(b) = 1
      /\ c \in Seq(S) /\ Len(c) = 2
  BY <1>1
<1>3. Request(p) = (a \o b) \o c
  BY DEF Request
<1> HIDE DEF S, a, b, c
<1>4. a \o b \in Seq(S) /\ Len(a \o b) = Len(a) + Len(b)
  BY ONLY <1>2, ConcatProperties
<1>5. Len((a \o b) \o c) = Len(a \o b) + Len(c)
  BY ONLY <1>2, <1>4, ConcatProperties
<1> QED BY <1>2, <1>3, <1>4, <1>5 DEF b

(* Nothing of what an asker waits for has moved. *)
LEMMA DeliversSame ==
    ASSUME NEW w, Delivers(w), conn'[w] = conn[w], pc'[w] = pc[w], class'[w] = class[w],
           infer'.at = infer.at, infer'.for = infer.for
    PROVE  Delivers(w)'
  BY DEF Delivers, Unread, Replied, Replying

(* An asker that waits for nothing. *)
LEMMA DeliversNothing ==
    ASSUME NEW w, ~conn'[w].client, pc'[w] \notin Waiting,
           class'[w] # "empty",
           class'[w] = "fits" /\ infer'.for = w => infer'.at \notin {"failed", "senderror"}
    PROVE  Delivers(w)'
  BY DEF Delivers, Waiting

(* While all is up, an asker with a prompt that fits finds no end of stream. *)
LEMMA NotCutOff ==
    ASSUME TypeInv, NEW w \in Askers, Delivers(w), class[w] = "fits", pc[w] \in Waiting
    PROVE  /\ ~CutOff(w, 1) \/ pc[w] # "status"
           /\ ~CutOff(w, 4) \/ pc[w] # "motion"
           /\ pc[w] # "error"
<1>1. conn[w].up \in Seq(Words) /\ conn[w].down \in Seq(Words)
      /\ Len(conn[w].up) \in Nat /\ Len(conn[w].down) \in Nat
  BY DEF TypeInv, TypeOK, Connections
<1>2. ASSUME ~conn[w].server
      PROVE  /\ conn[w].up = <<>>
             /\ pc[w] = "status" => Len(conn[w].down) >= 1
             /\ pc[w] = "motion" => Len(conn[w].down) >= 4
  <2>1. conn[w].client
    BY DEF Delivers
  <2>2. /\ Len(conn[w].up) = 0
        /\ Len(conn[w].down) = IF pc[w] = "motion" THEN 5 - 1 ELSE 5
    BY <1>2, <2>1 DEF Delivers, Unread, Replied
  <2>3. conn[w].up = <<>>
    BY <1>1, <2>2
  <2> QED BY <1>1, <2>2, <2>3
<1> QED BY <1>2 DEF CutOff, ClientAtEnd, ClientHas, Delivers

LEMMA GoodAsker ==
    ASSUME Kindly, PipelineInv, BothUp, GoodInv,
           NEW w \in Askers, Ask(w) \/ AskerStep(w) \/ HangUp(w)
    PROVE  Fetches' /\ (\A v \in Askers : Delivers(v)') /\ (BothUp' => GoodPromptsSucceed')
<1> USE DEF PipelineInv
<1>0. /\ conn \in [Askers -> Connections(Words)] /\ conn[w] \in Connections(Words)
      /\ pc = [v \in Askers |-> pc[v]] /\ class \in [Askers -> Classes]
      /\ answer = [v \in Askers |-> answer[v]]
  BY DEF TypeInv, TypeOK
<1>1. /\ infer'.at = infer.at /\ infer'.for = infer.for /\ infer'.slot = infer.slot
      /\ UNCHANGED <<link, hidden>>
  BY InferApart
<1>3. Fetches'
  BY <1>1 DEF GoodInv, Fetches, Fetching
<1>4. Delivers(w) /\ GoodPromptsSucceed /\ \A v \in Askers : Delivers(v)
  BY DEF GoodInv
(* All that matters is what the step does for w. *)
<1>5. ASSUME \A v \in Askers \ {w} : /\ conn'[v] = conn[v] /\ pc'[v] = pc[v]
                                     /\ class'[v] = class[v] /\ answer'[v] = answer[v],
             Delivers(w)',
             answer'[w] # None /\ class'[w] = "fits" =>
               answer'[w].status = "ok" \/ (answer[w] = answer'[w] /\ class[w] = class'[w])
      PROVE  (\A v \in Askers : Delivers(v)') /\ GoodPromptsSucceed'
  <2>1. \A v \in Askers : Delivers(v)'
    BY <1>1, <1>4, <1>5, DeliversSame
  <2>2. GoodPromptsSucceed'
    BY <1>1, <1>4, <1>5 DEF GoodPromptsSucceed
  <2> QED BY <2>1, <2>2
<1>6. ASSUME NEW place, Goto(w, place) PROVE pc'[w] = place /\ \A v \in Askers \ {w} : pc'[v] = pc[v]
  BY <1>0, <1>6 DEF Goto
<1>7. ASSUME NEW c, conn' = [conn EXCEPT ![w] = c]
      PROVE  conn'[w] = c /\ \A v \in Askers \ {w} : conn'[v] = conn[v]
  BY <1>0, <1>7
<1>8. ASSUME NEW status, NEW m, Respond(w, status, m)
      PROVE  /\ pc'[w] = "idle" /\ \A v \in Askers \ {w} : pc'[v] = pc[v]
             /\ answer'[w] = [status |-> status, clip |-> m] /\ answer'[w].status = status
             /\ \A v \in Askers \ {w} : answer'[v] = answer[v]
             /\ UNCHANGED class
  <2>1. answer'[w] = [status |-> status, clip |-> m]
    BY <1>0, <1>8 DEF Respond
  <2>2. [status |-> status, clip |-> m].status = status
    OBVIOUS
  <2> QED BY <1>0, <1>8, <2>1, <2>2 DEF Respond, Goto
(* w has no connection before or after. *)
<1>9. ASSUME UNCHANGED <<conn, class>>, pc[w] \notin Waiting, pc'[w] \notin Waiting
      PROVE  Delivers(w)'
  BY <1>1, <1>4, <1>9, DeliversNothing DEF Delivers
<1>10. CASE Ask(w)
  <2>1. PICK c \in IF w \in Threads THEN Posted ELSE Sent : class' = [class EXCEPT ![w] = c]
    BY <1>10 DEF Ask
  <2>2. class'[w] = c /\ c # "empty" /\ \A v \in Askers \ {w} : class'[v] = class[v]
    BY <1>0, <2>1, PipelineAssumption DEF Kindly
  <2>3. /\ UNCHANGED conn /\ conn[w] = NoConnection
        /\ answer'[w] = None /\ \A v \in Askers \ {w} : answer'[v] = answer[v]
        /\ pc'[w] \in {"lock", "call"} /\ \A v \in Askers \ {w} : pc'[v] = pc[v]
    BY <1>0, <1>10, <1>6 DEF Ask
  <2>4. ~conn[w].client /\ ~conn[w].server
    BY <2>3 DEF NoConnection
  <2>5. infer.for # w
    BY <2>4 DEF FrontInv
  <2>6. Delivers(w)'
    BY <1>1, <2>2, <2>3, <2>4, <2>5, DeliversNothing DEF Waiting
  <2> QED BY <1>3, <1>5, <2>2, <2>3, <2>6
<1>11. CASE Lock(w) \/ (Parse(w) /\ class[w] # "bad")
  <2>1. /\ UNCHANGED <<conn, class, answer>> /\ pc[w] \in {"lock", "parse"}
        /\ \E place \in {"parse", "call"} : Goto(w, place)
    BY <1>11 DEF Lock, Parse
  <2>2. pc'[w] \in {"parse", "call"} /\ \A v \in Askers \ {w} : pc'[v] = pc[v]
    BY <1>6, <2>1
  <2> QED BY <1>3, <1>5, <1>9, <2>1, <2>2 DEF Waiting
<1>12. CASE Parse(w) /\ class[w] = "bad"
  <2>1. UNCHANGED conn /\ pc[w] = "parse" /\ Respond(w, "refused", None)
    BY <1>12 DEF Parse
  <2>2. Delivers(w)'
    BY <1>8, <1>9, <2>1 DEF Waiting
  <2> QED BY <1>3, <1>5, <1>8, <1>12, <2>1, <2>2
<1>13. CASE MakeDir(w) \/ Write(w) \/ Convert(w) \/ ReadFile(w)
  <2>1. /\ UNCHANGED <<conn, class>> /\ pc[w] \in {"mkdir", "write", "convert", "read"}
        /\ \/ UNCHANGED answer /\ \E place \in {"write", "convert", "read"} : Goto(w, place)
           \/ \E m : Respond(w, "ok", m)
    BY <1>13 DEF MakeDir, Write, Convert, UseDir, ReadFile, Kindly, Respond
  <2>2. CASE UNCHANGED answer /\ \E place \in {"write", "convert", "read"} : Goto(w, place)
    <3>1. pc'[w] \in {"write", "convert", "read"} /\ \A v \in Askers \ {w} : pc'[v] = pc[v]
      BY <1>6, <2>2
    <3> QED BY <1>3, <1>5, <1>9, <2>1, <2>2, <3>1 DEF Waiting
  <2>3. ASSUME NEW m, Respond(w, "ok", m)
        PROVE  (\A v \in Askers : Delivers(v)') /\ GoodPromptsSucceed'
    <3>1. Delivers(w)'
      BY <1>8, <1>9, <2>1, <2>3 DEF Waiting
    <3>2. answer'[w].status = "ok"
      BY <1>8, <2>3
    <3> QED BY <1>5, <1>8, <2>1, <2>3, <3>1, <3>2
  <2> QED BY <1>3, <2>1, <2>2, <2>3
<1>14. CASE Call(w)
  <2>1. /\ conn' = [conn EXCEPT ![w] = Opened(Request(Prompt(w)))]
        /\ Goto(w, "status") /\ UNCHANGED <<class, answer>> /\ pc[w] = "call"
    BY <1>14 DEF Call, BothUp
  <2>2. /\ pc'[w] = "status" /\ \A v \in Askers \ {w} : pc'[v] = pc[v] /\ conn'[v] = conn[v]
        /\ conn'[w] = Opened(Request(Prompt(w)))
    BY <1>6, <1>7, <2>1
  <2>3. /\ conn'[w].up = Request(Prompt(w)) /\ conn'[w].down = <<>>
        /\ conn'[w].client = TRUE /\ conn'[w].server = TRUE
    BY <2>2 DEF Opened
  <2>4. infer.for # w
    BY <2>1 DEF FrontInv
  <2>5. class[w] = "fits" => Len(Request(Prompt(w))) = 4
    <3>1. Prompt(w).class = class[w]
      BY DEF Prompt
    <3> QED BY <3>1, RequestLength
  <2>6. Delivers(w)'
    <3>1. Unread(w)' = 4 /\ Replied(w)' = 0
      BY <1>1, <2>3, <2>4 DEF Unread, Replied, Replying
    <3>2. Len(conn'[w].down) = 0
      BY <2>3
    <3>3. class'[w] = "fits" => Len(conn'[w].up) = 4
      BY <2>1, <2>3, <2>5
    <3> QED BY <1>1, <1>4, <2>1, <2>2, <2>3, <2>4, <3>1, <3>2, <3>3 DEF Delivers, Waiting
  <2> QED BY <1>3, <1>5, <2>1, <2>2, <2>6
(* w closes its connection. *)
<1>15. ASSUME NEW d \in Connections(Words), conn' = [conn EXCEPT ![w] = ClientCloses(d)],
              pc'[w] \notin Waiting, UNCHANGED class
       PROVE  Delivers(w)' /\ \A v \in Askers \ {w} : conn'[v] = conn[v]
  <2>1. conn'[w] = ClientCloses(d) /\ \A v \in Askers \ {w} : conn'[v] = conn[v]
    BY <1>7, <1>15
  <2>2. ~conn'[w].client
    <3>1. ClientCloses(d).client = FALSE
      BY Sides
    <3> QED BY <2>1, <3>1
  <2> QED BY <1>1, <1>4, <1>15, <2>1, <2>2, DeliversNothing DEF Delivers
<1>16. ASSUME conn' = [conn EXCEPT ![w] = ClientCloses(@)], Fails(w), class[w] # "fits"
       PROVE  (\A v \in Askers : Delivers(v)') /\ GoodPromptsSucceed'
  <2>1. Delivers(w)' /\ \A v \in Askers \ {w} : conn'[v] = conn[v]
    BY <1>0, <1>8, <1>15, <1>16 DEF Fails, Waiting
  <2> QED BY <1>5, <1>8, <1>16, <2>1 DEF Fails
<1>17. CASE ReadStatus(w)
  <2>1. CASE CutOff(w, 1)
    <3>1. class[w] # "fits"
      BY <1>4, <1>17, <2>1, NotCutOff DEF ReadStatus, Waiting
    <3> QED BY <1>3, <1>16, <2>1, <3>1 DEF CutOff
  <2>2. CASE ~CutOff(w, 1)
    <3>1. /\ pc[w] = "status" /\ Len(conn[w].down) >= 1
          /\ conn' = [conn EXCEPT ![w] = ClientTakes(@, 1)]
          /\ Goto(w, IF conn[w].down[1].is = "ok" THEN "motion" ELSE "error")
          /\ UNCHANGED <<class, answer>>
      BY <1>17, <2>2 DEF ReadStatus, ClientHas
    <3>2. /\ pc'[w] = IF conn[w].down[1].is = "ok" THEN "motion" ELSE "error"
          /\ conn'[w] = ClientTakes(conn[w], 1)
          /\ \A v \in Askers \ {w} : pc'[v] = pc[v] /\ conn'[v] = conn[v]
      BY <1>6, <1>7, <3>1
    <3>3. /\ conn'[w].client = conn[w].client /\ conn'[w].server = conn[w].server
          /\ conn'[w].up = conn[w].up
      <4> DEFINE c == conn[w]
      <4>1. c \in Connections(Words)
        BY <1>0
      <4> HIDE DEF c
      <4>2. /\ ClientTakes(c, 1).client = c.client
            /\ ClientTakes(c, 1).server = c.server
            /\ ClientTakes(c, 1).up = c.up
        BY <4>1, Sides
      <4> QED BY <3>2, <4>2 DEF c
    <3>4. Len(conn'[w].down) = Len(conn[w].down) - 1 /\ Len(conn[w].down) \in Nat
      <4>1. conn[w].down \in Seq(Words)
        BY <1>0 DEF Connections
      <4>2. conn'[w].down = SubSeq(conn[w].down, 1 + 1, Len(conn[w].down))
        BY <1>0, <3>2 DEF ClientTakes, Connections
      <4> QED BY <3>1, <4>1, <4>2, Rest
    <3>5. conn[w].down # <<>>
      BY <3>1
    <3>6. class[w] = "fits" /\ conn[w].client => pc'[w] = "motion"
      BY <1>4, <3>1, <3>2, <3>5 DEF Delivers
    <3>7. conn[w].client
      BY <1>4, <3>1 DEF Delivers, Waiting
    <3>8. Unread(w)' = Unread(w) /\ Replied(w)' = Replied(w)
      BY <1>1, <3>3 DEF Unread, Replied, Replying
    <3>9. class[w] = "fits" => Len(conn'[w].down) = Replied(w) - 1
      BY <1>4, <3>1, <3>4, <3>7 DEF Delivers
    <3>10. Delivers(w)'
      BY <1>1, <1>4, <3>1, <3>2, <3>3, <3>6, <3>7, <3>8, <3>9 DEF Delivers, Waiting
    <3> QED BY <1>3, <1>5, <3>1, <3>2, <3>10
  <2> QED BY <2>1, <2>2
<1>18. CASE ReadError(w)
  <2>1. class[w] # "fits"
    BY <1>4, <1>18 DEF ReadError, Delivers
  <2> QED BY <1>3, <1>16, <1>18, <2>1 DEF ReadError, CutOff
<1>19. CASE ReadMotion(w)
  <2>1. CASE CutOff(w, 4)
    <3>1. class[w] # "fits"
      BY <1>4, <1>19, <2>1, NotCutOff DEF ReadMotion, Waiting
    <3> QED BY <1>3, <1>16, <2>1, <3>1 DEF CutOff
  <2>2. CASE ~CutOff(w, 4)
    <3>1. /\ conn' = [conn EXCEPT ![w] = ClientCloses(@)]
          /\ \/ Goto(w, "mkdir") /\ UNCHANGED <<class, answer>>
             \/ \E m : Respond(w, "ok", m)
      BY <1>19, <2>2 DEF ReadMotion
    <3>2. CASE Goto(w, "mkdir") /\ UNCHANGED <<class, answer>>
      <4>1. pc'[w] = "mkdir" /\ \A v \in Askers \ {w} : pc'[v] = pc[v]
        BY <1>6, <3>2
      <4>2. Delivers(w)' /\ \A v \in Askers \ {w} : conn'[v] = conn[v]
        BY <1>0, <1>15, <3>1, <3>2, <4>1 DEF Waiting
      <4> QED BY <1>3, <1>5, <3>2, <4>1, <4>2
    <3>3. ASSUME NEW m, Respond(w, "ok", m)
          PROVE  (\A v \in Askers : Delivers(v)') /\ GoodPromptsSucceed'
      <4>1. Delivers(w)' /\ \A v \in Askers \ {w} : conn'[v] = conn[v]
        BY <1>0, <1>8, <1>15, <3>1, <3>3 DEF Waiting
      <4>2. answer'[w].status = "ok"
        BY <1>8, <3>3
      <4> QED BY <1>5, <1>8, <3>3, <4>1, <4>2
    <3> QED BY <1>3, <3>1, <3>2, <3>3
  <2> QED BY <2>1, <2>2
<1>20. CASE HangUp(w)
  <2>1. PICK n \in 0 .. Len(conn[w].up) :
          conn' = [conn EXCEPT ![w] = ClientCloses(SentOnly(@, n))]
    BY <1>20 DEF HangUp
  <2>2. SentOnly(conn[w], n) \in Connections(Words)
    <3>1. conn[w] \in Conns(Words, Words)
      BY <1>0 DEF Connections, Conns
    <3>2. SentOnly(conn[w], n) \in Conns(Words, Words)
      BY <3>1, ConnTypes
    <3> QED BY <3>2 DEF Connections, Conns
  <2>3. Goto(w, "idle") /\ UNCHANGED <<class, answer>>
    BY <1>20 DEF HangUp
  <2>4. pc'[w] = "idle" /\ \A v \in Askers \ {w} : pc'[v] = pc[v]
    BY <1>6, <2>3
  <2>5. Delivers(w)' /\ \A v \in Askers \ {w} : conn'[v] = conn[v]
    BY <1>15, <2>1, <2>2, <2>3, <2>4 DEF Waiting
  <2> QED BY <1>3, <1>5, <2>3, <2>4, <2>5
<1> QED
  BY <1>10, <1>11, <1>12, <1>13, <1>14, <1>17, <1>18, <1>19, <1>20 DEF AskerStep

(* The kernel's part, as the server's operations on a connection. *)
LEMMA ServerReads ==
    ASSUME NEW c \in Connections(Words), NEW n \in Nat, Len(c.up) >= n
    PROVE  /\ Len(ServerTakes(c, n).up) = Len(c.up) - n /\ ServerTakes(c, n).down = c.down
           /\ ServerTakes(c, n).client = c.client /\ ServerTakes(c, n).server = c.server
<1>1. c.up \in Seq(Words) /\ ServerTakes(c, n).up = SubSeq(c.up, n + 1, Len(c.up))
  BY DEF Connections, ServerTakes
<1>2. Len(c.up) \in Nat
  BY <1>1
<1>3. Len(SubSeq(c.up, n + 1, Len(c.up))) = Len(c.up) - n
  BY <1>1, <1>2, Rest
<1> QED BY <1>1, <1>3, Sides

LEMMA SendSides ==
    ASSUME NEW c \in Connections(Words), NEW s
    PROVE  /\ ServerSends(c, s).up = c.up /\ ServerSends(c, s).client = c.client
           /\ ServerSends(c, s).server = c.server
<1>1. CASE c.client
  BY <1>1 DEF Connections, ServerSends
<1>2. CASE ~c.client
  BY <1>2 DEF ServerSends
<1> QED BY <1>1, <1>2

LEMMA ServerAdds ==
    ASSUME NEW c \in Connections(Words), c.client, NEW s \in Seq(Words)
    PROVE  /\ ServerSends(c, s).down = c.down \o s
           /\ Len(ServerSends(c, s).down) = Len(c.down) + Len(s)
           /\ c.down # <<>> => ServerSends(c, s).down[1] = c.down[1]
           /\ c.down = <<>> => ServerSends(c, s).down = s
           /\ ServerSends(c, s).up = c.up
           /\ ServerSends(c, s).client = c.client /\ ServerSends(c, s).server = c.server
           /\ ServerSends(c, s) \in Connections(Words)
<1>1. c.down \in Seq(Words) /\ ServerSends(c, s).down = c.down \o s
  BY DEF Connections, ServerSends
<1>2. Len(c.down \o s) = Len(c.down) + Len(s)
  BY ONLY <1>1, ConcatProperties
<1>3. c.down # <<>> => (c.down \o s)[1] = c.down[1]
  <2>1. c.down # <<>> => 1 \in 1 .. Len(c.down)
    BY <1>1
  <2> QED BY <1>1, <2>1, ConcatProperties
<1>4. c.down = <<>> => c.down \o s = s
  BY <1>1, ConcatEmptySeq
<1>5. ServerSends(c, s) \in Connections(Words)
  <2>1. c \in Conns(Words, Words)
    BY DEF Connections, Conns
  <2>2. ServerSends(c, s) \in Conns(Words, Words)
    BY <2>1, ConnTypes
  <2> QED BY <2>2 DEF Connections, Conns
<1>6. /\ ServerSends(c, s).up = c.up /\ ServerSends(c, s).client = c.client
      /\ ServerSends(c, s).server = c.server
  BY SendSides
<1> QED BY <1>1, <1>2, <1>3, <1>4, <1>5, <1>6

(* What t2m_infer does for one asker leaves the others as they were. *)
LEMMA DeliversApart ==
    ASSUME NEW v, Delivers(v), conn'[v] = conn[v], pc'[v] = pc[v], class'[v] = class[v],
           v # infer.for, v # infer'.for
    PROVE  Delivers(v)'
  BY DEF Delivers, Unread, Replied, Replying

(* Nor does it owe anything to one whose prompt does not fit, or who left. *)
LEMMA DeliversUnfit ==
    ASSUME NEW w, Delivers(w), conn'[w].client = conn[w].client, pc'[w] = pc[w],
           class'[w] = class[w], class[w] # "fits"
    PROVE  Delivers(w)'
  BY DEF Delivers

(* The steps of t2m_infer. *)
LEMMA GoodInfer ==
    ASSUME Kindly, PipelineInv, BothUp, GoodInv, InferStep \/ Killed, BothUp'
    PROVE  Fetches' /\ (\A v \in Askers : Delivers(v)') /\ GoodPromptsSucceed'
<1> USE DEF PipelineInv
<1>f. PICK f : f = infer.for
  OBVIOUS
<1> USE <1>f
<1> DEFINE I == [at : InferAt, for : Askers \cup {None}, prompt : Prompts \cup {None},
                vector : Prompts \cup {None}, slot : Slots,
                queue : Seq(Askers)]
           Keeps == infer'.for = infer.for
<1>0. /\ conn \in [Askers -> Connections(Words)] /\ \A w \in Askers : conn[w] \in Connections(Words)
      /\ link \in [Slots -> Connections(Words)] /\ \A i \in Slots : link[i] \in Connections(Words)
      /\ infer \in I /\ infer.slot \in Slots /\ infer.queue \in Seq(Askers)
      /\ None \notin Askers
  BY PipelineAssumption DEF TypeInv, TypeOK, InferAt, Askers
<1>1. Fetches /\ GoodPromptsSucceed /\ \A v \in Askers : Delivers(v)
  BY DEF GoodInv
<1>2. infer.at \in Serving => f \in Askers /\ conn[f].server
  BY DEF TypeInv, PlacesInv, FrontInv
<1>3. UNCHANGED <<pc, class, answer>>
  BY DEF InferStep, Killed, InferDies, BrokenPipe, Accept, ReadLen, ReadRest, ClientGone,
         Fetch, ReadHead, ReadVector, FetchCutOff, Infer, SendStatus, SendRest, handlerVars
<1>4. GoodPromptsSucceed'
  BY <1>1, <1>3 DEF GoodPromptsSucceed, BothUp
<1>5. ~InferDies
  <2>1. ASSUME InferDies PROVE infer'.at = "dead"
    BY <1>0, <2>1 DEF InferDies, NextClient
  <2> QED BY <2>1 DEF BothUp
<1>6. ASSUME UNCHANGED link, ~Fetching, infer'.at \notin {"head", "vector"} PROVE Fetches'
  BY <1>1, <1>6 DEF Fetches, Fetching
(* What a step does to the record of t2m_infer. *)
<1>7. ASSUME NEW at, infer' = [infer EXCEPT !.at = at]
      PROVE  infer'.at = at /\ Keeps /\ infer'.slot = infer.slot
  BY <1>0, <1>7
<1>8. ASSUME NEW at, NEW p, \/ infer' = [infer EXCEPT !.at = at, !.prompt = p]
                            \/ infer' = [infer EXCEPT !.at = at, !.vector = p]
      PROVE  infer'.at = at /\ Keeps
  BY <1>0, <1>8
<1>9. ASSUME infer' = NextClient(infer)
      PROVE  infer'.at = "accept" /\ infer'.for = None
  BY <1>0, <1>9 DEF NextClient
(* And for everybody it does not serve. *)
<1>10. ASSUME \A v \in Askers \ {f} : conn'[v] = conn[v],
              infer'.for \in {f, None},
              f \in Askers => Delivers(f)'
       PROVE  \A v \in Askers : Delivers(v)'
  BY <1>0, <1>1, <1>3, <1>10, DeliversApart
<1>11. ASSUME UNCHANGED conn, infer'.for = f, f \in Askers,
              infer.at \in Serving \ {"len", "rest", "sendmotion", "senderror"},
              infer'.at \in Serving \ {"len", "rest", "sendmotion", "senderror", "failed"}
       PROVE  \A v \in Askers : Delivers(v)'
  <2>1. Delivers(f)'
    BY <1>1, <1>3, <1>11 DEF Delivers, Unread, Replied, Replying
  <2> QED BY <1>10, <1>11, <2>1
<1>12. CASE Accept
  <2>0. PICK h : h = Head(infer.queue)
    OBVIOUS
  <2>1. /\ infer.at = "accept" /\ infer.queue # <<>> /\ UNCHANGED <<conn, link>>
        /\ infer'.at = "len" /\ infer'.for = h /\ ~Fetching
    BY <1>0, <1>12, <2>0 DEF Accept, Fetching
  <2>2. f = None
    BY <2>1 DEF TypeInv, PlacesInv, Serving
  <2>3. h \in Askers /\ conn[h].server
    <3>1. h = infer.queue[1] /\ 1 \in 1 .. Len(infer.queue) /\ h \in Askers
      BY <1>0, <2>0, <2>1
    <3> QED BY <3>1 DEF FrontInv, Waits
  <2>4. Delivers(h)'
    <3>1. Unread(h)' = Unread(h)
      BY <1>0, <2>1, <2>2, <2>3 DEF Unread
    <3>2. Replied(h)' = Replied(h)
      BY <1>0, <2>1, <2>2, <2>3 DEF Replied, Replying
    <3>3. Delivers(h)
      BY <1>1, <2>3
    <3> QED BY <1>3, <2>1, <3>1, <3>2, <3>3 DEF Delivers
  <2>5. ASSUME NEW v \in Askers \ {h} PROVE Delivers(v)'
    BY <1>0, <1>1, <1>3, <2>1, <2>2, <2>5, DeliversApart
  <2> QED BY <1>4, <1>6, <2>1, <2>4, <2>5
<1>13. ASSUME NEW n, ClientGone(n), infer.at \in Serving, ~Fetching
       PROVE  Fetches' /\ \A v \in Askers : Delivers(v)'
  <2>1. /\ conn' = [conn EXCEPT ![f] = ServerCloses(@)] /\ ~conn[f].client
        /\ infer'.at = "accept" /\ infer'.for = None /\ UNCHANGED link
    BY <1>9, <1>13 DEF ClientGone, ServerAtEnd
  <2>2. conn'[f] = ServerCloses(conn[f]) /\ \A v \in Askers \ {f} : conn'[v] = conn[v]
    BY <1>0, <1>2, <1>13, <2>1
  <2>3. ~conn'[f].client
    <3>1. ServerCloses(conn[f]).client = conn[f].client
      BY <1>0, <1>2, <1>13, Sides
    <3> QED BY <2>1, <2>2, <3>1
  <2>4. Delivers(f)'
    BY <1>0, <1>1, <1>2, <1>3, <1>13, <2>1, <2>3, DeliversNothing DEF Delivers
  <2> QED BY <1>6, <1>10, <1>13, <2>1, <2>2, <2>4
(* It reads of the request what is there. *)
<1>14. ASSUME NEW n \in Nat, f \in Askers, conn[f].server, Len(conn[f].up) >= n,
              conn' = [conn EXCEPT ![f] = ServerTakes(@, n)], infer'.for = f,
              ~Replying(f), ~Replying(f)',
              class[f] = "fits" => infer'.at # "failed" /\ Unread(f)' = Unread(f) - n
       PROVE  \A v \in Askers : Delivers(v)'
  <2>1. conn'[f] = ServerTakes(conn[f], n) /\ \A v \in Askers \ {f} : conn'[v] = conn[v]
    BY <1>0, <1>14
  <2>2. /\ Len(conn'[f].up) = Len(conn[f].up) - n /\ conn'[f].down = conn[f].down
        /\ conn'[f].client = conn[f].client /\ conn'[f].server = conn[f].server
    <3>1. /\ Len(ServerTakes(conn[f], n).up) = Len(conn[f].up) - n
          /\ ServerTakes(conn[f], n).down = conn[f].down
          /\ ServerTakes(conn[f], n).client = conn[f].client
          /\ ServerTakes(conn[f], n).server = conn[f].server
      BY <1>0, <1>14, ServerReads, ZenonT(30)
    <3> QED BY <2>1, <3>1
  <2>3. Replied(f)' = Replied(f)
    BY <1>14, <2>2 DEF Replied
  <2>4. Delivers(f)'
    <3>1. CASE class[f] # "fits"
      BY <1>1, <1>3, <1>14, <2>2, <3>1, DeliversUnfit
    <3>2. CASE class[f] = "fits"
      <4>1. conn'[f].client => Len(conn'[f].up) = Unread(f)'
        BY <1>1, <1>14, <2>2, <3>2 DEF Delivers
      <4>2. infer'.at \notin {"failed", "senderror"}
        BY <1>14, <3>2 DEF Replying
      <4>3. Delivers(f)
        BY <1>1, <1>14
      <4> QED BY <1>3, <2>2, <2>3, <3>2, <4>1, <4>2, <4>3 DEF Delivers
    <3> QED BY <3>1, <3>2
  <2> QED BY <1>10, <1>14, <2>1, <2>4
<1>15. CASE ReadLen
  <2>1. infer.at = "len" /\ infer.at \in Serving /\ ~Fetching
    BY <1>15 DEF ReadLen, Serving, InferAt, Fetching
  <2>2. CASE ClientGone(1)
    BY <1>4, <1>13, <2>1, <2>2
  <2>3. CASE ~ClientGone(1)
    <3>1. /\ Len(conn[f].up) >= 1 /\ conn' = [conn EXCEPT ![f] = ServerTakes(@, 1)]
          /\ UNCHANGED link
          /\ IF conn[f].up[1].of.class = "huge"
             THEN infer' = [infer EXCEPT !.at = "failed"]
             ELSE infer' = [infer EXCEPT !.at = "rest", !.prompt = conn[f].up[1].of]
      BY <1>15, <2>3 DEF ReadLen, ServerHas, At
    <3>2. /\ infer'.at = (IF conn[f].up[1].of.class = "huge" THEN "failed" ELSE "rest") /\ Keeps
      BY <1>7, <1>8, <3>1
    <3>3. conn[f].up[1].of.class = class[f]
      <4>1. conn[f].up \in Seq(Words)
        BY <1>0, <1>2, <2>1 DEF Connections
      <4>2. 1 \in 1 .. Len(conn[f].up)
        BY <3>1, <4>1
      <4>3. conn[f].up[1].of = Prompt(f)
        BY <1>2, <2>1, <4>2 DEF PromptInv, AllOf
      <4> QED BY <4>3 DEF Prompt
    <3>4. conn'[f].server
      <4>1. ServerTakes(conn[f], 1).server = conn[f].server
        BY <1>0, <1>2, <2>1, Sides
      <4> QED BY <1>0, <1>2, <2>1, <3>1, <4>1
    <3>5. class[f] = "fits" => Unread(f) = 4 /\ Unread(f)' = 3 /\ infer'.at # "failed"
      BY <1>2, <2>1, <3>2, <3>3, <3>4 DEF Unread
    <3>6. ~Replying(f) /\ ~Replying(f)'
      BY <2>1, <3>2 DEF Replying
    <3>9. class[f] = "fits" => infer'.at # "failed" /\ Unread(f)' = Unread(f) - 1
      BY <3>5
    <3>7. \A v \in Askers : Delivers(v)'
      BY <1>2, <1>14, <2>1, <3>1, <3>2, <3>6, <3>9
    <3>8. Fetches'
      BY <1>6, <2>1, <3>1, <3>2
    <3> QED BY <1>4, <3>7, <3>8
  <2> QED BY <2>2, <2>3
<1>16. CASE ReadRest
  <2> DEFINE n == Len(Bytes(infer.prompt)) + 2
  <2>1. infer.at = "rest" /\ infer.at \in Serving /\ ~Fetching
    BY <1>16 DEF ReadRest, Serving, InferAt, Fetching
  <2>2. CASE ClientGone(n)
    BY <1>4, <1>13, <2>1, <2>2
  <2>3. CASE ~ClientGone(n)
    <3>1. /\ Len(conn[f].up) >= n /\ conn' = [conn EXCEPT ![f] = ServerTakes(@, n)]
          /\ infer' = [infer EXCEPT !.at = "fetch", !.prompt = conn[f].up[1].of]
          /\ UNCHANGED link
      BY <1>16, <2>3 DEF ReadRest, ServerHas
    <3>2. infer'.at = "fetch" /\ Keeps
      BY <1>8, <3>1
    <3>3. n \in Nat
      BY DEF Bytes
    <3>4. class[f] = "fits" => n = 3
      <4>1. infer.prompt = Prompt(f)
        BY <2>1 DEF PromptInv, Serving, InferAt
      <4> SUFFICES ASSUME class[f] = "fits" PROVE n = 3
        OBVIOUS
      <4>2. Len(Bytes(infer.prompt)) = 1
        BY <4>1, RequestLength DEF Prompt
      <4>3. n = 1 + 2
        BY <4>2
      <4> QED BY <4>3
    <3> HIDE DEF n
    <3>5. class[f] = "fits" => Unread(f) = 3 /\ Unread(f)' = 0
      BY <1>2, <2>1, <3>2 DEF Unread
    <3>6. ~Replying(f) /\ ~Replying(f)'
      BY <2>1, <3>2 DEF Replying
    <3>7. class[f] = "fits" => infer'.at # "failed" /\ Unread(f)' = Unread(f) - n
      BY <3>2, <3>4, <3>5
    <3>8. \A v \in Askers : Delivers(v)'
      BY <1>2, <1>14, <2>1, <3>1, <3>2, <3>3, <3>6, <3>7
    <3>9. Fetches'
      BY <1>6, <2>1, <3>1, <3>2
    <3> QED BY <1>4, <3>8, <3>9
  <2> QED BY <2>2, <2>3
<1>17. CASE Fetch
  <2> DEFINE r == HiddenRequest(infer.prompt)
  <2>1. /\ infer.at = "fetch" /\ infer.at \in Serving \ {"len", "rest", "sendmotion", "senderror"}
        /\ ~Fetching
    BY <1>17 DEF Fetch, Serving, InferAt, Fetching
  <2>2. hidden.at # "dead" /\ ~(Cardinality(Held) + 2 > FdLimit)
    <3>1. Held = {}
      BY <1>1, <2>1 DEF Held, Fetches
    <3>2. Cardinality(Held) = 0
      BY <3>1, FS_EmptySet
    <3> QED BY <3>2, PipelineAssumption DEF BothUp, Kindly
  <2>3. PICK i \in Slots :
          /\ link' = [link EXCEPT ![i] = Opened(r)] /\ UNCHANGED conn
          /\ infer' = [infer EXCEPT !.at = "head", !.slot = i]
    BY <1>17, <2>2 DEF Fetch
  <2>4. infer'.at = "head" /\ infer'.slot = i /\ Keeps /\ Fetching'
    BY <1>0, <2>3 DEF Fetching
  <2>5. \A v \in Askers : Delivers(v)'
    BY <1>2, <1>11, <2>1, <2>3, <2>4 DEF Serving, InferAt
  <2>6. Len(r) = 2
    <3>1. infer.prompt = Prompt(f)
      BY <2>1 DEF PromptInv, Serving, InferAt
    <3>2. infer.prompt.class # "empty"
      BY <1>1, <1>2, <2>1, <3>1 DEF Delivers, Prompt
    <3> QED BY <3>2, AllOfWords
  <2> HIDE DEF r
  <2>7. link'[i] = Opened(r) /\ \A k \in Slots : k # i => link'[k] = link[k]
    BY <1>0, <2>3
  <2>8. link'[i].server = TRUE /\ link'[i].up = r /\ link'[i].down = <<>>
    BY <2>7 DEF Opened
  <2>9. Fetches'
    <3>1. \A k \in Slots : link'[k].client => k = i
      BY <1>1, <2>1, <2>7 DEF Fetches
    <3>2. Len(link'[i].up) = 2 /\ Len(link'[i].down) = 0
      BY <2>6, <2>8
    <3>3. Len(link'[i].up) # 1 /\ ~(Len(link'[i].down) > 1)
      BY <3>2
    <3> QED BY <2>4, <2>8, <3>1, <3>3 DEF Fetches
  <2> QED BY <1>4, <2>5, <2>9
<1>18. ASSUME NEW n PROVE ~(Fetching /\ FetchCutOff(n))
  BY <1>1, <1>18 DEF FetchCutOff, ClientAtEnd, Fetches
<1>19. CASE ReadHead
  <2> DEFINE c == link[infer.slot]
  <2>1. infer.at = "head" /\ Fetching /\ infer.at \in Serving \ {"len", "rest", "sendmotion", "senderror"}
    BY <1>19 DEF ReadHead, Fetching, Serving, InferAt
  <2>2. /\ Len(c.down) >= 3 /\ UNCHANGED conn
        /\ IF c.down[1].is = "ok"
           THEN link' = [link EXCEPT ![infer.slot] = ClientTakes(@, 3)] /\ At("vector")
           ELSE link' = [link EXCEPT ![infer.slot] = ClientCloses(@)] /\ At("failed")
    BY <1>18, <1>19, <2>1 DEF ReadHead, ClientHas
  <2>3. c.down[1].is = "ok"
    <3>1. Len(c.down) \in Nat
      BY <1>0 DEF Connections
    <3>2. Len(c.down) > 1
      BY <2>2, <3>1
    <3> QED BY <1>1, <2>1, <3>2 DEF Fetches
  <2>4. link'[infer.slot] = ClientTakes(c, 3) /\ infer' = [infer EXCEPT !.at = "vector"]
    BY <1>0, <2>2, <2>3 DEF At
  <2>5. infer'.at = "vector" /\ Keeps /\ infer'.slot = infer.slot
    BY <1>7, <2>4
  <2>6. \A v \in Askers : Delivers(v)'
    BY <1>2, <1>11, <2>1, <2>2, <2>5 DEF Serving, InferAt
  <2>7. ClientTakes(c, 3).server = c.server /\ ClientTakes(c, 3).up = c.up
    BY <1>0, Sides
  <2>8. Fetching' /\ \A i \in Slots : i # infer.slot => link'[i] = link[i]
    BY <1>0, <2>2, <2>3, <2>5 DEF Fetching
  <2>9. Fetches'
    BY <1>1, <2>1, <2>4, <2>5, <2>7, <2>8 DEF Fetches
  <2> QED BY <1>4, <2>6, <2>9
<1>20. CASE ReadVector
  <2>1. infer.at = "vector" /\ Fetching /\ infer.at \in Serving \ {"len", "rest", "sendmotion", "senderror"}
    BY <1>20 DEF ReadVector, Fetching, Serving, InferAt
  <2>2. /\ UNCHANGED conn /\ \E v : infer' = [infer EXCEPT !.at = "infer", !.vector = v]
        /\ link' = [link EXCEPT ![infer.slot] = ClientCloses(@)]
    BY <1>18, <1>20, <2>1 DEF ReadVector
  <2>3. infer'.at = "infer" /\ Keeps
    BY <1>8, <2>2
  <2>4. \A v \in Askers : Delivers(v)'
    BY <1>2, <1>11, <2>1, <2>2, <2>3 DEF Serving, InferAt
  <2>5. \A i \in Slots : ~link'[i].client
    <3>1. ClientCloses(link[infer.slot]).client = FALSE
      BY <1>0, Sides
    <3>2. link'[infer.slot] = ClientCloses(link[infer.slot])
      BY <1>0, <2>2
    <3>3. \A i \in Slots : i # infer.slot => link'[i] = link[i]
      BY <1>0, <2>2
    <3> QED BY <1>1, <3>1, <3>2, <3>3 DEF Fetches
  <2>6. Fetches'
    BY <2>3, <2>5 DEF Fetches, Fetching
  <2> QED BY <1>4, <2>4, <2>6
<1>21. CASE Infer
  <2>1. infer.at \in Serving \ {"len", "rest", "sendmotion", "senderror"} /\ ~Fetching
    BY <1>21 DEF Infer, Serving, InferAt, Fetching
  <2>2. UNCHANGED <<conn, link>> /\ infer' = [infer EXCEPT !.at = "done"]
    BY <1>21 DEF Infer, At, Kindly
  <2>3. infer'.at = "done" /\ Keeps
    BY <1>7, <2>2
  <2>4. \A v \in Askers : Delivers(v)'
    BY <1>2, <1>11, <2>1, <2>2, <2>3 DEF Serving, InferAt
  <2> QED BY <1>4, <1>6, <2>1, <2>2, <2>3, <2>4
(* It sends: words to whoever still reads. *)
<1>22. CASE SendStatus
  <2>1. infer.at \in {"done", "failed"} /\ infer.at \in Serving /\ ~Fetching /\ UNCHANGED link
    BY <1>22 DEF SendStatus, Serving, InferAt, Fetching
  <2>2. f \in Askers /\ conn[f].server /\ Delivers(f)
    BY <1>1, <1>2, <2>1
  <2>3. /\ conn' = [conn EXCEPT ![f] = ServerSends(@,
                      <<Word(IF infer.at = "done" THEN "ok" ELSE "error", None)>>)]
        /\ infer' = [infer EXCEPT !.at = IF infer.at = "done" THEN "sendmotion" ELSE "senderror"]
    BY <1>22 DEF SendStatus, At
  <2>4. infer'.at = (IF infer.at = "done" THEN "sendmotion" ELSE "senderror") /\ Keeps
    BY <1>7, <2>3
  <2>5. PICK s : s = <<Word(IF infer.at = "done" THEN "ok" ELSE "error", None)>>
    OBVIOUS
  <2>6. s \in Seq(Words) /\ Len(s) = 1 /\ (infer.at = "done" => s[1].is = "ok")
    <3>1. Word("ok", None) \in Words /\ Word("error", None) \in Words
      BY WordTypes
    <3>2. Word("ok", None).is = "ok"
      BY DEF Word
    <3> QED BY <2>5, <3>1, <3>2
  <2>7. conn'[f] = ServerSends(conn[f], s) /\ \A v \in Askers \ {f} : conn'[v] = conn[v]
    BY <1>0, <2>2, <2>3, <2>5
  <2>8. conn'[f].client = conn[f].client /\ conn'[f].server = conn[f].server
    <3>1. /\ ServerSends(conn[f], s).client = conn[f].client
          /\ ServerSends(conn[f], s).server = conn[f].server
      BY <1>0, <2>2, SendSides
    <3> QED BY <2>7, <3>1
  <2>9. Delivers(f)'
    <3>1. CASE class[f] # "fits"
      BY <1>3, <2>2, <2>8, <3>1, DeliversUnfit
    <3>2. CASE class[f] = "fits" /\ ~conn[f].client
      <4>1. infer.at = "done"
        BY <2>1, <2>2, <3>2 DEF Delivers
      <4> QED BY <1>3, <2>2, <2>4, <2>8, <3>2, <4>1 DEF Delivers
    <3>3. CASE class[f] = "fits" /\ conn[f].client
      <4>1. infer.at = "done"
        BY <2>1, <2>2, <3>3 DEF Delivers
      <4>2. /\ conn'[f].up = conn[f].up /\ (conn[f].down = <<>> => conn'[f].down = s)
        BY <1>0, <2>2, <2>6, <2>7, <3>3, ServerAdds
      <4>3. Unread(f) = 0 /\ Unread(f)' = 0 /\ Replied(f) = 0 /\ Replied(f)' = 1
        BY <2>2, <2>4, <2>8, <4>1 DEF Unread, Replied, Replying
      <4>4. Len(conn[f].down) = IF pc[f] = "motion" THEN 0 - 1 ELSE 0
        BY <2>2, <3>3, <4>3 DEF Delivers
      <4>5. Len(conn[f].down) \in Nat /\ (Len(conn[f].down) = 0 => conn[f].down = <<>>)
        BY <1>0, <2>2 DEF Connections
      <4>6. pc[f] # "motion" /\ conn[f].down = <<>>
        BY <4>4, <4>5
      <4>7. Len(conn'[f].up) = Unread(f)' /\ Len(conn'[f].down) = 1 /\ conn'[f].down[1].is = "ok"
        BY <2>2, <2>6, <3>3, <4>1, <4>2, <4>3, <4>6 DEF Delivers
      <4> QED BY <1>3, <2>2, <2>4, <2>8, <3>3, <4>1, <4>3, <4>6, <4>7 DEF Delivers
    <3> QED BY <3>1, <3>2, <3>3
  <2> QED BY <1>4, <1>6, <1>10, <2>1, <2>4, <2>7, <2>9
<1>23. CASE SendRest
  <2>1. /\ infer.at \in {"sendmotion", "senderror"} /\ infer.at \in Serving
        /\ ~Fetching /\ UNCHANGED link
    BY <1>23 DEF SendRest, Serving, InferAt, Fetching
  <2>2. f \in Askers /\ conn[f].server /\ Delivers(f)
    BY <1>1, <1>2, <2>1
  <2>3. PICK s : s = IF infer.at = "sendmotion" THEN MotionReply(infer.vector) ELSE ErrorReply
    OBVIOUS
  <2>4. /\ conn' = [conn EXCEPT ![f] = ServerCloses(ServerSends(@, s))]
        /\ infer' = NextClient(infer)
    BY <1>23, <2>3 DEF SendRest
  <2>5. infer'.at = "accept" /\ infer'.for = None
    BY <1>9, <2>4
  <2>6. s \in Seq(Words) /\ (infer.at = "sendmotion" => Len(s) = 4)
    <3>1. infer.vector \in Prompts \cup {None}
      BY <1>0
    <3>2. MotionReply(infer.vector) \in Seq(Words) /\ ErrorReply \in Seq(Words)
      BY <3>1, WordTypes
    <3>3. Len(MotionReply(infer.vector)) = 4
      BY DEF MotionReply
    <3> QED BY <2>3, <3>2, <3>3
  <2>7. PICK d : d = ServerSends(conn[f], s)
    OBVIOUS
  <2>8. d \in Connections(Words) /\ d.client = conn[f].client
    <3>1. conn[f] \in Conns(Words, Words)
      BY <1>0, <2>2 DEF Connections, Conns
    <3>2. d \in Conns(Words, Words)
      BY <2>6, <2>7, <3>1, ConnTypes
    <3>3. ServerSends(conn[f], s).client = conn[f].client
      BY <1>0, <2>2, SendSides
    <3> QED BY <2>7, <3>2, <3>3 DEF Connections, Conns
  <2>9. conn'[f] = ServerCloses(d) /\ \A v \in Askers \ {f} : conn'[v] = conn[v]
    BY <1>0, <2>2, <2>4, <2>7
  <2>10. /\ conn'[f].client = d.client /\ conn'[f].server = FALSE
         /\ d.client => conn'[f].up = d.up /\ conn'[f].down = d.down
    <3>1. ServerCloses(d).client = d.client /\ ServerCloses(d).server = FALSE
      BY <2>8, Sides
    <3>2. d.client => ServerCloses(d).up = d.up /\ ServerCloses(d).down = d.down
      BY <2>8, Forgets
    <3> QED BY <2>9, <3>1, <3>2
  <2>11. Delivers(f)'
    <3>1. CASE class[f] # "fits" \/ ~conn[f].client
      <4>1. infer'.for # f
        BY <1>0, <2>2, <2>5
      <4> QED BY <1>3, <2>2, <2>8, <2>10, <3>1, <4>1 DEF Delivers
    <3>2. CASE class[f] = "fits" /\ conn[f].client
      <4>1. infer.at = "sendmotion" /\ infer'.for # f
        BY <1>0, <2>1, <2>2, <2>5, <3>2 DEF Delivers
      <4>2. /\ conn'[f].up = conn[f].up /\ Len(conn'[f].down) = Len(conn[f].down) + Len(s)
            /\ conn[f].down # <<>> => conn'[f].down[1] = conn[f].down[1]
        <5>1. /\ d.up = conn[f].up /\ Len(d.down) = Len(conn[f].down) + Len(s)
              /\ conn[f].down # <<>> => d.down[1] = conn[f].down[1]
          BY <1>0, <2>2, <2>6, <2>7, <3>2, ServerAdds
        <5> QED BY <2>8, <2>10, <3>2, <5>1
      <4>3. Unread(f) = 0 /\ Unread(f)' = 0 /\ Replied(f) = 1 /\ Replied(f)' = 5
        BY <2>2, <2>10, <4>1 DEF Unread, Replied, Replying
      <4>4. Len(conn[f].up) = 0 /\ Len(conn[f].down) = IF pc[f] = "motion" THEN 1 - 1 ELSE 1
        BY <2>2, <3>2, <4>3 DEF Delivers
      <4>5. Len(conn'[f].down) = IF pc[f] = "motion" THEN 5 - 1 ELSE 5
        <5>1. CASE pc[f] = "motion"
          <6>1. Len(conn[f].down) = 0 /\ Len(s) = 4
            BY <2>6, <4>1, <4>4, <5>1
          <6> QED BY <4>2, <5>1, <6>1
        <5>2. CASE pc[f] # "motion"
          <6>1. Len(conn[f].down) = 1 /\ Len(s) = 4
            BY <2>6, <4>1, <4>4, <5>2
          <6> QED BY <4>2, <5>2, <6>1
        <5> QED BY <5>1, <5>2
      <4>6. pc[f] = "status" => conn[f].down # <<>>
        BY <4>4
      <4>7. pc[f] = "status" => conn'[f].down[1].is = "ok"
        BY <2>2, <3>2, <4>2, <4>6 DEF Delivers
      <4>8. conn'[f].client => Len(conn'[f].up) = 0
        BY <4>2, <4>4
      <4> QED BY <1>3, <2>2, <2>8, <2>10, <3>2, <4>1, <4>3, <4>5, <4>7, <4>8 DEF Delivers
    <3> QED BY <3>1, <3>2
  <2> QED BY <1>4, <1>6, <1>10, <2>1, <2>5, <2>9, <2>11
<1> QED
  BY <1>5, <1>12, <1>15, <1>16, <1>17, <1>19, <1>20, <1>21, <1>22, <1>23
     DEF InferStep, BrokenPipe, Killed

(* The steps of the hidden port, while the process lives. *)
LEMMA GoodHidden ==
    ASSUME PipelineInv, BothUp, GoodInv, HiddenStep \/ UNCHANGED vars
    PROVE  Fetches' /\ (\A v \in Askers : Delivers(v)') /\ (BothUp' => GoodPromptsSucceed')
<1> USE DEF PipelineInv
<1>0. /\ link \in [Slots -> Connections(Words)] /\ \A i \in Slots : link[i] \in Connections(Words)
      /\ infer.slot \in Slots /\ hidden.on \in Slots
      /\ hidden.vector \in Prompts \cup {None}
  BY DEF TypeInv, TypeOK
<1>1. Fetches /\ GoodPromptsSucceed /\ \A v \in Askers : Delivers(v)
  BY DEF GoodInv
<1>2. UNCHANGED <<pc, class, answer, conn, infer>>
  BY DEF HiddenStep, HiddenAccept, HiddenRead, HiddenExtract, Extract, handlerVars, vars
<1>3. \A v \in Askers : Delivers(v)'
  BY <1>1, <1>2, DeliversSame
<1>4. BothUp' => GoodPromptsSucceed'
  BY <1>1, <1>2 DEF GoodPromptsSucceed, BothUp
<1>c. \A i \in Slots : link'[i].client = link[i].client
  <2>1. \/ UNCHANGED link
        \/ \E x : link' = [link EXCEPT ![hidden.on] = ServerTakes(@, x)]
        \/ \E x : link' = [link EXCEPT ![hidden.on] = ServerSends(@, x)]
        \/ link' = [link EXCEPT ![hidden.on] = ServerCloses(@)]
    BY DEF HiddenStep, HiddenAccept, HiddenRead, HiddenExtract, Extract, vars
  <2>2. \A x : /\ ServerTakes(link[hidden.on], x).client = link[hidden.on].client
               /\ ServerSends(link[hidden.on], x).client = link[hidden.on].client
               /\ ServerCloses(link[hidden.on]).client = link[hidden.on].client
    <3>1. link[hidden.on] \in Connections(Words)
      BY <1>0
    <3> QED BY <3>1, Sides
  <2>3. ASSUME NEW d, d.client = link[hidden.on].client, link' = [link EXCEPT ![hidden.on] = d]
        PROVE  \A i \in Slots : link'[i].client = link[i].client
    <3>1. link'[hidden.on] = d /\ \A i \in Slots : i # hidden.on => link'[i] = link[i]
      BY <1>0, <2>3
    <3> QED BY <2>3, <3>1
  <2> QED BY <2>1, <2>2, <2>3
<1>5. ASSUME Fetching => link'[infer.slot] = link[infer.slot] PROVE Fetches'
  BY <1>1, <1>2, <1>c, <1>5 DEF Fetches, Fetching
<1>6. CASE HiddenAccept \/ UNCHANGED vars
  BY <1>3, <1>4, <1>5, <1>6 DEF HiddenAccept, vars
<1>7. ASSUME NEW c, link' = [link EXCEPT ![hidden.on] = c]
      PROVE  /\ link'[hidden.on] = c
             /\ hidden.on # infer.slot => link'[infer.slot] = link[infer.slot]
  BY <1>0, <1>7
<1>8. CASE HiddenRead
  <2>0. PICK c : c = link[infer.slot] /\ c \in Connections(Words)
    BY <1>0
  <2>1. \E d : link' = [link EXCEPT ![hidden.on] = d]
    BY <1>8 DEF HiddenRead
  <2>2. CASE ~Fetching \/ hidden.on # infer.slot
    BY <1>3, <1>4, <1>5, <1>7, <2>1, <2>2
  <2>3. CASE Fetching /\ hidden.on = infer.slot
    <3>1. c.client /\ Len(c.up) # 1 /\ Len(c.up) <= 2 /\ Len(c.up) \in Nat
      BY <1>0, <1>1, <2>0, <2>3 DEF Fetches, LinkInv, BackInv, LinkCarries, Connections
    <3>2. Len(c.up) = 2
      <4>1. ASSUME NEW n \in Nat, n # 1, n <= 2, n >= 2 \/ n >= 1 PROVE n = 2
        BY <4>1
      <4>2. \/ Len(c.up) >= 2 \/ Len(c.up) >= 1 \/ ~c.client
        BY <1>8, <2>0, <2>3 DEF HiddenRead, ServerHas, ServerAtEnd
      <4> QED BY <3>1, <4>1, <4>2
    <3>3. link'[infer.slot] = ServerTakes(c, 2)
      <4>1. ServerHas(c, 2)
        BY <3>2 DEF ServerHas
      <4> QED BY <1>7, <1>8, <2>0, <2>3, <4>1 DEF HiddenRead
    <3>4. Len(c.up) >= 2
      BY <3>2
    <3>5. /\ ServerTakes(c, 2).server = c.server /\ ServerTakes(c, 2).down = c.down
          /\ Len(ServerTakes(c, 2).up) = Len(c.up) - 2
      BY <2>0, <3>4, ServerReads
    <3>6. Len(ServerTakes(c, 2).up) # 1
      <4>1. Len(ServerTakes(c, 2).up) = 2 - 2
        BY <3>2, <3>5
      <4> QED BY <4>1
    <3>7. Fetches'
      BY <1>1, <1>2, <1>c, <2>0, <3>3, <3>5, <3>6 DEF Fetches, Fetching
    <3> QED BY <1>3, <1>4, <3>7
  <2> QED BY <2>2, <2>3
<1>9. CASE HiddenExtract
  <2>0. PICK c : c = link[infer.slot] /\ c \in Connections(Words)
    BY <1>0
  <2>1. hidden.at = "extract"
        /\ \E s : link' = [link EXCEPT ![hidden.on] = ServerSends(@, s)]
    BY <1>9 DEF HiddenExtract, Extract
  <2>2. CASE ~Fetching \/ hidden.on # infer.slot
    BY <1>3, <1>4, <1>5, <1>7, <2>1, <2>2
  <2>3. CASE Fetching /\ hidden.on = infer.slot
    <3>1. c.down = <<>> /\ c.client
      BY <1>0, <2>0, <2>1, <2>3 DEF BackInv, LinkCarries, Served, LinkInv
    <3>2. hidden.prompt \in Prompts \cup {None}
      BY DEF TypeInv, TypeOK
    <3>3. PICK s \in Seq(Words) : /\ link' = [link EXCEPT ![hidden.on] = ServerSends(@, s)]
                                  /\ s[1].is = "ok" \/ Len(s) = 1
      <4>1. ASSUME NEW v \in Prompts \cup {None}
            PROVE  VectorReply(v) \in Seq(Words) /\ VectorReply(v)[1].is = "ok"
        <5>1. VectorReply(v)[1] = Word("ok", v) /\ Word("ok", v).is = "ok"
          BY DEF VectorReply, Word
        <5> QED BY <5>1, WordTypes
      <4>2. HiddenError \in Seq(Words) /\ Len(HiddenError) = 1
        <5>1. Len(HiddenError) = 1
          BY DEF HiddenError
        <5> QED BY <5>1, WordTypes
      <4>3. \/ /\ link' = [link EXCEPT ![hidden.on] = ServerSends(@, VectorReply(hidden.vector'))]
               /\ hidden' = [hidden EXCEPT !.at = "read", !.vector = hidden.prompt]
            \/ link' = [link EXCEPT ![hidden.on] = ServerSends(@, HiddenError)]
        BY <1>9 DEF HiddenExtract, Extract
      <4>4. hidden' = [hidden EXCEPT !.at = "read", !.vector = hidden.prompt]
              => hidden.vector' = hidden.prompt
        BY DEF TypeInv, TypeOK
      <4> QED BY <3>2, <4>1, <4>2, <4>3, <4>4
    <3>4. link'[infer.slot] = ServerSends(c, s)
      BY <1>7, <2>0, <2>3, <3>3
    <3>5. /\ ServerSends(c, s).down = s /\ ServerSends(c, s).up = c.up
          /\ ServerSends(c, s).server = c.server
      BY <2>0, <3>1, ServerAdds
    <3>6. Len(s) > 1 => s[1].is = "ok"
      <4>1. CASE Len(s) = 1
        <5>1. ~(Len(s) > 1)
          BY ONLY <4>1
        <5> QED BY <5>1
      <4> QED BY <3>3, <4>1
    <3>7. Fetches'
      BY <1>1, <1>2, <1>c, <2>0, <3>4, <3>5, <3>6 DEF Fetches, Fetching
    <3> QED BY <1>3, <1>4, <3>7
  <2> QED BY <2>2, <2>3
<1> QED BY <1>6, <1>8, <1>9 DEF HiddenStep

(***************************************************************************)
(* A prompt that fits gets its clip, of whatever handler or client, and    *)
(* whatever was asked, refused, hung up on or left unread before it, as    *)
(* long as both servers run and only clients leave.                        *)
(***************************************************************************)
THEOREM GoodPromptsAlwaysSucceed ==
    ASSUME Kindly PROVE Spec => []GoodPromptsSucceed
<1>1. Init => GoodInv
  <2> SUFFICES ASSUME Init PROVE GoodInv
    OBVIOUS
  <2>1. Fetches
    BY DEF Init, Fetches, Fetching, NoConnection
  <2>2. \A w \in Askers : Delivers(w)
    BY DEF Init, Delivers, NoConnection, Waiting
  <2>3. GoodPromptsSucceed
    BY DEF Init, GoodPromptsSucceed
  <2> QED BY <2>1, <2>2, <2>3 DEF GoodInv
<1>2. PipelineInv /\ GoodInv /\ [Next]_vars => GoodInv'
  <2> SUFFICES ASSUME PipelineInv, GoodInv, [Next]_vars, BothUp'
               PROVE  Fetches' /\ (\A w \in Askers : Delivers(w)') /\ GoodPromptsSucceed'
    BY DEF GoodInv
  <2>1. CASE \E w \in Askers : Ask(w) \/ AskerStep(w) \/ HangUp(w)
    <3>1. infer'.at = infer.at /\ UNCHANGED hidden
      BY <2>1, InferApart DEF PipelineInv
    <3> QED BY <2>1, <3>1, GoodAsker DEF BothUp
  <2>2. CASE InferStep \/ Killed
    <3>1. BothUp
      <4>1. hidden'.at = hidden.at
        BY <2>2 DEF InferStep, Killed, InferDies, BrokenPipe, Accept, ReadLen, ReadRest, ClientGone,
                    Fetch, ReadHead, ReadVector, FetchCutOff, Infer, SendStatus, SendRest,
                    PipelineInv, TypeInv, TypeOK
      <4>2. infer.at # "dead"
        BY <2>2 DEF InferStep, Killed, BrokenPipe, Accept, ReadLen, ReadRest,
                    Fetch, ReadHead, ReadVector, Infer, SendStatus, SendRest
      <4> QED BY <4>1, <4>2 DEF BothUp
    <3> QED BY <2>2, <3>1, GoodInfer
  <2>3. CASE HiddenStep \/ UNCHANGED vars
    <3>1. BothUp
      BY <2>3 DEF HiddenStep, HiddenAccept, HiddenRead, HiddenExtract, Extract, BothUp, vars
    <3> QED BY <2>3, <3>1, GoodHidden
  <2>4. CASE FusedStops
    <3>1. hidden'.at = "dead"
      BY <2>4 DEF FusedStops, Drop, PipelineInv, TypeInv, TypeOK
    <3> QED BY <3>1 DEF BothUp
  <2> QED BY <2>1, <2>2, <2>3, <2>4 DEF Next
<1>3. GoodInv => GoodPromptsSucceed
  BY DEF GoodInv, GoodPromptsSucceed, BothUp
<1> QED BY <1>1, <1>2, <1>3, PipelineInvariant, PTL DEF Spec
=============================================================================
