----------------------------- MODULE Connection -----------------------------
(***************************************************************************)
(* A loopback TCP connection as the three programs use it: two streams of  *)
(* words and, for each side, whether it still holds its socket.  A word is *)
(* what one recv_all asks for (a length, a status, a block of floats); the *)
(* reader takes words by position, as the code takes bytes.  The kernel is *)
(* external to the repository: it is modelled as send and recv in          *)
(* cpp/t2m_infer.cpp, cpp/run_server.cpp and llama.cpp/fused_server.cpp    *)
(* rely on it.                                                             *)
(***************************************************************************)
EXTENDS Naturals, Sequences

(* Neither side holds a socket. *)
NoConnection == [up |-> <<>>, down |-> <<>>, client |-> FALSE, server |-> FALSE]

(* A client has connected and sent its whole request. *)
Opened(words) == [up |-> words, down |-> <<>>, client |-> TRUE, server |-> TRUE]

Connections(Words) ==
    [up : Seq(Words), down : Seq(Words), client : BOOLEAN, server : BOOLEAN]

(* close(): what the closer would still have read is lost. *)
ClientCloses(c) ==
    IF c.server THEN [c EXCEPT !.client = FALSE, !.down = <<>>] ELSE NoConnection

(* The client was stopped after n words of those it had to send. *)
SentOnly(c, n) == [c EXCEPT !.up = SubSeq(@, 1, n)]

ServerCloses(c) ==
    IF c.client THEN [c EXCEPT !.server = FALSE] ELSE NoConnection

(* send(): towards a side that has closed, the words are lost. *)
ServerSends(c, words) ==
    IF c.client THEN [c EXCEPT !.down = @ \o words] ELSE c

(* recv_all of n words by the server, and its failure at the end of stream. *)
ServerHas(c, n)   == Len(c.up) >= n
ServerTakes(c, n) == [c EXCEPT !.up = SubSeq(@, n + 1, Len(@))]
ServerAtEnd(c, n) == ~ServerHas(c, n) /\ ~c.client

(***************************************************************************)
(* The same for the client.  A server that closes before it has read the   *)
(* whole request resets the connection, and a reset may overtake words the *)
(* client has not read yet.                                                *)
(***************************************************************************)
ClientHas(c, n)   == Len(c.down) >= n
ClientTakes(c, n) == [c EXCEPT !.down = SubSeq(@, n + 1, Len(@))]
ClientAtEnd(c, n) == ~c.server /\ (~ClientHas(c, n) \/ c.up # <<>>)

(* A client that keeps its socket past that: nothing is left to be read. *)
ClientAtRest(c) == [c EXCEPT !.up = <<>>, !.down = <<>>]
=============================================================================
