----------------------------- MODULE T2MPipeline ----------------------------
(***************************************************************************)
(* The way of a prompt through three programs: a POST /t2m handler of      *)
(* cpp/run_server.cpp under its mutex, the accept loop of                  *)
(* cpp/t2m_infer.cpp, and the hidden port of llama.cpp/fused_server.cpp.   *)
(* Clients are programs that call t2m_infer directly, such as              *)
(* client/t2m_client.py.  A prompt stands for prompt, duration and seed,   *)
(* and a clip or a vector is named by the prompt it was computed from.     *)
(***************************************************************************)
EXTENDS Naturals, Sequences, FiniteSets, Connection

CONSTANTS Threads,     \* httplib threads that run the POST /t2m handler
          Clients,     \* direct clients of t2m_infer
          Posted,      \* classes of prompt POSTed to run_server
          Sent,        \* classes of prompt sent by the direct clients
          Failures,    \* what else may go wrong, see below
          FdLimit,     \* sockets t2m_infer may hold at once, its listener apart
          None         \* no prompt, no thread, no answer

(***************************************************************************)
(* Classes of prompt.  bad: refused by parse_t2m_body; empty: no bytes;    *)
(* fits: within n_ctx tokens; long: more tokens than n_ctx in no more than *)
(* 64 KiB; huge: more than 64 KiB.                                         *)
(***************************************************************************)
Classes == {"bad", "empty", "fits", "long", "huge"}

(***************************************************************************)
(* Failures.  decode: llama_decode of the hidden port; ort: a session of   *)
(* t2m_infer throws; disk: directory or files of a handler; convert:       *)
(* motion_to_vrma; stop, kill: fused_server or t2m_infer ends; hangup: a   *)
(* direct client leaves without its answer.                                *)
(***************************************************************************)
Faults == {"decode", "ort", "disk", "convert", "stop", "kill",
           "hangup"}

ASSUME PipelineAssumption ==
    /\ Threads \cap Clients = {}
    /\ None \notin Threads \cup Clients \cup Classes
    /\ Posted \subseteq Classes \ {"empty"}     \* parse_t2m_body: no empty prompt
    /\ Sent \subseteq Classes \ {"bad"}         \* no parser in front of t2m_infer
    /\ Failures \subseteq Faults
    /\ FdLimit \in Nat \ {0}

Askers == Threads \cup Clients

(***************************************************************************)
(* Places for the connections between t2m_infer and the hidden port.  When *)
(* fetch_hidden opens one there is room: t2m_infer may hold FdLimit - 2    *)
(* others, and the hidden port lags behind by one at most.                 *)
(***************************************************************************)
Slots == 1 .. FdLimit

VARIABLES pc,          \* asker -> where it stands
          class,       \* asker -> class of its prompt
          answer,      \* asker -> its last answer
          clip,        \* asker -> the motion it received, then the file made of it
          mtx,         \* holder of t2m_mtx
          dirs,        \* handlers whose temporary directory exists
          conn,        \* asker -> its connection to t2m_infer
          infer,       \* t2m_infer: [at, for, prompt, vector, slot, queue]
          link,        \* slot -> connection of t2m_infer to the hidden port
          hidden       \* hidden-port thread: [at, on, prompt, vector, queue]

handlerVars == <<pc, class, answer, clip, mtx, dirs>>
vars == <<handlerVars, conn, infer, link, hidden>>

Prompt(w) == [by |-> w, class |-> class[w]]
Prompts == [by : Askers, class : Classes]

Word(is, of) == [is |-> is, of |-> of]
Words == [is : {"len", "prompt", "duration", "seed", "ok", "error", "shape",
                "motion", "timings", "msg", "vector", "ms"},
          of : Prompts \cup {None}]

(* What a prompt puts on the wire: its bytes, unless it has none. *)
Bytes(p) == IF p.class = "empty" THEN <<>> ELSE <<Word("prompt", p)>>

(* What call_t2m and t2m_client.py send to t2m_infer. *)
Request(p) == <<Word("len", p)>> \o Bytes(p)
                                 \o <<Word("duration", p), Word("seed", p)>>

(* What fetch_hidden sends to the hidden port. *)
HiddenRequest(p) == <<Word("len", p)>> \o Bytes(p)

(* The replies of t2m_infer after the status: T and D, floats, timings. *)
MotionReply(m) == <<Word("shape", m), Word("shape", m), Word("motion", m),
                    Word("timings", m)>>
ErrorReply == <<Word("len", None), Word("msg", None)>>

(* The replies of the hidden port: three words and the data, or one word. *)
VectorReply(v) == <<Word("ok", v), Word("shape", v), Word("shape", v),
                    Word("vector", v), Word("ms", v)>>
HiddenError == <<Word("error", None)>>

Init ==
    /\ pc = [w \in Askers |-> "idle"]
    /\ class = [w \in Askers |-> "fits"]
    /\ answer = [w \in Askers |-> None]
    /\ clip = [w \in Askers |-> None]
    /\ mtx = None
    /\ dirs = {}
    /\ conn = [w \in Askers |-> NoConnection]
    /\ infer = [at |-> "accept", for |-> None, prompt |-> None, vector |-> None,
                slot |-> 1, queue |-> <<>>]
    /\ link = [i \in Slots |-> NoConnection]
    /\ hidden = [at |-> "accept", on |-> 1, prompt |-> None, vector |-> None,
                 queue |-> <<>>]

-----------------------------------------------------------------------------
(* The askers. *)

Goto(w, place) == pc' = [pc EXCEPT ![w] = place]

(***************************************************************************)
(* The handler returns: its answer goes out, the guard removes the         *)
(* directory, the lock is released.  A direct client just has its answer.  *)
(***************************************************************************)
Respond(w, status, m) ==
    /\ Goto(w, "idle")
    /\ answer' = [answer EXCEPT ![w] = [status |-> status, clip |-> m]]
    /\ clip' = [clip EXCEPT ![w] = None]
    /\ mtx' = IF w \in Threads THEN None ELSE mtx
    /\ dirs' = dirs \ {w}
    /\ UNCHANGED class

Fails(w) == Respond(w, "failed", None)

(* Mutant: direct clients go through the lock of run_server. *)
AskLocked(w) ==
    /\ pc[w] = "idle" /\ conn[w] = NoConnection
    /\ \E c \in IF w \in Threads THEN Posted ELSE Sent :
           class' = [class EXCEPT ![w] = c]
    /\ Goto(w, "lock")
    /\ answer' = [answer EXCEPT ![w] = None]
    /\ UNCHANGED <<clip, mtx, dirs, conn, infer, link, hidden>>

(***************************************************************************)
(* A browser POSTs, or a direct client starts.  A client that has left     *)
(* comes back once t2m_infer has let go of it: one connection per asker.   *)
(***************************************************************************)
Ask(w) ==
    /\ pc[w] = "idle" /\ conn[w] = NoConnection
    /\ \E c \in IF w \in Threads THEN Posted ELSE Sent :
           class' = [class EXCEPT ![w] = c]
    /\ Goto(w, IF w \in Threads THEN "lock" ELSE "call")
    /\ answer' = [answer EXCEPT ![w] = None]
    /\ UNCHANGED <<clip, mtx, dirs, conn, infer, link, hidden>>

(* Mutant: the handler does not wait for the mutex. *)
LockAnyway(w) ==
    /\ pc[w] = "lock"
    /\ mtx' = w
    /\ Goto(w, "parse")
    /\ UNCHANGED <<class, answer, clip, dirs, conn, infer, link, hidden>>

Lock(w) ==
    /\ pc[w] = "lock" /\ mtx = None
    /\ mtx' = w
    /\ Goto(w, "parse")
    /\ UNCHANGED <<class, answer, clip, dirs, conn, infer, link, hidden>>

Parse(w) ==
    /\ pc[w] = "parse"
    /\ IF class[w] = "bad"
       THEN Respond(w, "refused", None)
       ELSE Goto(w, "call") /\ UNCHANGED <<class, answer, clip, mtx, dirs>>
    /\ UNCHANGED <<conn, infer, link, hidden>>

(* connect() needs a listening t2m_infer; then the request is sent. *)
Call(w) ==
    /\ pc[w] = "call"
    /\ IF infer.at = "dead"
       THEN Fails(w) /\ UNCHANGED <<conn, infer>>
       ELSE /\ conn' = [conn EXCEPT ![w] = Opened(Request(Prompt(w)))]
            /\ infer' = [infer EXCEPT !.queue = Append(@, w)]
            /\ Goto(w, "status")
            /\ UNCHANGED <<class, answer, clip, mtx, dirs>>
    /\ UNCHANGED <<link, hidden>>

(* The stream ended, or was reset, before the n words asked for. *)
CutOff(w, n) ==
    /\ ClientAtEnd(conn[w], n)
    /\ conn' = [conn EXCEPT ![w] = ClientCloses(@)]
    /\ Fails(w)
    /\ UNCHANGED <<infer, link, hidden>>

ReadStatus(w) ==
    /\ pc[w] = "status"
    /\ \/ /\ ClientHas(conn[w], 1)
          /\ conn' = [conn EXCEPT ![w] = ClientTakes(@, 1)]
          /\ Goto(w, IF conn[w].down[1].is = "ok" THEN "motion" ELSE "error")
          /\ UNCHANGED <<class, answer, clip, mtx, dirs, infer, link, hidden>>
       \/ CutOff(w, 1)

(* Length and text of the error; that they fail to come changes nothing. *)
ReadError(w) ==
    /\ pc[w] = "error"
    /\ \/ /\ ClientHas(conn[w], 2)
          /\ conn' = [conn EXCEPT ![w] = ClientCloses(@)]
          /\ Fails(w)
          /\ UNCHANGED <<infer, link, hidden>>
       \/ CutOff(w, 2)

(* T, D, the motion and the timings; then call_t2m closes and returns. *)
ReadMotion(w) ==
    /\ pc[w] = "motion"
    /\ \/ /\ ClientHas(conn[w], 4)
          /\ conn' = [conn EXCEPT ![w] = ClientCloses(@)]
          /\ LET m == conn[w].down[3].of
             IN IF w \in Threads
                THEN /\ clip' = [clip EXCEPT ![w] = m]
                     /\ Goto(w, "mkdir")
                     /\ UNCHANGED <<class, answer, mtx, dirs>>
                ELSE Respond(w, "ok", m)
          /\ UNCHANGED <<infer, link, hidden>>
       \/ CutOff(w, 4)

MakeDir(w) ==
    /\ pc[w] = "mkdir"
    /\ \/ /\ dirs' = dirs \cup {w}
          /\ Goto(w, "write")
          /\ UNCHANGED <<class, answer, clip, mtx>>
       \/ "disk" \in Failures /\ Fails(w)
    /\ UNCHANGED <<conn, infer, link, hidden>>

(* motion.bin, then the converter, then motion.vrma, all in the directory. *)
UseDir(w, place, next, fault) ==
    /\ pc[w] = place
    /\ \/ Goto(w, next) /\ UNCHANGED <<class, answer, clip, mtx, dirs>>
       \/ fault \in Failures /\ Fails(w)
    /\ UNCHANGED <<conn, infer, link, hidden>>

Write(w)   == UseDir(w, "write", "convert", "disk")
Convert(w) == UseDir(w, "convert", "read", "convert")

ReadFile(w) ==
    /\ pc[w] = "read"
    /\ \/ Respond(w, "ok", clip[w])
       \/ "disk" \in Failures /\ Fails(w)
    /\ UNCHANGED <<conn, infer, link, hidden>>

(* A direct client is interrupted: while it waits, or while it still sends. *)
HangUp(w) ==
    /\ "hangup" \in Failures
    /\ w \in Clients /\ pc[w] \in {"status", "motion", "error"}
    /\ \E sent \in 0 .. Len(conn[w].up) :
           conn' = [conn EXCEPT ![w] = ClientCloses(SentOnly(@, sent))]
    /\ Goto(w, "idle")
    /\ UNCHANGED <<class, answer, clip, mtx, dirs, infer, link, hidden>>

(* What the asker's own code does next. *)
AskerStep(w) ==
    \/ Lock(w) \/ Parse(w) \/ Call(w)
    \/ ReadStatus(w) \/ ReadError(w) \/ ReadMotion(w)
    \/ MakeDir(w) \/ Write(w) \/ Convert(w) \/ ReadFile(w)

-----------------------------------------------------------------------------
(* t2m_infer: one connection after the other. *)

At(place) == infer' = [infer EXCEPT !.at = place]

(* close_sock(cs); continue. *)
NextClient(i) == [i EXCEPT !.at = "accept", !.for = None, !.prompt = None,
                           !.vector = None]

(* The sockets of fetch_hidden that t2m_infer has not closed. *)
Held == {i \in Slots : link[i].client}

Accept ==
    /\ infer.at = "accept" /\ infer.queue # <<>>
    /\ Cardinality(Held) < FdLimit
    /\ infer' = [infer EXCEPT !.at = "len", !.for = Head(infer.queue), !.queue = Tail(@)]
    /\ UNCHANGED <<handlerVars, conn, link, hidden>>

(* Mutant: the end of the stream is taken for "no bytes yet". *)
ClientGoneRetry(n) == ServerAtEnd(conn[infer.for], n) /\ UNCHANGED vars

(* The client left before the words it owes. *)
ClientGone(n) ==
    /\ ServerAtEnd(conn[infer.for], n)
    /\ conn' = [conn EXCEPT ![infer.for] = ServerCloses(@)]
    /\ infer' = NextClient(infer)
    /\ UNCHANGED <<handlerVars, link, hidden>>

(* A prompt above 64 KiB is refused and its bytes are left unread. *)
ReadLen ==
    /\ infer.at = "len"
    /\ LET c == conn[infer.for]
       IN \/ /\ ServerHas(c, 1)
             /\ IF c.up[1].of.class = "huge"
                THEN At("failed")
                ELSE infer' = [infer EXCEPT !.at = "rest", !.prompt = c.up[1].of]
             /\ conn' = [conn EXCEPT ![infer.for] = ServerTakes(@, 1)]
             /\ UNCHANGED <<handlerVars, link, hidden>>
          \/ ClientGone(1)

(* Prompt, duration and seed. *)
ReadRest ==
    /\ infer.at = "rest"
    /\ LET c == conn[infer.for]
           n == Len(Bytes(infer.prompt)) + 2
       IN \/ /\ ServerHas(c, n)
             /\ conn' = [conn EXCEPT ![infer.for] = ServerTakes(@, n)]
             /\ infer' = [infer EXCEPT !.at = "fetch", !.prompt = c.up[1].of]
             /\ UNCHANGED <<handlerVars, link, hidden>>
          \/ ClientGone(n)

(* A slot that neither side has open; the first, as for descriptors. *)
FirstFree(i) ==
    /\ link[i] = NoConnection
    /\ \A k \in 1 .. i - 1 : link[k] # NoConnection

(***************************************************************************)
(* fetch_hidden opens a connection of its own for each prompt.  It throws, *)
(* and the request fails, when nobody listens or no socket is left: it has *)
(* those not closed and its client's, and needs one more.                  *)
(***************************************************************************)
Fetch ==
    /\ infer.at = "fetch"
    /\ IF hidden.at = "dead" \/ Cardinality(Held) + 2 > FdLimit
       THEN At("failed") /\ UNCHANGED <<link, hidden>>
       ELSE \E i \in Slots :
               /\ FirstFree(i)
               /\ link' = [link EXCEPT ![i] = Opened(HiddenRequest(infer.prompt))]
               /\ infer' = [infer EXCEPT !.at = "head", !.slot = i]
               /\ hidden' = [hidden EXCEPT !.queue = Append(@, i)]
    /\ UNCHANGED <<handlerVars, conn>>

(***************************************************************************)
(* recv_all throws at the end of stream and the exception passes by the    *)
(* close_sock: the request fails, and the socket stays open for ever.      *)
(***************************************************************************)
FetchCutOff(n) ==
    /\ ClientAtEnd(link[infer.slot], n)
    /\ link' = [link EXCEPT ![infer.slot] = ClientAtRest(@)]
    /\ At("failed")
    /\ UNCHANGED <<handlerVars, conn, hidden>>

(* Status, n_tokens and n_emb are received before the status is looked at. *)
ReadHead ==
    /\ infer.at = "head"
    /\ LET c == link[infer.slot]
       IN \/ /\ ClientHas(c, 3)
             /\ IF c.down[1].is = "ok"
                THEN link' = [link EXCEPT ![infer.slot] = ClientTakes(@, 3)] /\ At("vector")
                ELSE link' = [link EXCEPT ![infer.slot] = ClientCloses(@)] /\ At("failed")
             /\ UNCHANGED <<handlerVars, conn, hidden>>
          \/ FetchCutOff(3)

(* Mutant: the socket is not closed once the vector is there. *)
ReadVectorOpen ==
    /\ infer.at = "vector"
    /\ ClientHas(link[infer.slot], 2)
    /\ link' = [link EXCEPT ![infer.slot] = ClientTakes(@, 2)]
    /\ infer' = [infer EXCEPT !.at = "infer", !.vector = link[infer.slot].down[1].of]
    /\ UNCHANGED <<handlerVars, conn, hidden>>

(* The hidden states and the time they took; then the socket is closed. *)
ReadVector ==
    /\ infer.at = "vector"
    /\ LET c == link[infer.slot]
       IN \/ /\ ClientHas(c, 2)
             /\ link' = [link EXCEPT ![infer.slot] = ClientCloses(@)]
             /\ infer' = [infer EXCEPT !.at = "infer", !.vector = c.down[1].of]
             /\ UNCHANGED <<handlerVars, conn, hidden>>
          \/ FetchCutOff(2)

(* Refiner and integration; either session may throw. *)
Infer ==
    /\ infer.at = "infer"
    /\ At("done") \/ ("ort" \in Failures /\ At("failed"))
    /\ UNCHANGED <<handlerVars, conn, link, hidden>>

(* The reply is a send per field: the status, and then the rest. *)
SendStatus ==
    /\ infer.at \in {"done", "failed"}
    /\ conn' = [conn EXCEPT ![infer.for] =
                   ServerSends(@, <<Word(IF infer.at = "done" THEN "ok" ELSE "error", None)>>)]
    /\ At(IF infer.at = "done" THEN "sendmotion" ELSE "senderror")
    /\ UNCHANGED <<handlerVars, link, hidden>>

SendRest ==
    /\ infer.at \in {"sendmotion", "senderror"}
    /\ conn' = [conn EXCEPT ![infer.for] = ServerCloses(ServerSends(@,
                   IF infer.at = "sendmotion" THEN MotionReply(infer.vector) ELSE ErrorReply))]
    /\ infer' = NextClient(infer)
    /\ UNCHANGED <<handlerVars, link, hidden>>

(* The process ends, and all its sockets with it. *)
InferDies ==
    /\ infer' = [NextClient(infer) EXCEPT !.at = "dead", !.queue = <<>>]
    /\ conn' = [w \in Askers |-> ServerCloses(conn[w])]
    /\ link' = [i \in Slots |-> ClientCloses(link[i])]
    /\ UNCHANGED <<handlerVars, hidden>>

Killed == "kill" \in Failures /\ infer.at # "dead" /\ InferDies

(***************************************************************************)
(* POSIX: to send after the client has closed raises SIGPIPE, which        *)
(* t2m_infer neither ignores nor handles.  SendRest is the case where the  *)
(* client's reset comes too late for that.                                 *)
(***************************************************************************)
BrokenPipe ==
    /\ infer.at \in {"sendmotion", "senderror"}
    /\ ~conn[infer.for].client
    /\ InferDies

InferStep ==
    \/ Accept \/ ReadLen \/ ReadRest \/ Fetch \/ ReadHead \/ ReadVector
    \/ Infer \/ SendStatus \/ SendRest \/ BrokenPipe

-----------------------------------------------------------------------------
(* The hidden port: one connection, as many prompts as it brings. *)

(* Back to accept, or to the connection that is kept. *)
Drop(h) == [h EXCEPT !.at = "accept", !.prompt = None]

HiddenAccept ==
    /\ hidden.at = "accept" /\ hidden.queue # <<>>
    /\ hidden' = [hidden EXCEPT !.at = "read", !.on = Head(hidden.queue), !.queue = Tail(@)]
    /\ UNCHANGED <<handlerVars, conn, infer, link>>

(* Mutant: the loop is left for the next accept without the close. *)
HiddenReadOpen ==
    /\ hidden.at = "read"
    /\ LET c == link[hidden.on]
       IN IF ServerHas(c, 2)
          THEN /\ link' = [link EXCEPT ![hidden.on] = ServerTakes(@, 2)]
               /\ hidden' = [hidden EXCEPT !.at = "extract", !.prompt = c.up[2].of]
          ELSE /\ ServerHas(c, 1) \/ ServerAtEnd(c, 1)
               /\ hidden' = Drop(hidden)
               /\ UNCHANGED link
    /\ UNCHANGED <<handlerVars, conn, infer>>

(* prompt_len of 0 ends the connection, and so does the end of the stream. *)
HiddenRead ==
    /\ hidden.at = "read"
    /\ LET c == link[hidden.on]
       IN IF ServerHas(c, 2)
          THEN /\ link' = [link EXCEPT ![hidden.on] = ServerTakes(@, 2)]
               /\ hidden' = [hidden EXCEPT !.at = "extract", !.prompt = c.up[2].of]
          ELSE /\ ServerHas(c, 1) \/ ServerAtEnd(c, 1)
               /\ link' = [link EXCEPT ![hidden.on] = ServerCloses(@)]
               /\ hidden' = Drop(hidden)
    /\ UNCHANGED <<handlerVars, conn, infer>>

(***************************************************************************)
(* extract_hidden: a prompt above n_ctx, or a failed llama_decode, leaves  *)
(* the context's buffer as it was and is answered with one word.           *)
(***************************************************************************)
Extract(ok) ==
    /\ link' = [link EXCEPT ![hidden.on] =
                   ServerSends(@, IF ok THEN VectorReply(hidden.vector') ELSE HiddenError)]
    /\ UNCHANGED <<handlerVars, conn, infer>>

(* Mutant: the result of llama_decode is not looked at. *)
HiddenExtractUnchecked ==
    /\ hidden.at = "extract"
    /\ \/ hidden' = [hidden EXCEPT !.at = "read", !.vector = hidden.prompt]
       \/ "decode" \in Failures /\ hidden' = [hidden EXCEPT !.at = "read"]
    /\ Extract(TRUE)

HiddenExtract ==
    /\ hidden.at = "extract"
    /\ \/ /\ hidden.prompt.class # "long"
          /\ hidden' = [hidden EXCEPT !.at = "read", !.vector = hidden.prompt]
          /\ Extract(TRUE)
       \/ /\ hidden.prompt.class = "long" \/ "decode" \in Failures
          /\ hidden' = [hidden EXCEPT !.at = "read"]
          /\ Extract(FALSE)

HiddenStep == HiddenAccept \/ HiddenRead \/ HiddenExtract

(***************************************************************************)
(* fused_server ends, and its sockets with it.  The hidden states may be   *)
(* more than the socket takes at once: a part of the reply may be out.     *)
(***************************************************************************)
FusedStops ==
    /\ "stop" \in Failures /\ hidden.at # "dead"
    /\ \E sent \in IF hidden.at = "extract" /\ hidden.prompt.class = "fits"
                  THEN 0 .. 4 ELSE {0} :
           link' = [i \in Slots |-> ServerCloses(
                       IF sent > 0 /\ i = hidden.on
                       THEN ServerSends(link[i], SubSeq(VectorReply(hidden.prompt), 1, sent))
                       ELSE link[i])]
    /\ hidden' = [Drop(hidden) EXCEPT !.at = "dead", !.queue = <<>>]
    /\ UNCHANGED <<handlerVars, conn, infer>>

-----------------------------------------------------------------------------
Next ==
    \/ \E w \in Askers : Ask(w) \/ AskerStep(w) \/ HangUp(w)
    \/ InferStep
    \/ HiddenStep
    \/ FusedStops \/ Killed

Spec == Init /\ [][Next]_vars

(***************************************************************************)
(* The three programs run: no thread waits but in recv, accept or lock.    *)
(* Nothing is assumed of those who ask, of failures, or of the order in    *)
(* which the mutex lets handlers in.                                       *)
(***************************************************************************)
FairSpec ==
    /\ Spec
    /\ \A w \in Askers : WF_vars(AskerStep(w))
    /\ WF_vars(InferStep)
    /\ WF_vars(HiddenStep)

-----------------------------------------------------------------------------
(* Properties. *)

Answers == [status : {"ok", "failed", "refused"}, clip : Prompts \cup {None}]

(* Every variable keeps to the values the code can give it. *)
TypeOK ==
    /\ pc \in [Askers -> {"idle", "lock", "parse", "call", "status", "error",
                          "motion", "mkdir", "write", "convert", "read"}]
    /\ class \in [Askers -> Classes]
    /\ answer \in [Askers -> Answers \cup {None}]
    /\ clip \in [Askers -> Prompts \cup {None}]
    /\ mtx \in Threads \cup {None}
    /\ dirs \subseteq Threads
    /\ conn \in [Askers -> Connections(Words)]
    /\ infer \in [at : {"accept", "len", "rest", "fetch", "head", "vector", "infer",
                        "done", "failed", "sendmotion", "senderror", "dead"},
                  for : Askers \cup {None}, prompt : Prompts \cup {None},
                  vector : Prompts \cup {None}, slot : Slots,
                  queue : Seq(Askers)]
    /\ link \in [Slots -> Connections(Words)]
    /\ hidden \in [at : {"accept", "read", "extract", "dead"}, on : Slots,
                   prompt : Prompts \cup {None}, vector : Prompts \cup {None},
                   queue : Seq(Slots)]

(***************************************************************************)
(* One POST is worked on at a time, end to end: of all handlers only the   *)
(* one that holds t2m_mtx has a connection to t2m_infer or a directory     *)
(* (run_server.cpp 458-463).                                               *)
(***************************************************************************)
OneAtATime ==
    \A w \in Threads :
        mtx # w => /\ pc[w] \in {"idle", "lock"}
                   /\ conn[w].client = FALSE
                   /\ w \notin dirs

(***************************************************************************)
(* No connection is left over alive.  A socket that fetch_hidden threw     *)
(* past stays open, but the hidden port has closed its side: it never      *)
(* waits on a connection t2m_infer has forgotten.  The hidden port and     *)
(* t2m_infer hold the sockets they accepted only for the peer they serve   *)
(* or will accept next (t2m_infer.cpp 177-233 and 722-796,                 *)
(* fused_server.cpp 281-346).                                              *)
(***************************************************************************)
NoLiveLeftover ==
    /\ \A i \in Slots : link[i].client /\ link[i].server =>
           infer.at \in {"head", "vector"} /\ i = infer.slot
    /\ \A i \in Slots : link[i].server =>
           \/ hidden.at \in {"read", "extract"} /\ i = hidden.on
           \/ \E k \in 1 .. Len(hidden.queue) : hidden.queue[k] = i
    /\ \A w \in Askers : conn[w].server =>
           w = infer.for \/ \E k \in 1 .. Len(infer.queue) : infer.queue[k] = w

(***************************************************************************)
(* Where only processes end and clients leave, a prompt that fits gets its *)
(* clip while both servers are up, whatever was asked, refused or left     *)
(* unread before it: no request makes t2m_infer unable to serve the next,  *)
(* but for an empty prompt, which costs it a socket (FetchCutOff).         *)
(***************************************************************************)
GoodPromptsSucceed ==
    \A w \in Askers :
        answer[w] # None /\ class[w] = "fits"
            => \/ answer[w].status = "ok"
               \/ infer.at = "dead" \/ hidden.at = "dead"

(***************************************************************************)
(* Nobody waits for ever: a request that reached t2m_infer is answered,    *)
(* and a handler that took the mutex returns.                              *)
(***************************************************************************)
Answered == \A w \in Askers : pc[w] \notin {"idle", "lock"} ~> pc[w] = "idle"

(* t2m_infer outlives whatever its clients do. *)
StaysUp == infer.at # "dead"

(***************************************************************************)
(* The pipeline implements the service: each question has one answer, and  *)
(* a clip is always the clip of the prompt of the question.                *)
(***************************************************************************)
Service == INSTANCE T2MService
               WITH asked <- [w \in Askers |-> IF pc[w] = "idle" THEN None ELSE class[w]],
                    told  <- answer

ImplementsService == Service!Spec
=============================================================================
