------------------------------ MODULE IpcClient ------------------------------
(***************************************************************************)
(* The line protocol between a BenchdClient (packages/shared/src/          *)
(* ipc-client.ts) and its ClientConnection in the daemon                   *)
(* (packages/benchd/src/connection.ts).  A message is one line of JSON; a  *)
(* socket hands over what it has in chunks that end anywhere, so a line is *)
(* two units here, its text and its newline.  JSON.stringify writes no     *)
(* empty lines and none is sent, so what processBuffer does with one is    *)
(* not in this module.                                                     *)
(***************************************************************************)
EXTENDS Integers, Sequences, SequencesExt

CONSTANTS
  Requests,    \* requests of the client, by requestId
  Sub,         \* the requestId of its subscription
  Newline,     \* the end of a line
  MaxPushes    \* bound: status updates and violation events the daemon pushes


VARIABLES
  socket,      \* "open"; "ended" by close(); "closed"
  promise,     \* [request -> what has become of its promise]
  subscribed,  \* the callback of the subscription is registered
  toDaemon, daemonBuffer,    \* units on their way, and ClientConnection.buffer
  toClient, clientBuffer,    \* units on their way, and BenchdClient.buffer
  open,        \* requests the daemon has not answered for good
  sent,        \* messages the daemon has sent
  handled,     \* messages handleMessage has seen
  seen,        \* status updates and violations its callbacks were given
  pushes

ipcVars == <<socket, promise, subscribed, toDaemon, daemonBuffer, toClient, clientBuffer,
             open, sent, handled, seen, pushes>>

Message == [type : {"answer", "error", "lock.queued"}, id : Requests]
             \cup [type : {"status.update"}, id : {Sub}]
             \cup [type : {"violation.occurred"}, id : {0}]

\* No text of a line is the newline that ends it.
ASSUME IpcAssumption ==
  /\ MaxPushes \in Nat /\ Sub \notin Requests
  /\ Newline \notin Requests \cup {Sub} \cup Message

\* The type invariant: the maps of the client and the lines on the way.
IpcTypeOK ==
  /\ socket \in {"open", "ended", "closed"}
  /\ promise \in [Requests -> {"none", "pending", "resolved", "rejected"}]
  /\ subscribed \in BOOLEAN
  /\ open \subseteq Requests \cup {Sub}
  /\ \A k \in DOMAIN sent : sent[k] \in Message
  /\ Len(handled) <= Len(sent)
  /\ pushes \in 0..MaxPushes

IpcInit ==
  /\ socket = "open" /\ promise = [r \in Requests |-> "none"] /\ subscribed = FALSE
  /\ toDaemon = <<>> /\ daemonBuffer = <<>> /\ toClient = <<>> /\ clientBuffer = <<>>
  /\ open = {} /\ sent = <<>> /\ handled = <<>> /\ seen = <<>> /\ pushes = 0

-----------------------------------------------------------------------------
(* Lines.                                                                  *)

\* JSON.stringify and the newline.
Line(m) == <<m, Newline>>

\* How many units of a buffer are complete lines.
Complete(buffer) ==
  CHOOSE n \in 0..Len(buffer) :
    /\ n = 0 \/ buffer[n] = Newline
    /\ \A k \in n + 1..Len(buffer) : buffer[k] # Newline

\* Fault: only the first line of a chunk is taken.
FirstLine(buffer) ==
  IF Complete(buffer) = 0 THEN <<>> ELSE <<buffer[1]>>

\* processBuffer: the lines it takes from the buffer, in order.  Each is the
\* unit before its newline.
Lines(buffer) == [k \in 1..Complete(buffer) \div 2 |-> buffer[2 * k - 1]]

\* Fault: the buffer keeps the lines that were taken from it.
KeepLines(buffer) == buffer

\* Fault: what is left of a chunk after its last line is thrown away.
DropRest(buffer) == <<>>

\* What stays in the buffer.
Rest(buffer) == SubSeq(buffer, 2 * Len(Lines(buffer)) + 1, Len(buffer))

-----------------------------------------------------------------------------
(* The client.                                                             *)

\* request: the promise is pending before the line is written.
Request(r) ==
  /\ socket = "open" /\ promise[r] = "none"
  /\ promise' = [promise EXCEPT ![r] = "pending"]
  /\ toDaemon' = toDaemon \o Line(r)
  /\ UNCHANGED <<socket, subscribed, daemonBuffer, toClient, clientBuffer, open, sent,
                 handled, seen, pushes>>

\* subscribe: the callback is registered before the line is written.
Subscribe ==
  /\ socket = "open" /\ ~subscribed /\ Sub \notin open
  /\ \A k \in DOMAIN toDaemon : toDaemon[k] # Sub
  /\ \A k \in DOMAIN daemonBuffer : daemonBuffer[k] # Sub
  /\ subscribed' = TRUE
  /\ toDaemon' = toDaemon \o Line(Sub)
  /\ UNCHANGED <<socket, promise, daemonBuffer, toClient, clientBuffer, open, sent,
                 handled, seen, pushes>>

\* The function subscribe returns; the daemon is not told.
Unsubscribe ==
  /\ subscribed
  /\ subscribed' = FALSE
  /\ UNCHANGED <<socket, promise, toDaemon, daemonBuffer, toClient, clientBuffer, open,
                 sent, handled, seen, pushes>>

\* Fault: the first message with its requestId settles a promise.
SettlesAnything(m) == m.id \in Requests

\* lock.queued leaves the promise pending.
Settles(m) == m.id \in Requests /\ m.type \in {"answer", "error"}

\* handleMessage, for every line of a chunk.
HandleMessages(ms) ==
  /\ handled' = handled \o ms
  /\ promise' = [r \in Requests |->
       LET mine == {k \in DOMAIN ms : Settles(ms[k]) /\ ms[k].id = r}
       IN IF promise[r] # "pending" \/ mine = {} THEN promise[r]
          ELSE IF ms[Min(mine)].type = "error" THEN "rejected" ELSE "resolved"]
  /\ seen' = seen \o SelectSeq(ms, LAMBDA m : \/ m.type = "violation.occurred"
                                              \/ m.type = "status.update" /\ subscribed)

\* A 'data' event: a chunk of any length, also after close() was called.
ClientData ==
  /\ socket # "closed"
  /\ \E n \in 1..Len(toClient) :
       LET buffer == clientBuffer \o SubSeq(toClient, 1, n)
       IN /\ toClient' = SubSeq(toClient, n + 1, Len(toClient))
          /\ HandleMessages(Lines(buffer))
          /\ clientBuffer' = Rest(buffer)
  /\ UNCHANGED <<socket, subscribed, toDaemon, daemonBuffer, open, sent, pushes>>

\* close(): the socket is ended, its promises stay pending for now.
Close ==
  /\ socket = "open"
  /\ socket' = "ended"
  /\ UNCHANGED <<promise, subscribed, toDaemon, daemonBuffer, toClient, clientBuffer, open,
                 sent, handled, seen, pushes>>

\* Fault: a connection that closes leaves its promises as they are.
KeepPending == promise

\* The 'close' event rejects what is pending.
RejectAll == [r \in Requests |-> IF promise[r] = "pending" THEN "rejected" ELSE promise[r]]

\* The connection is gone: after close(), or because the daemon died or ended
\* it.  What was still on its way is lost.
Closed ==
  /\ socket # "closed"
  /\ socket' = "closed"
  /\ promise' = RejectAll
  /\ toDaemon' = <<>> /\ daemonBuffer' = <<>> /\ toClient' = <<>> /\ open' = {}
  /\ UNCHANGED <<subscribed, clientBuffer, sent, handled, seen, pushes>>

-----------------------------------------------------------------------------
(* The daemon's end of the connection.                                     *)

\* A 'data' event of ClientConnection: its complete lines are handled.
DaemonData ==
  /\ socket # "closed"
  /\ \E n \in 1..Len(toDaemon) :
       LET buffer == daemonBuffer \o SubSeq(toDaemon, 1, n)
       IN /\ toDaemon' = SubSeq(toDaemon, n + 1, Len(toDaemon))
          /\ open' = open \cup ToSet(Lines(buffer))
          /\ daemonBuffer' = Rest(buffer)
  /\ UNCHANGED <<socket, promise, subscribed, toClient, clientBuffer, sent, handled, seen, pushes>>

Send(m) ==
  /\ sent' = Append(sent, m)
  /\ toClient' = toClient \o Line(m)

\* The answer to a request; lock.queued does not close it.
Answer(r, type) ==
  /\ socket # "closed" /\ r \in open \cap Requests
  /\ type = "lock.queued" => \A k \in DOMAIN sent : sent[k].id # r
  /\ Send([type |-> type, id |-> r])
  /\ open' = IF type = "lock.queued" THEN open ELSE open \ {r}
  /\ UNCHANGED <<socket, promise, subscribed, toDaemon, daemonBuffer, clientBuffer, handled,
                 seen, pushes>>

\* broadcastStatus and broadcastViolation, to a client that has subscribed.
PushUpdate(m) ==
  /\ socket # "closed" /\ Sub \in open /\ pushes < MaxPushes
  /\ pushes' = pushes + 1
  /\ Send(m)
  /\ UNCHANGED <<socket, promise, subscribed, toDaemon, daemonBuffer, clientBuffer, open,
                 handled, seen>>

IpcNext ==
  \/ Subscribe \/ Unsubscribe \/ ClientData \/ Close \/ Closed \/ DaemonData
  \/ \E r \in Requests : Request(r)
  \/ \E r \in Requests, type \in {"answer", "error", "lock.queued"} : Answer(r, type)
  \/ \E m \in {[type |-> "status.update", id |-> Sub],
               [type |-> "violation.occurred", id |-> 0]} : PushUpdate(m)

\* What is on a socket arrives.  The daemon may take its time to answer.
IpcSpec == IpcInit /\ [][IpcNext]_ipcVars /\ WF_ipcVars(ClientData) /\ WF_ipcVars(DaemonData)

-----------------------------------------------------------------------------

\* However the socket cuts the stream, every line is handled whole, once and
\* in order: a status update never overtakes a lock update sent before it.
HandledInOrder == IsPrefix(handled, sent)

\* A promise is settled by the final answer of its own request or by the end
\* of the connection; a hook that was told lock.queued goes on waiting.
AnswersAreOwn ==
  \A r \in Requests : promise[r] \in {"resolved", "rejected"} =>
    \/ socket = "closed"
    \/ \E k \in DOMAIN handled : handled[k].id = r /\ handled[k].type \in {"answer", "error"}

\* Nobody waits for a connection that has closed.
ClosedSettlesAll ==
  socket = "closed" => \A r \in Requests : promise[r] # "pending"

\* What the client sees of the daemon is what the daemon said: whole lines in
\* their order, answers to those who asked, an end for everyone.
ClientIsFaithful ==
  /\ IpcTypeOK
  /\ HandledInOrder
  /\ AnswersAreOwn
  /\ ClosedSettlesAll

\* An answer that was sent settles its promise, whatever else is in its chunk.
AnswerSettles ==
  \A r \in Requests :
    (\E k \in DOMAIN sent : sent[k] = [type |-> "answer", id |-> r])
      ~> promise[r] \in {"resolved", "rejected"}

=============================================================================
