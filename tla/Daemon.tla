--------------------------------- MODULE Daemon ---------------------------------
(***************************************************************************)
(* confiumd: the accept loop and the connection tasks of server.rs in      *)
(* confium-daemon.  All tasks run on one thread and give way only where    *)
(* they wait: for a connection, for a message, for a socket that takes no  *)
(* more bytes.  No handler waits, so a message is read, processed and      *)
(* mostly answered in one step.  run_tcp drops the task set when the       *)
(* accept loop returns, and with it every connection.                      *)
(*                                                                         *)
(* A message is [fault, method, id]: what is wrong with its frame or its   *)
(* envelope, which method it names, and whether it has an id.  One that    *)
(* ends before its length is read like the end of the stream.  A reply is  *)
(* the number of the message on its connection that it answers.            *)
(***************************************************************************)
EXTENDS Integers, Sequences, FiniteSetsExt

CONSTANTS
  Peers,         \* the clients, with one connection each
  Messages,      \* what a client may send
  MaxSent        \* how many messages the clients send, all together

VARIABLES
  conn,          \* the connection of each client: new, queued, serving,
                 \* writing or ended
  gone,          \* the clients that closed their end
  unread,        \* the messages sent and not read
  taken,         \* the messages read, in order
  replies,       \* the replies written, in order
  cancelled,     \* the cancellation token
  daemon,        \* running or exited
  atCancel,      \* history: the messages read when the token was set
  cut            \* history: the connections dropped while they wrote

daemonVars == <<conn, gone, unread, taken, replies, cancelled, daemon, atCancel, cut>>

DaemonInit ==
  /\ conn = [p \in Peers |-> "new"]
  /\ gone = {}
  /\ unread = [p \in Peers |-> <<>>]
  /\ taken = [p \in Peers |-> <<>>]
  /\ replies = [p \in Peers |-> <<>>]
  /\ cancelled = FALSE
  /\ daemon = "running"
  /\ atCancel = [p \in Peers |-> 0]
  /\ cut = {}

Becomes(p, state) == conn' = [conn EXCEPT ![p] = state]

-----------------------------------------------------------------------------
(* The clients: they connect, send, and close. *)
Connect(p) ==
  /\ conn[p] = "new" /\ daemon = "running"
  /\ Becomes(p, "queued")
  /\ UNCHANGED <<gone, unread, taken, replies, cancelled, daemon, atCancel, cut>>

SentBy(p) == Len(unread[p]) + Len(taken[p])

SendMessage(p, m) ==
  /\ conn[p] \notin {"new", "ended"} /\ p \notin gone
  /\ MapThenSumSet(SentBy, Peers) < MaxSent
  /\ unread' = [unread EXCEPT ![p] = Append(@, m)]
  /\ UNCHANGED <<conn, gone, taken, replies, cancelled, daemon, atCancel, cut>>

Hang(p) ==
  /\ conn[p] \notin {"new", "ended"} /\ p \notin gone
  /\ gone' = gone \cup {p}
  /\ UNCHANGED <<conn, unread, taken, replies, cancelled, daemon, atCancel, cut>>

-----------------------------------------------------------------------------
(* serve_tcp and serve_unix: the token is looked at before the listener.   *)
Accept(p) ==
  /\ daemon = "running" /\ ~cancelled
  /\ conn[p] = "queued"
  /\ Becomes(p, "serving")
  /\ UNCHANGED <<gone, unread, taken, replies, cancelled, daemon, atCancel, cut>>

(* run_tcp and run_unix return, because the token is set or an accept      *)
(* failed: the connections are dropped where they are.                     *)
Exit ==
  /\ daemon' = "exited"
  /\ conn' = [p \in Peers |-> "ended"]
  /\ cut' = {p \in Peers : conn[p] = "writing"}
  /\ UNCHANGED <<gone, unread, taken, replies, cancelled, atCancel>>

StopDaemon == daemon = "running" /\ cancelled /\ Exit

AcceptFails == daemon = "running" /\ ~cancelled /\ Exit

-----------------------------------------------------------------------------
(* A reply is due to a message that cannot be parsed, to one of another    *)
(* version, and to one with an id; a notification gets none, also for a    *)
(* method that is not in the table.                                        *)
ReplyDue(m) == m.fault \in {"garbled", "version"} \/ m.id

(* process sets the token for the shutdown method, once its handler ran. *)
Cancels(m) == m.fault = "none" /\ m.method = "shutdown"

(* drive_connection goes back to read unless the token is set. *)
LoopsOn(stopping) == ~stopping

AfterMessage(stopping) == IF LoopsOn(stopping) THEN "serving" ELSE "ended"

(* Mutant of Answers: the token is looked at before the reply is written. *)
AnswersUnlessStopping(m, stopping) == ReplyDue(m) /\ ~stopping

Answers(m, stopping) == ReplyDue(m)

(* The end of a step of drive_connection that has a reply: it is written,  *)
(* the socket takes no more bytes for now, or the client is gone.          *)
WriteReply(p, number, stopping) ==
  \/ /\ replies' = [replies EXCEPT ![p] = Append(@, number)]
     /\ Becomes(p, AfterMessage(stopping))
  \/ Becomes(p, "writing") /\ UNCHANGED replies
  \/ p \in gone /\ Becomes(p, "ended") /\ UNCHANGED replies

(* One round of drive_connection: a message is read and processed. *)
HandleMessage(p) ==
  LET m == Head(unread[p])
      stopping == cancelled \/ Cancels(m)
  IN /\ daemon = "running" /\ conn[p] = "serving"
     /\ unread[p] # <<>> /\ m.fault # "oversized"
     /\ unread' = [unread EXCEPT ![p] = Tail(@)]
     /\ taken' = [taken EXCEPT ![p] = Append(@, m)]
     /\ cancelled' = stopping
     /\ atCancel' = IF stopping /\ ~cancelled
                    THEN [q \in Peers |-> Len(taken'[q])] ELSE atCancel
     /\ IF Answers(m, stopping) THEN WriteReply(p, Len(taken'[p]), stopping)
        ELSE Becomes(p, AfterMessage(stopping)) /\ UNCHANGED replies
     /\ UNCHANGED <<gone, daemon, cut>>

(* The socket takes the rest of the reply, or the client is gone. *)
ResumeWrite(p) ==
  /\ daemon = "running" /\ conn[p] = "writing"
  /\ \/ /\ replies' = [replies EXCEPT ![p] = Append(@, Len(taken[p]))]
        /\ Becomes(p, AfterMessage(cancelled))
     \/ p \in gone /\ Becomes(p, "ended") /\ UNCHANGED replies
  /\ UNCHANGED <<gone, unread, taken, cancelled, daemon, atCancel, cut>>

(* read_length_prefixed ends the connection: at the end of the stream, or  *)
(* at a length beyond the limit.                                           *)
EndRead(p) ==
  /\ daemon = "running" /\ conn[p] = "serving"
  /\ IF unread[p] = <<>> THEN p \in gone ELSE Head(unread[p]).fault = "oversized"
  /\ Becomes(p, "ended")
  /\ UNCHANGED <<gone, unread, taken, replies, cancelled, daemon, atCancel, cut>>

DaemonNext ==
  \/ \E p \in Peers :
       \/ Connect(p)
       \/ \E m \in Messages : SendMessage(p, m)
       \/ Hang(p)
       \/ Accept(p)
       \/ HandleMessage(p)
       \/ ResumeWrite(p)
       \/ EndRead(p)
  \/ StopDaemon
  \/ AcceptFails

DaemonSpec == DaemonInit /\ [][DaemonNext]_daemonVars

-----------------------------------------------------------------------------
(* The numbers of the messages read on a connection that a reply is due to. *)
DueReplies(p) == {n \in DOMAIN taken[p] : ReplyDue(taken[p][n])}

(* Every message that was read is answered once, in order, if a reply is   *)
(* due.  Only that to the last one may be missing: while its write waits   *)
(* for the socket, or for good, if the client is gone or the daemon exited *)
(* during the wait.  In particular the reply to shutdown, which is written *)
(* after the token is set, is not lost otherwise.                          *)
AnsweredInOrder ==
  \A p \in Peers :
    /\ \A i, j \in DOMAIN replies[p] : i < j => replies[p][i] < replies[p][j]
    /\ \/ Range(replies[p]) = DueReplies(p)
       \/ /\ conn[p] = "writing" \/ p \in gone \cup cut
          /\ Range(replies[p]) = DueReplies(p) \ {Len(taken[p])}

(* Once the token is set no connection reads more than one further         *)
(* message, however many its client has sent ahead.                        *)
OneMoreMessage ==
  cancelled => \A p \in Peers : Len(taken[p]) <= atCancel[p] + 1

(* Both: what a client may count on around a shutdown. *)
AnsweredUntilShutdown == AnsweredInOrder /\ OneMoreMessage
=================================================================================
