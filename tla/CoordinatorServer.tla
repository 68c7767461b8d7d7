--------------------------- MODULE CoordinatorServer ---------------------------
(***************************************************************************)
(* The TCP server around the coordinator: net_server.rs, net.rs and the    *)
(* SignerClient of client.rs.  Every connection has a server thread that   *)
(* reads a request, takes the coordinator's mutex, calls it and answers.   *)
(* The handler of a Share keeps the mutex over two calls, submit_share and *)
(* aggregate, which are two steps here.  TCP streams are FIFO; a request   *)
(* carries the client's number for it, and the answer repeats that number, *)
(* which the wire format does not do: it is there to state properties.     *)
(* The embedding program runs the reaper on the same mutex.                *)
(***************************************************************************)
EXTENDS Coordinator

CONSTANTS
  Conns,        \* connections; a signer may use several, one after another
  NoConn,       \* the mutex is free
  MaxRequests,  \* bound: requests sent on one connection
  MaxTimeouts,  \* bound: read timeouts that fire
  MaxCloses     \* bound: connections the clients drop

ASSUME ServerAssumption ==
  /\ NoConn \notin Conns
  /\ MaxRequests \in Nat
  /\ MaxTimeouts \in Nat
  /\ MaxCloses \in Nat

VARIABLES
  lock,      \* the thread that holds the mutex between two steps
  thread,    \* the server thread of a connection
  inbox,     \* the stream from client to server
  outbox,    \* the stream from server to client
  client,    \* the SignerClient of a connection
  timeouts   \* read timeouts so far

server_vars == <<lock, thread, inbox, outbox, client, timeouts>>
all_vars == <<vars, server_vars>>

Requests ==
  [op : {"Register"}] \cup
  [op : {"CreateSession"}, threshold : Thresholds] \cup
  [op : {"Commitment", "Share"}, id : 0 .. next_id, signer : Signers] \cup
  [op : {"GetStatus"}, id : 0 .. next_id]

NoRequest == [op |-> "None"]
NoAnswer == [kind |-> "None", n |-> 0]

(* The SignerClient: the call it is in, whether a read timeout is set on   *)
(* its stream, and the answer its last call took (`n` is the call's).      *)
FreshClient ==
  [call |-> NoRequest, n |-> 0, timed |-> FALSE, open |-> TRUE,
   last |-> NoRequest, answer |-> NoAnswer]

ServerInit ==
  /\ Init
  /\ lock = NoConn
  /\ thread = [k \in Conns |-> "recv"]
  /\ inbox = [k \in Conns |-> <<>>]
  /\ outbox = [k \in Conns |-> <<>>]
  /\ client = [k \in Conns |-> FreshClient]
  /\ timeouts = 0

-----------------------------------------------------------------------------
(* The bound on sessions, counting the requests still under way. *)
CreateRoom ==
  next_id + Cardinality({c \in Conns :
    \E i \in 1 .. Len(inbox[c]) : inbox[c][i].request.op = "CreateSession"})
  < MaxSessions

(* The client's half of register, create_session, submit_commitment,       *)
(* submit_share and get_status.  The two submissions set a read timeout of *)
(* 5 s, which stays on the stream for every later call.                    *)
Send(k, r) ==
  /\ client[k].open
  /\ client[k].call = NoRequest
  /\ client[k].n < MaxRequests
  /\ r.op = "CreateSession" => CreateRoom
  /\ client' = [client EXCEPT
       ![k].call = r,
       ![k].n = @ + 1,
       ![k].timed = @ \/ r.op \in {"Commitment", "Share"}]
  /\ inbox' = [inbox EXCEPT
       ![k] = Append(@, [request |-> r, n |-> client[k].n + 1])]
  /\ UNCHANGED <<vars, lock, thread, outbox, timeouts>>

(* recv_message returns the next answer on the stream, whatever call it    *)
(* was sent for.                                                           *)
Receive(k) ==
  /\ client[k].call # NoRequest
  /\ outbox[k] # <<>>
  /\ client' = [client EXCEPT
       ![k].call = NoRequest,
       ![k].last = client[k].call,
       ![k].answer = Head(outbox[k])]
  /\ outbox' = [outbox EXCEPT ![k] = Tail(@)]
  /\ UNCHANGED <<vars, lock, thread, inbox, timeouts>>

(* The read timeout fires, before the answer is sent or while it is on its *)
(* way: submit_share returns Ok(None), the others fail.                    *)
TimeOut(k) ==
  /\ client[k].call # NoRequest
  /\ client[k].timed
  /\ timeouts < MaxTimeouts
  /\ timeouts' = timeouts + 1
  /\ client' = [client EXCEPT
       ![k].call = NoRequest,
       ![k].last = client[k].call,
       ![k].answer = [kind |-> "TimedOut", n |-> client[k].n]]
  /\ UNCHANGED <<vars, lock, thread, inbox, outbox>>

(* The client goes away, whether or not it is in a call. *)
Close(k) ==
  /\ client[k].open
  /\ Cardinality({c \in Conns : ~client[c].open}) < MaxCloses
  /\ client' = [client EXCEPT ![k].open = FALSE, ![k].call = NoRequest]
  /\ outbox' = [outbox EXCEPT ![k] = <<>>]
  /\ UNCHANGED <<vars, lock, thread, inbox, timeouts>>

-----------------------------------------------------------------------------
(* send_message: to a client that is gone it fails, which ends the thread, *)
(* or still succeeds into the socket's buffer.                             *)
Answer(k, kind) ==
  /\ inbox' = [inbox EXCEPT ![k] = Tail(@)]
  /\ IF client[k].open
     THEN /\ outbox' = [outbox EXCEPT
               ![k] = Append(@, [kind |-> kind, n |-> Head(inbox[k]).n])]
          /\ thread' = [thread EXCEPT ![k] = "recv"]
     ELSE /\ outbox' = outbox
          /\ \E next \in {"recv", "ended"} :
               thread' = [thread EXCEPT ![k] = next]
  /\ UNCHANGED <<client, timeouts>>

(* handle_connection has read a request of this kind and process_message   *)
(* finds the mutex free.                                                   *)
Handling(k, op) ==
  /\ thread[k] = "recv"
  /\ inbox[k] # <<>>
  /\ Head(inbox[k]).request.op = op
  /\ lock = NoConn

(* Register is answered without the mutex and leaves no trace. *)
HandleRegister(k) ==
  /\ thread[k] = "recv"
  /\ inbox[k] # <<>>
  /\ Head(inbox[k]).request.op = "Register"
  /\ Answer(k, "Registered")
  /\ UNCHANGED <<vars, lock>>

HandleCreateSession(k) ==
  /\ Handling(k, "CreateSession")
  /\ \E w \in Windows : CreateSession(Head(inbox[k]).request.threshold, w)
  /\ Answer(k, "SessionCreated")
  /\ UNCHANGED lock

(* Mutant of HandleCommitment: the verdict is dropped. *)
HandleCommitmentAlwaysAck(k) ==
  LET r == Head(inbox[k]).request
  IN /\ Handling(k, "Commitment")
     /\ SubmitCommitment(r.id, r.signer)
     /\ Answer(k, "Ack")
     /\ UNCHANGED lock

HandleCommitment(k) ==
  LET r == Head(inbox[k]).request
  IN /\ Handling(k, "Commitment")
     /\ SubmitCommitment(r.id, r.signer)
     /\ Answer(k, IF CommitmentVerdict(r.id, r.signer) = "Ok"
                  THEN "Ack" ELSE "Error")
     /\ UNCHANGED lock

(* Mutant of HandleShare: the mutex is released before `aggregate`. *)
HandleShareUnlocked(k) ==
  LET r == Head(inbox[k]).request
  IN /\ Handling(k, "Share")
     /\ SubmitShare(r.id, r.signer)
     /\ UNCHANGED lock
     /\ IF ShareVerdict(r.id, r.signer) # "Ok" THEN Answer(k, "Error")
        ELSE IF Len(sessions[r.id].shares) + 1 < sessions[r.id].threshold
        THEN Answer(k, "Ack")
        ELSE /\ thread' = [thread EXCEPT ![k] = "aggregate"]
             /\ UNCHANGED <<inbox, outbox, client, timeouts>>

(* Share: submit_share, then the counts under the same lock; with T shares *)
(* the thread goes on to `aggregate` without letting go of the mutex.      *)
HandleShare(k) ==
  LET r == Head(inbox[k]).request
  IN /\ Handling(k, "Share")
     /\ SubmitShare(r.id, r.signer)
     /\ IF ShareVerdict(r.id, r.signer) # "Ok"
        THEN Answer(k, "Error") /\ UNCHANGED lock
        ELSE IF Len(sessions[r.id].shares) + 1 < sessions[r.id].threshold
        THEN Answer(k, "Ack") /\ UNCHANGED lock
        ELSE /\ lock' = k
             /\ thread' = [thread EXCEPT ![k] = "aggregate"]
             /\ UNCHANGED <<inbox, outbox, client, timeouts>>

(* Mutant of HandleAggregate: the session is completed in place. *)
HandleAggregateInPlace(k) ==
  /\ thread[k] = "aggregate"
  /\ sessions' = [sessions EXCEPT
       ![Head(inbox[k]).request.id].state = "Completed"]
  /\ lock' = NoConn
  /\ Answer(k, "Signature")
  /\ UNCHANGED <<clock, next_id, audit, signatures>>

(* Mutant of HandleAggregate: the mutex is never released. *)
HandleAggregateKeepsLock(k) ==
  /\ thread[k] = "aggregate"
  /\ Aggregate(Head(inbox[k]).request.id)
  /\ Answer(k, "Signature")
  /\ UNCHANGED lock

HandleAggregate(k) ==
  /\ thread[k] = "aggregate"
  /\ Aggregate(Head(inbox[k]).request.id)
  /\ lock' = NoConn
  /\ Answer(k, "Signature")

(* GetStatus, and in the same way HealthCheck, only read. *)
HandleGetStatus(k) ==
  /\ Handling(k, "GetStatus")
  /\ Answer(k, "Status")
  /\ UNCHANGED <<vars, lock>>

Handle(k) ==
  \/ HandleRegister(k)
  \/ HandleCreateSession(k)
  \/ HandleCommitment(k)
  \/ HandleShare(k)
  \/ HandleAggregate(k)
  \/ HandleGetStatus(k)

ReapLocked ==
  /\ lock = NoConn
  /\ Reap
  /\ UNCHANGED server_vars

ServerNext ==
  \/ \E k \in Conns, r \in Requests : Send(k, r)
  \/ \E k \in Conns : Receive(k)
  \/ \E k \in Conns : TimeOut(k)
  \/ \E k \in Conns : Close(k)
  \/ \E k \in Conns : Handle(k)
  \/ ReapLocked
  \/ Tick /\ UNCHANGED server_vars

ServerSpec == ServerInit /\ [][ServerNext]_all_vars

(* Every thread keeps running, and a client reads what it waits for. *)
ServerFairness ==
  \A k \in Conns : WF_all_vars(Handle(k)) /\ WF_all_vars(Receive(k))

-----------------------------------------------------------------------------
AnswerKind ==
  {"None", "Registered", "SessionCreated", "Ack", "Error", "Signature",
   "Status", "TimedOut"}

AnswerMessage == [kind : AnswerKind, n : Nat]

(* Every request on a stream is one that some client call makes, about a   *)
(* session id that is in use or the next one.                              *)
Streams ==
  /\ lock \in Conns \cup {NoConn}
  /\ thread \in [Conns -> {"recv", "aggregate", "ended"}]
  /\ inbox \in [Conns -> Seq([request : Requests, n : Nat])]
  /\ outbox \in [Conns -> Seq(AnswerMessage)]
  /\ client \in [Conns ->
       [call : Requests \cup {NoRequest}, n : Nat, timed : BOOLEAN,
        open : BOOLEAN, last : Requests \cup {NoRequest},
        answer : AnswerMessage]]
  /\ timeouts \in Nat

(* The mutex is held over two steps exactly by the one thread that is      *)
(* about to aggregate, which still has its request.                        *)
LockDiscipline ==
  \A k \in Conns :
    /\ thread[k] = "aggregate" <=> lock = k
    /\ lock = k =>
         inbox[k] # <<>> /\ Head(inbox[k]).request.op = "Share"

AggregatedEntries(id) ==
  {i \in 1 .. Len(audit[id]) : audit[id][i].event = "Aggregated"}

(* The shares at which the handler of Share aggregates: the threshold, or  *)
(* the first share if the threshold is 0.                                  *)
Needed(s) == IF s.threshold = 0 THEN 1 ELSE s.threshold

(* Through the server a session is signed at most once, and by no more     *)
(* shares than it needs: the thread that takes the T-th share aggregates   *)
(* before any other thread can add one.                                    *)
SignedOnceByThreshold ==
  \A id \in Ids :
    /\ \A i, j \in AggregatedEntries(id) : i = j
    /\ \A sig \in signatures :
         sig.session = id => Len(sig.signers) = Needed(sessions[id])

(* Why: a session that still takes shares is short of what it needs and    *)
(* has not been signed, unless a thread holds the mutex to sign it now.    *)
OpenIsShort ==
  \A id \in Ids :
    sessions[id].state \in {"Pending", "CommitmentsCollected"} =>
      /\ AggregatedEntries(id) = {}
      /\ \/ Len(sessions[id].shares) < Needed(sessions[id])
         \/ \E k \in Conns : lock = k /\ Head(inbox[k]).request.id = id

(* The thread that holds the mutex has a session to sign. *)
HeldIsReady ==
  \A k \in Conns : lock = k =>
    LET id == Head(inbox[k]).request.id
    IN /\ id \in Ids
       /\ sessions[id].state \in {"Pending", "CommitmentsCollected"}
       /\ Len(sessions[id].shares) = Needed(sessions[id])

(* The inductive invariant of the server. *)
ServerInv ==
  /\ CoordinatorInv
  /\ Streams
  /\ LockDiscipline
  /\ OpenIsShort
  /\ HeldIsReady
  /\ SignedOnceByThreshold

(* The server implements the coordinator: whatever its threads, clients,   *)
(* timeouts and closed connections do, the coordinator's variables change  *)
(* only by calls of the coordinator and passes of the reaper.              *)
ImplementsCoordinator == Spec

(* A client that was told its last submission succeeded has it in the      *)
(* session.                                                                *)
Confirmed(k) ==
  LET r == client[k].last
      told == client[k].answer.kind
  IN /\ r.op = "Commitment" /\ told \notin {"Error", "TimedOut"} =>
          r.id \in Ids /\ Submitted(sessions[r.id].commitments, r.signer)
     /\ r.op = "Share" /\ told \in {"Ack", "Signature"} =>
          r.id \in Ids /\ Submitted(sessions[r.id].shares, r.signer)

(* client.rs:105 says of a submission "Wait for Ack or Error": the answer  *)
(* that a call takes from the stream is the one to its own request.        *)
SubmissionConfirmed == \A k \in Conns : Confirmed(k)

(* Until a read times out, whatever the other connections and the reaper   *)
(* do, a submission that was reported accepted is in its session.          *)
ConfirmedUntilTimeout == timeouts = 0 => SubmissionConfirmed

(* submit_share "returns the aggregated signature if this was the T-th     *)
(* share": until a read times out, the call whose share completed the      *)
(* session is told the signature, and no other call is.                    *)
LastShareReturnsSignature ==
  timeouts = 0 =>
    \A k \in Conns :
      LET r == client[k].last
          session == sessions[r.id]
      IN r.op = "Share" /\ client[k].answer.kind # "Error" =>
           (client[k].answer.kind = "Signature"
             <=> /\ Len(session.shares) >= Needed(session)
                 /\ session.shares[Needed(session)] = r.signer)

(* What a client is told is true, until a read times out. *)
AnswersAreTrue == ConfirmedUntilTimeout /\ LastShareReturnsSignature

(* Every call of a client that stays connected returns: no thread keeps    *)
(* the mutex, and no request is left unanswered.                           *)
EveryCallReturns ==
  \A k \in Conns : client[k].call # NoRequest ~> client[k].call = NoRequest
================================================================================
