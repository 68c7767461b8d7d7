------------------------------- MODULE WalStreamer -------------------------------
(***************************************************************************)
(* WalStreamer of privacy_and_dist_patterns.rs: entries, the subscribers'  *)
(* cursors and the next number, each under a lock of its own that no call  *)
(* holds from one part to the next.  append numbers an entry and then      *)
(* pushes it; subscribe reads the last number, pushes a cursor and then    *)
(* reads how many there are; stream_since reads the cursor and then the    *)
(* entries.  A consumer makes one call at a time.                          *)
(***************************************************************************)
EXTENDS Naturals, Sequences, Functions, FiniteSets

CONSTANTS
  Writers,
  Consumers,
  MaxStream,    \* bound: entries
  MaxReturned   \* bound: a consumer that was returned this much stops

VARIABLES
  entries,      \* the numbers of the entries, in the order pushed
  subscribers,  \* the cursors
  stream_seq,   \* next_seq
  numbered,     \* per writer: the number it took and has not pushed, or 0
  consumer,     \* per consumer: where its call is and what it knows
  got           \* per consumer: what stream_since returned, in order

streamVars ==
  <<entries, subscribers, stream_seq, numbered, consumer, got>>

(* at: "new", then in subscribe "looked" and "pushed", then "idle" and     *)
(* "reading" in turns.  start is where its subscription begins, crossed    *)
(* says that another's subscribe ran during its own (history).             *)
NewConsumer ==
  [at |-> "new", start |-> 0, id |-> 0, last_seen |-> 0, crossed |-> FALSE]

StreamInit ==
  /\ entries = <<>>
  /\ subscribers = <<>>
  /\ stream_seq = 1
  /\ numbered = [w \in Writers |-> 0]
  /\ consumer = [c \in Consumers |-> NewConsumer]
  /\ got = [c \in Consumers |-> <<>>]

-----------------------------------------------------------------------------
TakeNumber(w) ==
  /\ numbered[w] = 0
  /\ stream_seq <= MaxStream
  /\ numbered' = [numbered EXCEPT ![w] = stream_seq]
  /\ stream_seq' = stream_seq + 1
  /\ UNCHANGED <<entries, subscribers, consumer, got>>

PushEntry(w) ==
  /\ numbered[w] # 0
  /\ entries' = Append(entries, numbered[w])
  /\ numbered' = [numbered EXCEPT ![w] = 0]
  /\ UNCHANGED <<subscribers, stream_seq, consumer, got>>

Look(c) ==
  /\ consumer[c].at = "new"
  /\ consumer' = [consumer EXCEPT
       ![c] = [@ EXCEPT !.at = "looked",
                        !.start = IF entries = <<>> THEN 0 ELSE entries[Len(entries)]]]
  /\ UNCHANGED <<entries, subscribers, stream_seq, numbered, got>>

WithCursor(seq) == Append(subscribers, seq)

(* A consumer that has yet to count the cursors is crossed by this push. *)
PushCursor(c) ==
  /\ consumer[c].at = "looked"
  /\ subscribers' = WithCursor(consumer[c].start)
  /\ consumer' = [d \in Consumers |->
       [consumer[d] EXCEPT !.at = IF d = c THEN "pushed" ELSE @,
                           !.crossed = @ \/ consumer[d].at = "pushed"]]
  /\ UNCHANGED <<entries, stream_seq, numbered, got>>

(* subscribe returns the index of the last cursor. *)
TakeId(c) ==
  /\ consumer[c].at = "pushed"
  /\ consumer' = [consumer EXCEPT
       ![c] = [@ EXCEPT !.at = "idle", !.id = Len(subscribers)]]
  /\ UNCHANGED <<entries, subscribers, stream_seq, numbered, got>>

ReadCursor(c) ==
  /\ consumer[c].at = "idle"
  /\ Len(got[c]) < MaxReturned
  /\ consumer' = [consumer EXCEPT
       ![c] = [@ EXCEPT !.at = "reading",
                        !.last_seen = subscribers[consumer[c].id]]]
  /\ UNCHANGED <<entries, subscribers, stream_seq, numbered, got>>

(* What a filter keeps of a vector: the elements at the indices I, in      *)
(* order, each at the place that its rank among them gives.                *)
Rank(I, i) == Cardinality({j \in I : j <= i})
Nth(I, k) == CHOOSE i \in I : Rank(I, i) = k
Kept(s, I) == [k \in 1 .. Cardinality(I) |-> s[Nth(I, k)]]

(* Mutant of NewEntries: the entry at the cursor is taken too. *)
NewEntriesAgain(last_seen) ==
  Kept(entries, {i \in DOMAIN entries : entries[i] >= last_seen})

NewEntries(last_seen) ==
  Kept(entries, {i \in DOMAIN entries : entries[i] > last_seen})

(* The number of the entry pushed last. *)
NextCursor(old) == IF entries = <<>> THEN old ELSE entries[Len(entries)]

(* The rest of stream_since, under the lock on entries. *)
Collect(c) ==
  /\ consumer[c].at = "reading"
  /\ got' = [got EXCEPT ![c] = @ \o NewEntries(consumer[c].last_seen)]
  /\ subscribers' = [subscribers EXCEPT ![consumer[c].id] = NextCursor(@)]
  /\ consumer' = [consumer EXCEPT
       ![c] = [@ EXCEPT !.at = "idle", !.last_seen = 0]]
  /\ UNCHANGED <<entries, stream_seq, numbered>>

StreamNext ==
  \/ \E w \in Writers : TakeNumber(w) \/ PushEntry(w)
  \/ \E c \in Consumers :
       \/ Look(c) \/ PushCursor(c) \/ TakeId(c)
       \/ ReadCursor(c) \/ Collect(c)

StreamerSpec == StreamInit /\ [][StreamNext]_streamVars

-----------------------------------------------------------------------------
Subscribed == {c \in Consumers : consumer[c].at \in {"idle", "reading"}}

(* A consumer's cursor is its own unless another subscribed while it did:  *)
(* subscribe counts the cursors after it has let go of them, and then both *)
(* get the same index and take each other's entries.                       *)
OwnCursorUnlessCrossed ==
  \A c, d \in Subscribed :
    consumer[c].id = consumer[d].id =>
      c = d \/ consumer[c].crossed \/ consumer[d].crossed

(* Entries pushed after one with a larger number: append calls overlapped. *)
Late == {e \in Range(entries) :
           \E i, j \in DOMAIN entries :
             i < j /\ entries[i] > e /\ entries[j] = e}

Alone(c) ==
  /\ ~consumer[c].crossed
  /\ \A d \in Subscribed : consumer[d].id = consumer[c].id => c = d

(* A consumer with a cursor of its own misses no entry, at most those that *)
(* were pushed late: the cursor, the largest number so far, has passed     *)
(* them, and no later call returns them.                                   *)
MissesOnlyLate ==
  \A c \in Subscribed : Alone(c) =>
    {e \in Range(entries) \ Late :
       consumer[c].start < e /\ e <= subscribers[consumer[c].id]}
      \subseteq Range(got[c])

(* While no append has been overtaken, it gets each entry once, in order,  *)
(* from its subscription up to its cursor.  One late entry ends that: it   *)
(* moves the cursor back, and what was returned is returned again.         *)
OnceInOrder ==
  \A c \in Subscribed : Late = {} /\ Alone(c) =>
    got[c] = Kept(entries, {i \in DOMAIN entries :
      /\ consumer[c].start < entries[i]
      /\ entries[i] <= subscribers[consumer[c].id]})

(* Together: a consumer gets what it subscribed to, outside the races      *)
(* named with each.                                                        *)
CursorsDeliver == OwnCursorUnlessCrossed /\ MissesOnlyLate /\ OnceInOrder
==================================================================================
