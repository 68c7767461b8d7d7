------------------------------- MODULE SessionWal -------------------------------
(***************************************************************************)
(* The coordinator's write-ahead log: wal.rs.  Threads append entries to a *)
(* file of lines; the process or the machine crashes and the log is opened *)
(* again.  The file is a sequence of what single writes put there: entries *)
(* (an entry is known by the number `n` of its append), newlines, and      *)
(* fragments of entries whose write was cut short.  writeln! on a File is  *)
(* two writes, the entry and the newline.  What a transition says is of no *)
(* concern to the log.                                                     *)
(***************************************************************************)
EXTENDS Naturals, Sequences, FiniteSetsExt

CONSTANTS
  Threads,       \* the threads that share the SessionWal
  MaxAppends,    \* bound: calls of append
  MaxCrashes,    \* bound: crashes
  MaxWalFaults,     \* bound: writes and syncs that fail
  MaxTruncates   \* bound: calls of truncate

ASSUME WalAssumption ==
  /\ MaxAppends \in Nat /\ MaxCrashes \in Nat
  /\ MaxWalFaults \in Nat /\ MaxTruncates \in Nat

VARIABLES
  file,       \* the file as the processes see it
  synced,     \* how much of it is certain to survive a crash of the machine
  next_seq,
  thread,     \* per thread: where it is, its entry, and whether it is alone
  acked,      \* entries whose append returned Ok since the last truncate
  intact,     \* those of them that nothing else wrote next to
  overlaps,   \* pairs of appends that were under way at the same time
  raced,      \* an append was under way during the last truncate
  appends, crashes, faults, truncates

walVars == <<file, synced, next_seq, thread, acked, intact, overlaps, raced,
             appends, crashes, faults, truncates>>

Entry(n, seq) == [kind |-> "entry", n |-> n, seq |-> seq]
Newline == [kind |-> "newline", n |-> 0, seq |-> 0]
Fragment == [kind |-> "fragment", n |-> 0, seq |-> 0]

Appending == {"numbered", "written", "ended"}

Resting == [at |-> "idle", entry |-> Newline, alone |-> FALSE]

(* read_all_from_path: the lines that parse are those with one entry and   *)
(* nothing else; the others are skipped.                                   *)
ReadAll(f) ==
  {i \in 1 .. Len(f) :
    /\ f[i].kind = "entry"
    /\ i = 1 \/ f[i - 1] = Newline
    /\ i = Len(f) \/ f[i + 1] = Newline}

(* Mutant of NextSeq: the number of entries, instead of the highest. *)
NextSeqCount(f) == Cardinality(ReadAll(f)) + 1

(* open: the numbering goes on after the highest number in the file. *)
NextSeq(f) == Max({0} \cup {f[i].seq : i \in ReadAll(f)}) + 1

WalInit ==
  /\ file = <<>>
  /\ synced = 0
  /\ next_seq = NextSeq(<<>>)
  /\ thread = [t \in Threads |-> Resting]
  /\ acked = {} /\ intact = {}
  /\ overlaps = {} /\ raced = FALSE
  /\ appends = 0 /\ crashes = 0 /\ faults = 0 /\ truncates = 0

-----------------------------------------------------------------------------
(* append, first part: the mutex is held only to take a number. *)
TakeSeq(t) ==
  /\ thread[t].at = "idle"
  /\ appends < MaxAppends
  /\ appends' = appends + 1
  /\ next_seq' = next_seq + 1
  /\ thread' = [thread EXCEPT
       ![t] = [at |-> "numbered", entry |-> Entry(appends + 1, next_seq),
               alone |-> FALSE]]
  /\ overlaps' = overlaps \cup
       {{thread[u].entry.n, appends + 1} :
          u \in {v \in Threads : thread[v].at \in Appending}}
  /\ raced' = (raced \/ \E u \in Threads : thread[u].at = "truncated")
  /\ UNCHANGED <<file, synced, acked, intact, crashes, faults, truncates>>

EndsLine == file = <<>> \/ file[Len(file)] = Newline

(* The threads after `t` wrote: whoever is in the middle of a line is not  *)
(* alone on it any more.                                                   *)
Disturbed(t, at) ==
  [u \in Threads |->
    IF u = t THEN [thread[t] EXCEPT !.at = at, !.alone = EndsLine]
    ELSE IF thread[u].at = "written" THEN [thread[u] EXCEPT !.alone = FALSE]
    ELSE thread[u]]

WriteEntry(t) ==
  /\ thread[t].at = "numbered"
  /\ file' = Append(file, thread[t].entry)
  /\ thread' = Disturbed(t, "written")
  /\ UNCHANGED <<synced, next_seq, acked, intact, overlaps, raced, appends,
                 crashes, faults, truncates>>

WriteNewline(t) ==
  /\ thread[t].at = "written"
  /\ file' = Append(file, Newline)
  /\ thread' = [thread EXCEPT ![t].at = "ended"]
  /\ UNCHANGED <<synced, next_seq, acked, intact, overlaps, raced, appends,
                 crashes, faults, truncates>>

(* sync_data covers all that was written, and append returns Ok. *)
SyncData(t) ==
  /\ thread[t].at = "ended"
  /\ synced' = Len(file)
  /\ acked' = acked \cup {thread[t].entry}
  /\ intact' = IF thread[t].alone THEN intact \cup {thread[t].entry} ELSE intact
  /\ thread' = [thread EXCEPT ![t] = Resting]
  /\ UNCHANGED <<file, next_seq, overlaps, raced, appends, crashes, faults,
                 truncates>>

(* A write fails, having written nothing or a part, or the sync fails:     *)
(* append returns the error and leaves the file as it is.                  *)
FailAppend(t) ==
  /\ faults < MaxWalFaults
  /\ faults' = faults + 1
  /\ \/ /\ thread[t].at = "numbered"
        /\ file' = Append(file, Fragment)
        /\ thread' = [Disturbed(t, "idle") EXCEPT ![t] = Resting]
     \/ /\ thread[t].at \in Appending
        /\ thread' = [thread EXCEPT ![t] = Resting]
        /\ file' = file
  /\ UNCHANGED <<synced, next_seq, acked, intact, overlaps, raced, appends,
                 crashes, truncates>>

(* truncate: the file first, then, under the mutex, the numbering. *)
TruncateFile(t) ==
  /\ thread[t].at = "idle"
  /\ truncates < MaxTruncates
  /\ truncates' = truncates + 1
  /\ file' = <<>>
  /\ synced' = 0
  /\ acked' = {} /\ intact' = {}
  /\ thread' = [u \in Threads |->
       IF u = t THEN [Resting EXCEPT !.at = "truncated"]
       ELSE [thread[u] EXCEPT !.alone = FALSE]]
  /\ raced' = \E u \in Threads \ {t} : thread[u].at # "idle"
  /\ UNCHANGED <<next_seq, overlaps, appends, crashes, faults>>

ResetSeq(t) ==
  /\ thread[t].at = "truncated"
  /\ next_seq' = 1
  /\ thread' = [thread EXCEPT ![t] = Resting]
  /\ UNCHANGED <<file, synced, acked, intact, overlaps, raced, appends,
                 crashes, faults, truncates>>

(* The process ends and the log is opened again. *)
Reopened(f) ==
  /\ crashes < MaxCrashes
  /\ crashes' = crashes + 1
  /\ file' = f
  /\ next_seq' = NextSeq(f)
  /\ thread' = [t \in Threads |-> Resting]
  /\ UNCHANGED <<acked, intact, overlaps, raced, appends, faults, truncates>>

CrashProcess == Reopened(file) /\ UNCHANGED synced

(* The machine crashes: of what was not synced, a part is lost, and the    *)
(* last write that is not lost may be cut short.                           *)
CrashMachine ==
  \E kept \in synced .. Len(file) :
    \E f \in {SubSeq(file, 1, kept)} \cup
             {Append(SubSeq(file, 1, i), Fragment) :
                i \in {j \in {kept} : j < Len(file) /\ file[j + 1] # Newline}} :
      Reopened(f) /\ synced' = Len(f)

WalNext ==
  \/ \E t \in Threads : TakeSeq(t)
  \/ \E t \in Threads : WriteEntry(t)
  \/ \E t \in Threads : WriteNewline(t)
  \/ \E t \in Threads : SyncData(t)
  \/ \E t \in Threads : FailAppend(t)
  \/ \E t \in Threads : TruncateFile(t)
  \/ \E t \in Threads : ResetSeq(t)
  \/ CrashProcess
  \/ CrashMachine

WalSpec == WalInit /\ [][WalNext]_walVars

-----------------------------------------------------------------------------
Replayed == {file[i] : i \in ReadAll(file)}

(* What survives for sure: an append that returned Ok, that started on a   *)
(* line of its own and whose line nobody else wrote into, is replayed      *)
(* after any crash and whatever later appends, failures and crashes do.    *)
IntactSurvives == intact \subseteq Replayed

(* No two entries that a replay sees have the same number, through crashes *)
(* and truncations, unless an append was under way during the truncate,    *)
(* which resets the numbering after it has emptied the file.               *)
UniqueUnlessRaced ==
  ~raced => \A i, j \in ReadAll(file) : file[i].seq = file[j].seq => i = j

(* wal.rs:16 calls the number monotonic: a replay, which goes through the  *)
(* file in order, sees the numbers increase, except for two appends that   *)
(* overlapped: the mutex is released before the entry is written.          *)
OrderedUnlessOverlapped ==
  ~raced => \A i, j \in ReadAll(file) :
    i < j => \/ file[i].seq < file[j].seq
             \/ {file[i].n, file[j].n} \in overlaps

(* What a replay is good for, all together: it sees every intact append,   *)
(* no number twice, and the numbers in order, outside the two races.       *)
ReplayIsSound ==
  IntactSurvives /\ UniqueUnlessRaced /\ OrderedUnlessOverlapped

(* wal.rs:4-5 says that the replay reconstructs the state up to the last   *)
(* persisted transition: every append that returned Ok is replayed.        *)
AckedIsReplayed == acked \subseteq Replayed
================================================================================
