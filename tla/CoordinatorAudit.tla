--------------------------- MODULE CoordinatorAudit ---------------------------
(***************************************************************************)
(* What the audit log of a session is good for: replaying its entries in   *)
(* order gives back the session.                                           *)
(***************************************************************************)
EXTENDS Coordinator

(* One audit entry applied to the state, commitments and shares so far. *)
Replayed(s, e) ==
  CASE e.event = "CommitmentReceived" ->
         [s EXCEPT !.commitments = Append(@, e.signer),
                   !.state = IF Len(s.commitments) + 1 >= s.threshold
                             THEN "CommitmentsCollected" ELSE @]
    [] e.event = "ShareReceived" -> [s EXCEPT !.shares = Append(@, e.signer)]
    [] e.event = "Aggregated" -> [s EXCEPT !.state = "Completed"]
    [] e.event = "Expired" -> [s EXCEPT !.state = "Expired"]
    [] OTHER -> [s EXCEPT !.state = "Pending", !.created_at = e.at]

Blank(id) ==
  [state |-> "Pending", threshold |-> sessions[id].threshold,
   window |-> sessions[id].window, created_at |-> 0,
   commitments |-> <<>>, shares |-> <<>>]

(* What the first k entries of its log leave of a session. *)
ReplayOf(id) ==
  LET after[k \in 0 .. Len(audit[id])] ==
        IF k = 0 THEN Blank(id) ELSE Replayed(after[k - 1], audit[id][k])
  IN after

(* The audit log is complete: for every session, the entries appended by   *)
(* create_session, the submissions, aggregate and the reaper, replayed in  *)
(* order, give exactly the state, commitments and shares it now has.       *)
AuditReplaysToSession ==
  \A id \in Ids : ReplayOf(id)[Len(audit[id])] = sessions[id]
================================================================================
