----------------------------- MODULE MessageLog -----------------------------
(***************************************************************************)
(* What a group of page files promises: an append-only log of messages and *)
(* readers that each follow it from some position on.  A message is its    *)
(* rank in the log.                                                        *)
(***************************************************************************)
EXTENDS Integers

CONSTANT Readers

VARIABLES
  published,  \* number of messages in the log
  attached,   \* the readers that follow the log
  next,       \* per reader: rank of the message it gets next
  got         \* per reader: the message it got last, -1 if none

logVars == <<published, attached, next, got>>

LogInit ==
  /\ published = 0
  /\ attached = {}
  /\ next = [r \in Readers |-> 0]
  /\ got = [r \in Readers |-> -1]

(* The writer appends one message. *)
Publish ==
  /\ published' = published + 1
  /\ UNCHANGED <<attached, next, got>>

(* A reader joins at a position the log already has. *)
Attach(r) ==
  /\ r \notin attached
  /\ attached' = attached \cup {r}
  /\ next' \in {[next EXCEPT ![r] = n] : n \in 0 .. published}
  /\ UNCHANGED <<published, got>>

(* A reader gets the next message. *)
Deliver(r) ==
  /\ r \in attached
  /\ next[r] < published
  /\ got' = [got EXCEPT ![r] = next[r]]
  /\ next' = [next EXCEPT ![r] = @ + 1]
  /\ UNCHANGED <<published, attached>>

(* A reader goes away. *)
Detach(r) ==
  /\ r \in attached
  /\ attached' = attached \ {r}
  /\ next' = [next EXCEPT ![r] = 0]
  /\ got' = [got EXCEPT ![r] = -1]
  /\ UNCHANGED published

LogNext ==
  \/ Publish
  \/ \E r \in Readers : Attach(r) \/ Deliver(r) \/ Detach(r)

LogSpec == LogInit /\ [][LogNext]_logVars
=============================================================================
