---------------------------- MODULE EventJournal ----------------------------
(***************************************************************************)
(* What the backend promises about the events it publishes: what viewers   *)
(* are shown can be replayed, as long as the database is connected and     *)
(* takes records of that type; nothing is shown twice; an alarm or a       *)
(* decision about an event is shown after it; and nothing is kept without  *)
(* the decision that let it through.                                       *)
(***************************************************************************)
EXTENDS Sequences

CONSTANTS
  Record,             \* events and decisions, of every type
  Recorded(_),        \* the database takes a record of this type
  Founded(_, _),      \* a set of records holds the decision behind a record
  Announced(_, _)     \* a set of records holds the event a record is about

VARIABLES
  open,    \* the database is connected
  kept,    \* the records it holds
  shown    \* the records viewers were sent, in order

Shown == {shown[k] : k \in DOMAIN shown}

Init ==
  /\ open \in BOOLEAN
  /\ kept = {}
  /\ shown = <<>>

(* A record is written, on what it rests on; the connection may be lost    *)
(* over it.                                                                *)
Keep(e) ==
  /\ open /\ Recorded(e)
  /\ kept' = kept \cup {e}
  /\ Founded(e, kept)
  /\ open' \in BOOLEAN
  /\ UNCHANGED shown

(* A record is shown, for the first time and kept if it can be.            *)
Show(e) ==
  /\ shown' = Append(shown, e)
  /\ e \notin Shown /\ Announced(e, Shown)
  /\ Recorded(e) /\ open => e \in kept
  /\ UNCHANGED <<open, kept>>

(* The connection is lost, or a restart opens it again.                    *)
Reconnect ==
  /\ open' \in BOOLEAN
  /\ UNCHANGED <<kept, shown>>

Next == Reconnect \/ \E e \in Record : Keep(e) \/ Show(e)

Spec == Init /\ [][Next]_<<open, kept, shown>>
=============================================================================
