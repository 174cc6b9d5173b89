---------------------------- MODULE WatchAbstract ----------------------------
(***************************************************************************)
(* What a watch promises its client (spec.md 4.4): the client receives    *)
(* the changes of the watched key in index order with no gap, starting    *)
(* at the historic event of waitIndex (index 0) or at the first change    *)
(* after registration; a watch without stream ends with its one event;   *)
(* a watch that has ended delivers nothing more, and every watch ends.   *)
(* No channel, hub or select appears here.                               *)
(***************************************************************************)
EXTENDS Naturals, Sequences, SequencesExt

CONSTANTS MaxEvents

VARIABLES
  events,     \* matching changes of the watched key so far
  delivered,  \* event indexes the client has received, in order
  open,       \* the watch has not ended
  stream      \* the client asked for a stream

avars == <<events, delivered, open, stream>>

\* The index the client may receive next.
NextIndexes ==
  IF delivered = << >> THEN {0, 1} ELSE {Last(delivered) + 1}

Change ==
  /\ events < MaxEvents
  /\ events' = events + 1
  /\ UNCHANGED <<delivered, open, stream>>

\* The client receives the next event; without stream the watch ends with it.
Deliver ==
  /\ open
  /\ \E e \in NextIndexes :
       /\ e <= events
       /\ delivered' = Append(delivered, e)
  /\ open' = stream
  /\ UNCHANGED <<events, stream>>

End ==
  /\ open
  /\ open' = FALSE
  /\ UNCHANGED <<events, delivered, stream>>

Init ==
  /\ events = 0
  /\ delivered = << >>
  /\ open = TRUE
  /\ stream \in BOOLEAN

Next == Change \/ Deliver \/ End

Spec == Init /\ [][Next]_avars /\ WF_avars(End)

=============================================================================
