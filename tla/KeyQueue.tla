------------------------------ MODULE KeyQueue ------------------------------
(***************************************************************************)
(* What the shell expects of the keyboard's buffer: a queue of at most Cap *)
(* characters, which drops a new one exactly when it is full.              *)
(***************************************************************************)
EXTENDS Naturals, Sequences

CONSTANTS Chars, Cap

VARIABLES
  queue,  \* the characters in the order they were typed
  kept    \* was the last character that was put kept?

Init == queue = <<>> /\ kept = TRUE

Put(c) ==
  /\ kept' = (Len(queue) < Cap)
  /\ queue' = IF kept' THEN Append(queue, c) ELSE queue

Get == queue # <<>> /\ queue' = Tail(queue) /\ UNCHANGED kept

Next == (\E c \in Chars : Put(c)) \/ Get

Spec == Init /\ [][Next]_<<queue, kept>>
=============================================================================
