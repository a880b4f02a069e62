----------------------------- MODULE CharQueue -----------------------------
(***************************************************************************)
(* What the console's circular buffer promises its readers: a queue of     *)
(* characters.  A read gets the oldest character or none.  A character     *)
(* that arrives when the queue is full empties it.                         *)
(***************************************************************************)
EXTENDS Naturals, Sequences

CONSTANTS Char,         \* characters; 0 is no character
          Capacity      \* the characters the queue holds

VARIABLES queue, ret    \* ret is the result of the last read

Init == queue = << >> /\ ret = 0

Arrive(c) == /\ queue' = IF Len(queue) < Capacity THEN Append(queue, c)
                                                  ELSE << >>
             /\ UNCHANGED ret

Get == /\ queue # << >>
       /\ queue' = Tail(queue)
       /\ ret' = Head(queue)

GetNone == ret' = 0 /\ UNCHANGED queue

Next == (\E c \in Char : Arrive(c)) \/ Get \/ GetNone

Spec == Init /\ [][Next]_<<queue, ret>>
=============================================================================
