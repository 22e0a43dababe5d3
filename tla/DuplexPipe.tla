----------------------------- MODULE DuplexPipe -----------------------------
(***************************************************************************)
(* What a tunnel promises to the two local sides it connects: a pipe in    *)
(* each direction.  A chunk of data is named by its place in its stream.   *)
(*                                                                         *)
(* A reader that has not stopped writing itself learns of the end only     *)
(* when the other side has stopped and everything it sent has arrived, and *)
(* it is cut off only by a break of the connection.                        *)
(***************************************************************************)
EXTENDS Naturals, Sequences

CONSTANT Endpoints

VARIABLES
  sent,      \* chunks each side has put into the pipe
  received,  \* chunks each side has taken out of it
  writing,   \* the sides that may still send
  reader,    \* "open", "ended", "refused" (by the local side) or "cut"
  broken     \* the connection is lost or was given up

pipeVars == <<sent, received, writing, reader, broken>>

Other(e) == CHOOSE f \in Endpoints : f # e

\* The first n chunks of a stream.
Chunks(n) == [i \in 1 .. n |-> i]

Init ==
  /\ sent = [e \in Endpoints |-> 0]
  /\ received = [e \in Endpoints |-> << >>]
  /\ writing = Endpoints
  /\ reader = [e \in Endpoints |-> "open"]
  /\ broken = FALSE

Send(e) ==
  /\ e \in writing
  /\ sent' = [sent EXCEPT ![e] = @ + 1]
  /\ UNCHANGED <<received, writing, reader, broken>>

\* Some of what is under way arrives, in order.
Receive(e) ==
  /\ reader[e] = "open"
  /\ \E n \in Len(received[e]) + 1 .. sent[Other(e)] :
       received' = [received EXCEPT ![e] = Chunks(n)]
  /\ UNCHANGED <<sent, writing, reader, broken>>

StopWriting(e) ==
  /\ e \in writing
  /\ writing' = writing \ {e}
  /\ UNCHANGED <<sent, received, reader, broken>>

End(e) ==
  /\ reader[e] = "open"
  /\ e \in writing =>
       Other(e) \notin writing /\ Len(received[e]) = sent[Other(e)]
  /\ reader' = [reader EXCEPT ![e] = "ended"]
  /\ UNCHANGED <<sent, received, writing, broken>>

\* The local side does not take what has arrived for it.
Refuse(e) ==
  /\ reader[e] = "open"
  /\ Len(received[e]) < sent[Other(e)]
  /\ reader' = [reader EXCEPT ![e] = "refused"]
  /\ UNCHANGED <<sent, received, writing, broken>>

Cut(e) ==
  /\ reader[e] = "open"
  /\ broken \/ e \notin writing
  /\ reader' = [reader EXCEPT ![e] = "cut"]
  /\ UNCHANGED <<sent, received, writing, broken>>

\* The connection is lost, or a side gives it up and stops with it.
Break(e) ==
  /\ broken' = TRUE
  /\ writing' \in {writing, writing \ {e}}
  /\ UNCHANGED <<sent, received, reader>>

Next ==
  \E e \in Endpoints :
    Send(e) \/ Receive(e) \/ StopWriting(e) \/ End(e) \/ Refuse(e) \/ Cut(e)
      \/ Break(e)

Spec == Init /\ [][Next]_pipeVars
=============================================================================
