----------------------------- MODULE PacketStream -----------------------------
(***************************************************************************)
(* What a host channel promises to the class that uses it: the packets of  *)
(* one pipe arrive in order, each once, and a URB is reported as done for  *)
(* a packet that has arrived, each packet once.                            *)
(***************************************************************************)
EXTENDS Naturals, Sequences

VARIABLES
  got,   \* the numbers of the packets that arrived at their receiver
  done   \* how many URBs were reported as done

Init == got = <<>> /\ done = 0

\* The next packet arrives.
Arrive == got' = Append(got, Len(got) + 1) /\ UNCHANGED done

\* A URB is reported as done.
Report == done < Len(got) /\ done' = done + 1 /\ UNCHANGED got

Next == Arrive \/ Report

Spec == Init /\ [][Next]_<<got, done>>
===============================================================================
