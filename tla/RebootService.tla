---------------------------- MODULE RebootService ----------------------------
(***************************************************************************)
(* What the kill server promises, independent of UDP and the socket: a    *)
(* reboot request, once accepted, waits its turn behind the requests       *)
(* accepted before it, and each accepted request power-cycles the router  *)
(* exactly once, in the order they were accepted.  Requests are not        *)
(* merged: two accepted requests are two power cycles.                     *)
(*                                                                         *)
(* pending is the sequence of accepted requests not yet served, cycles the *)
(* number of power cycles done.                                            *)
(***************************************************************************)
EXTENDS Naturals, Sequences

CONSTANT Ids        \* request identifiers

VARIABLES pending, cycles

avars == <<pending, cycles>>

Init == pending = <<>> /\ cycles = 0

\* A request is accepted; it goes to the back of the line.
Request(i) ==
    /\ pending' = Append(pending, i)
    /\ UNCHANGED cycles

\* The oldest accepted request is served by one power cycle.
Cycle ==
    /\ pending # <<>>
    /\ pending' = Tail(pending)
    /\ cycles' = cycles + 1

Next == (\E i \in Ids : Request(i)) \/ Cycle

\* Whoever sends requests may stop; the service may not stop serving.
Spec == Init /\ [][Next]_avars /\ WF_avars(Cycle)
=============================================================================
