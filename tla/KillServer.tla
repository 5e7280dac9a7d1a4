----------------------------- MODULE KillServer -----------------------------
(***************************************************************************)
(* src/pykillserver.py: a UDP listener that power-cycles the Z/IP router   *)
(* when a datagram carries the reboot phrase.                              *)
(*                                                                         *)
(* The network between the senders and the socket may lose, duplicate    *)
(* and reorder datagrams (inflight, with a bounded number of copies).     *)
(* The kernel receive buffer of the socket is a FIFO of BufCap datagrams  *)
(* that drops what arrives when it is full.  The server loop takes one    *)
(* datagram per iteration and, for the reboot phrase, blocks in           *)
(* subprocess.call until kill_ziprouter returns.                          *)
(***************************************************************************)
EXTENDS Integers, Sequences, SequencesExt, FiniteSets

CONSTANTS
    RebootPhrase,   \* the payload "Sam says 'Reboot!'"
    Payloads,       \* payloads senders put in datagrams
    PyMajor,        \* major version of the interpreter running the script
    MaxSends,       \* bound on datagrams sent
    MaxCopies,      \* bound on copies of one datagram the network delivers
    BufCap          \* datagrams the socket receive buffer holds

ASSUME RebootPhrase \in Payloads /\ PyMajor \in {2, 3}

VARIABLES
    sent,       \* datagrams sent so far (their ids are 1..sent)
    inflight,   \* datagrams in the network
    copies,     \* copies of each datagram delivered to the socket
    queue,      \* the socket receive buffer
    srv,        \* the loop: waiting in recvfrom or blocked in the kill call
    kills       \* kill calls that have returned (history)

vars == <<sent, inflight, copies, queue, srv, kills>>

Ids == 1..MaxSends
Datagram == [id : Ids, payload : Payloads]

\* Mutant: the payload test is dropped.
IsRebootAny(payload) == TRUE

\* Line 15: data == "Sam says 'Reboot!'".  Under Python 3, recvfrom returns
\* bytes and a bytes object never equals a str literal.
IsReboot(payload) == PyMajor = 2 /\ payload = RebootPhrase

Init ==
    /\ sent = 0
    /\ inflight = {}
    /\ copies = [i \in Ids |-> 0]
    /\ queue = <<>>
    /\ srv = [state |-> "recv", req |-> 0]
    /\ kills = 0

-----------------------------------------------------------------------------
(* The environment: senders and the network.                               *)

Send(p) ==
    /\ sent < MaxSends
    /\ sent' = sent + 1
    /\ inflight' = inflight \cup {[id |-> sent + 1, payload |-> p]}
    /\ UNCHANGED <<copies, queue, srv, kills>>

\* A copy reaches the socket (the datagram may stay in the network and be
\* delivered again); a full receive buffer drops it.
Deliver(d) ==
    /\ copies[d.id] < MaxCopies
    /\ copies' = [copies EXCEPT ![d.id] = @ + 1]
    /\ queue' = IF Len(queue) < BufCap THEN Append(queue, d) ELSE queue
    /\ \/ inflight' = inflight \ {d}
       \/ inflight' = inflight
    /\ UNCHANGED <<sent, srv, kills>>

Lose(d) ==
    /\ inflight' = inflight \ {d}
    /\ UNCHANGED <<sent, copies, queue, srv, kills>>

-----------------------------------------------------------------------------
(* The server loop, lines 12-19.                                           *)

\* Lines 13-19: recvfrom returns the oldest datagram; the reboot phrase
\* starts kill_ziprouter, anything else is ignored.
Receive ==
    LET d == Head(queue) IN
    /\ srv.state = "recv"
    /\ queue # <<>>
    /\ queue' = Tail(queue)
    /\ srv' = IF IsReboot(d.payload) THEN [state |-> "kill", req |-> d.id] ELSE srv
    /\ UNCHANGED <<sent, inflight, copies, kills>>

\* Line 17: subprocess.call returns and the loop goes back to recvfrom.
KillReturns ==
    /\ srv.state = "kill"
    /\ kills' = kills + 1
    /\ srv' = [state |-> "recv", req |-> 0]
    /\ UNCHANGED <<sent, inflight, copies, queue>>

Next ==
    \/ \E p \in Payloads : Send(p)
    \/ \E d \in inflight : Deliver(d) \/ Lose(d)
    \/ Receive
    \/ KillReturns

\* The loop runs forever and kill_ziprouter returns: both steps of the
\* server are weakly fair.  The senders and the network are not.
Spec == Init /\ [][Next]_vars /\ WF_vars(Receive) /\ WF_vars(KillReturns)

-----------------------------------------------------------------------------
(* Properties.                                                             *)

\* The accepted reboot requests not yet served: the one whose kill call is
\* running, then the reboot datagrams in the socket buffer, oldest first.
\* A datagram counts as a request by its payload, whatever line 15 makes
\* of it.
Pending ==
    (IF srv.state = "kill" THEN <<srv.req>> ELSE <<>>)
    \o [k \in DOMAIN SelectSeq(queue, LAMBDA d : d.payload = RebootPhrase) |->
          SelectSeq(queue, LAMBDA d : d.payload = RebootPhrase)[k].id]

RS == INSTANCE RebootService WITH pending <- Pending, cycles <- kills

\* The server loop (lines 12-19) behind the socket buffer is the reboot
\* service: a reboot datagram the kernel queues is accepted, recvfrom
\* and the payload test neither drop, reorder nor invent a request, every
\* kill call serves the oldest one (duplicates are served again), and,
\* the loop and kill_ziprouter being fair, every accepted request is
\* eventually served.
ImplementsRebootService == RS!Spec

=============================================================================
