----------------------------- MODULE GenSyncHosts -----------------------------
(***************************************************************************)
(* Two GenSync objects, "client" (clientSyncBegin) and "server"            *)
(* (serverSyncBegin), each a single-threaded process that runs one         *)
(* SyncMethod over its communicants in turn.                               *)
(*                                                                         *)
(* An action of a host is what it does from one blocking receive to the    *)
(* next.  A communicant i is a pair of byte streams, chan[i][h] the one    *)
(* towards host h, with an end at each host.  What is common to every      *)
(* SyncMethod is here; the modules that extend this one add the protocols. *)
(***************************************************************************)
EXTENDS Integers, Sequences, FiniteSets

CONSTANTS
    Elem,      \* set elements
    Sessions   \* number of communicants of each GenSync object

Hosts == {"client", "server"}
Other(h) == IF h = "client" THEN "server" ELSE "client"
Rounds == 1..Sessions

ASSUME HostsAssumption ==
    /\ Sessions \in Nat \ {0}
    /\ IsFiniteSet(Elem)

VARIABLES
    data,       \* data[h]: GenSync's myData, which the SyncMethod follows
    pc,         \* pc[h]: the receive at which the host waits
    comm,       \* comm[h]: the communicant in use
    chan, open, \* streams, and which ends are open
    oms,        \* oms[h]: otherMinusSelf
    result,     \* result[h]: what SyncClient or SyncServer returns
    success,    \* success[h]: syncSuccess of clientSyncBegin or serverSyncBegin
    verdict,    \* history: the server's decision on each session
    base        \* history: the sets on which it was taken

history == <<verdict, base>>
hostVars == <<data, pc, comm, chan, open, oms, result, success, history>>

Ended == {"returned", "quit"}

\* The types, given those of the program counters and of the messages.
HostsTypeOK(ClientPC, ServerPC, Message) ==
    /\ data \in [Hosts -> SUBSET Elem]
    /\ pc["client"] \in ClientPC /\ pc["server"] \in ServerPC
    /\ DOMAIN pc = Hosts
    /\ comm \in [Hosts -> Rounds]
    /\ chan \in [Rounds -> [Hosts -> Seq(Message)]]
    /\ open \in [Rounds -> [Hosts -> BOOLEAN]]
    /\ oms \in [Hosts -> SUBSET Elem]
    /\ result \in [Hosts -> BOOLEAN]
    /\ success \in [Hosts -> BOOLEAN]
    /\ verdict \in [Rounds -> {"none", "ok", "fail"}]
    /\ base \in [Rounds -> [Hosts -> SUBSET Elem]]

\* clientSyncBegin and serverSyncBegin before their first session.
HostsInit ==
    /\ data \in [Hosts -> SUBSET Elem]
    /\ pc = [h \in Hosts |-> "begin"]
    /\ comm = [h \in Hosts |-> 1]
    /\ chan = [i \in Rounds |-> [h \in Hosts |-> <<>>]]
    /\ oms = [h \in Hosts |-> {}]
    /\ result = [h \in Hosts |-> TRUE] /\ success = [h \in Hosts |-> TRUE]
    /\ verdict = [i \in Rounds |-> "none"]
    /\ base = [i \in Rounds |-> [h \in Hosts |-> {}]]

(***************************************************************************)
(* Communicant.                                                            *)
(***************************************************************************)
Incoming(h) == chan[comm[h]][h]
Receives(h, type) == Incoming(h) # <<>> /\ Head(Incoming(h)).type = type

Send(h, msgs) ==
    chan' = [chan EXCEPT ![comm[h]][Other(h)] = @ \o msgs]
Receive(h) == chan' = [chan EXCEPT ![comm[h]][h] = Tail(@)]
Answer(h, msgs) ==
    chan' = [chan EXCEPT ![comm[h]][h] = Tail(@), ![comm[h]][Other(h)] = @ \o msgs]

Goto(h, label) == pc' = [pc EXCEPT ![h] = label]

\* The server has bound its port and waits in accept() on the client's communicant.
Listening ==
    /\ pc["server"] = "listening"
    /\ comm["server"] = comm["client"]

\* error_and_quit: the process exits, and with it every end it holds.
Quit(h) ==
    /\ Goto(h, "quit")
    /\ open' = [i \in Rounds |-> [open[i] EXCEPT ![h] = FALSE]]

\* The process is killed.
Killed(h) == pc[h] \notin Ended /\ Quit(h)

\* A receive finds the stream drained and the peer's end closed, or the peer
\* closed with data unread and the connection was reset: error_and_quit.
Deserted(h, waits) ==
    LET i == comm[h] IN
    /\ pc[h] \in waits
    /\ open[i][h] /\ ~open[i][Other(h)]
    /\ Incoming(h) = <<>> \/ chan[i][Other(h)] # <<>>
    /\ Quit(h)

(***************************************************************************)
(* GenSync, around each session.                                           *)
(***************************************************************************)

\* History: the server takes its decision on the sets the two hosts hold now.
Decide(v) ==
    /\ verdict' = [verdict EXCEPT ![comm["server"]] = v]
    /\ base' = [base EXCEPT ![comm["server"]] = data]

\* postProcessing_SET: every element of otherMinusSelf goes through GenSync::addElem.
PostSkipMutant(h) == data[h]
PostProcessing(h) == data[h] \cup oms[h]

\* The communicant in use is the last one.
Last(h) == comm[h] = Sessions

\* The rest of the loop body: the result is accumulated, the post-processing
\* adds otherMinusSelf, and the next communicant is taken.
NextCommunicant(h) ==
    /\ pc[h] = "post"
    /\ success' = [success EXCEPT ![h] = @ /\ result[h]]
    /\ data' = [data EXCEPT ![h] = PostProcessing(h)]
    /\ IF Last(h)
       THEN Goto(h, "returned") /\ UNCHANGED comm
       ELSE Goto(h, "begin") /\ comm' = [comm EXCEPT ![h] = @ + 1]

FinishedSessions(h) ==
    IF pc[h] = "returned" THEN Sessions ELSE comm[h] - 1

(***************************************************************************)
(* What the sets differed in when the server decided.                      *)
(***************************************************************************)
Differences(i) ==
    (base[i]["client"] \ base[i]["server"]) \cup (base[i]["server"] \ base[i]["client"])
=============================================================================
