------------------------------- MODULE CommSocket ------------------------------
(***************************************************************************)
(* CommSocket, and the strings of Communicant: a client connects to a      *)
(* server, sends it strings and waits for one byte in answer, as every     *)
(* synchronization does.  commSend hands the kernel as many pieces as it   *)
(* takes, and commRecv waits for all the bytes it was asked for.           *)
(*                                                                         *)
(* A byte of a string is its string and its place in it; the lengths are   *)
(* small numbers.  The kernel's stream is bounded, and neither loses nor   *)
(* reorders bytes.                                                         *)
(***************************************************************************)
EXTENDS Integers, Sequences, FiniteSets, FiniteSetsExt, SequencesExt

CONSTANTS
    Lengths,      \* lengths of the strings
    Strings,      \* how many strings the client sends
    XmitLong,     \* XMIT_LONG: bytes of a long
    MaxConnects,  \* MAX_CONNECTS
    Capacity      \* bytes that the stream holds

ASSUME CommSocketAssumption ==
    /\ Lengths \subseteq Nat
    /\ {Strings, XmitLong, MaxConnects} \subseteq Nat \ {0}
    /\ Capacity \in Nat /\ Capacity >= XmitLong /\ \A n \in Lengths : Capacity >= n

VARIABLES
    pc,        \* pc["client"], pc["server"]
    count,     \* failed calls of connect
    sent,      \* lengths of the strings given to commSend
    toSend,    \* the bytes that the primitive commSend has still to send
    stream,    \* bytes on the way to the server
    answer,    \* the server's byte is on the way to the client
    need,      \* the length that the server was told of the next string
    received,  \* the strings that the server received
    xmit, recv,   \* the client's and the server's xferBytes and recvBytes
    fragmented    \* history: the kernel took a part of what send was given

buffers == <<sent, toSend, stream, answer, need, received>>
vars == <<pc, count, buffers, xmit, recv, fragmented>>

Ended == {"closed", "quit"}
ClientSends == {"long", "chars"}

Number(v) == [kind |-> "number", of |-> v, at |-> 0]
Chars(m, n) == [i \in 1..n |-> [kind |-> "char", of |-> m, at |-> i]]

\* A long, the lowest byte first, and the bytes that are sent for a string of n
\* characters: commSend(toSend, 0) sends a terminating zero.
Long(n) == [i \in 1..XmitLong |-> IF i = 1 THEN Number(n) ELSE Number(0)]
Primitive(m, n) == IF n = 0 THEN <<Number(0)>> ELSE Chars(m, n)

Init ==
    /\ pc = [client |-> "connect", server |-> "begin"]
    /\ count = 0
    /\ sent = <<>> /\ toSend = <<>> /\ stream = <<>> /\ answer = FALSE
    /\ need = 0 /\ received = <<>>
    /\ xmit = 0 /\ recv = 0
    /\ fragmented = FALSE

Goto(h, label) == pc' = [pc EXCEPT ![h] = label]

(***************************************************************************)
(* Connecting.                                                             *)
(***************************************************************************)
Listen ==
    /\ pc["server"] = "begin"
    /\ Goto("server", "accept")
    /\ UNCHANGED <<count, buffers, xmit, recv, fragmented>>

\* The socket is closed and opened again, up to MAX_CONNECTS times.
GivesUpMutant(n) == FALSE
GivesUp(n) == n > MaxConnects

ConnectFails ==
    /\ pc["client"] = "connect" /\ pc["server"] # "accept"
    /\ count' = Min({count + 1, MaxConnects + 1})
    /\ Goto("client", IF GivesUp(count + 1) THEN "quit" ELSE "connect")
    /\ UNCHANGED <<buffers, xmit, recv, fragmented>>

Connect ==
    /\ pc["client"] = "connect" /\ pc["server"] = "accept"
    /\ pc' = [client |-> "ready", server |-> "long"]
    /\ xmit' = 0 /\ recv' = 0
    /\ UNCHANGED <<count, buffers, fragmented>>

(***************************************************************************)
(* The client: commSend(string) is commSend(long) and then the characters. *)
(***************************************************************************)
SendString(n) ==
    /\ pc["client"] = "ready" /\ Len(sent) < Strings
    /\ Goto("client", "long")
    /\ sent' = Append(sent, n)
    /\ toSend' = Long(n)
    /\ UNCHANGED <<count, stream, answer, need, received, xmit, recv, fragmented>>

\* One call of send, of which the kernel takes k bytes.  The counter grows by what is
\* left after a partial send.
RestMutant(bytes, k) == bytes
Rest(bytes, k) == SubSeq(bytes, k + 1, Len(bytes))
TransmittedMutant(bytes, k) == Len(Rest(bytes, k))
Transmitted(bytes, k) == IF k = Len(bytes) THEN k ELSE Len(Rest(bytes, k))

Sent ==
    IF pc["client"] = "long"
    THEN /\ Goto("client", "chars")
         /\ toSend' = Primitive(Len(sent), Last(sent))
    ELSE /\ Goto("client", IF Len(sent) = Strings THEN "answer" ELSE "ready")
         /\ toSend' = <<>>

Send(k) ==
    /\ pc["client"] \in ClientSends /\ pc["server"] \notin Ended
    /\ k \in 1..Min({Len(toSend), Capacity - Len(stream)})
    /\ stream' = stream \o SubSeq(toSend, 1, k)
    /\ xmit' = xmit + Transmitted(toSend, k)
    /\ fragmented' = (fragmented \/ k < Len(toSend))
    /\ IF k = Len(toSend) THEN Sent
       ELSE toSend' = Rest(toSend, k) /\ UNCHANGED pc
    /\ UNCHANGED <<count, sent, answer, need, received, recv>>

ClientAnswer ==
    /\ pc["client"] = "answer" /\ answer
    /\ answer' = FALSE
    /\ Goto("client", "closed")
    /\ UNCHANGED <<count, sent, toSend, stream, need, received, xmit, recv, fragmented>>

(***************************************************************************)
(* The server: commRecv_string is commRecv_long and then the characters.   *)
(***************************************************************************)
Read(n) ==
    /\ Len(stream) >= n
    /\ stream' = SubSeq(stream, n + 1, Len(stream))
    /\ recv' = recv + n

\* Any other bytes make a number that no string is as long as.
ServerLong ==
    LET bytes == SubSeq(stream, 1, XmitLong)
        lengths == {n \in Lengths : bytes = Long(n)}
        ok == lengths # {}
    IN
    /\ pc["server"] = "long"
    /\ Read(XmitLong)
    /\ Goto("server", IF ok THEN "chars" ELSE "astray")
    /\ need' = IF ok THEN Max(lengths) ELSE 0
    /\ UNCHANGED <<count, sent, toSend, answer, received, xmit, fragmented>>

ServerChars ==
    /\ pc["server"] = "chars"
    /\ Read(need)
    /\ received' = Append(received, SubSeq(stream, 1, need))
    /\ Goto("server", IF Len(received) + 1 = Strings THEN "closed" ELSE "long")
    /\ answer' = (Len(received) + 1 = Strings)
    /\ UNCHANGED <<count, sent, toSend, need, xmit, fragmented>>

\* The server waits for more bytes than there will ever be.
ServerAstray ==
    /\ pc["server"] = "astray" /\ stream # <<>>
    /\ Read(Len(stream))
    /\ UNCHANGED <<pc, count, sent, toSend, answer, need, received, xmit, fragmented>>

(***************************************************************************)
(* A process is killed, or finds that the other has gone: error_and_quit.  *)
(***************************************************************************)
Quit(h) ==
    /\ Goto(h, "quit")
    /\ UNCHANGED <<count, buffers, xmit, recv, fragmented>>

Crash(h) == pc[h] \notin Ended /\ Quit(h)

Wanted == CASE pc["server"] = "long" -> XmitLong
            [] pc["server"] = "chars" -> need
            [] pc["server"] = "astray" -> Len(stream) + 1
            [] OTHER -> 0

ServerAlone == pc["client"] \in Ended /\ Len(stream) < Wanted /\ Quit("server")

\* A send to a closed socket fails; a receive does once the stream is drained, or
\* when the server closed with bytes unread and the connection was reset.
ClientAlone ==
    /\ pc["server"] \in Ended
    /\ \/ pc["client"] \in ClientSends
       \/ pc["client"] = "answer" /\ (~answer \/ stream # <<>>)
    /\ Quit("client")

Client ==
    \/ ConnectFails \/ Connect \/ ClientAnswer \/ ClientAlone
    \/ \E n \in Lengths : SendString(n)
    \/ \E k \in 1..Capacity : Send(k)

Server ==
    Listen \/ Connect \/ ServerLong \/ ServerChars \/ ServerAstray \/ ServerAlone

Next == Client \/ Server \/ \E h \in {"client", "server"} : Crash(h)

Spec == Init /\ [][Next]_vars

\* Both processes keep running.
FairSpec == Spec /\ WF_vars(Client) /\ WF_vars(Server)

(***************************************************************************)
(* Properties.                                                             *)
(***************************************************************************)
TypeOK ==
    /\ pc["client"] \in {"connect", "ready", "answer"} \cup ClientSends \cup Ended
    /\ pc["server"] \in {"begin", "accept", "long", "chars", "astray"} \cup Ended
    /\ count \in 0..MaxConnects + 1
    /\ sent \in Seq(Lengths) /\ Len(sent) <= Strings
    /\ Len(stream) <= Capacity
    /\ answer \in BOOLEAN /\ fragmented \in BOOLEAN
    /\ need \in Nat /\ xmit \in Nat /\ recv \in Nat
    /\ Len(received) <= Strings

\* The server has received the strings in order and complete, whatever the pieces in
\* which they went, up to the first that comes after an empty one: the zero that is
\* sent for it is not received (commSend, commRecv and commRecv_string).
Intact ==
    \A m \in DOMAIN received :
        (\A i \in 1..m - 1 : sent[i] # 0) => received[m] = Chars(m, sent[m])

\* The client's counter is the server's when all is sent and received - unless the
\* kernel took a string in pieces, or an empty one was sent (addXmitBytes).
CountersAgree ==
    (/\ ~fragmented /\ \A m \in DOMAIN sent : sent[m] # 0
     /\ pc["client"] = "closed" /\ pc["server"] = "closed") => xmit = recv

\* Both processes end, even if one is killed or the client gives up - except that the
\* server waits in accept for a client that is gone, and that the hosts wait for each
\* other when the server has lost its place in the stream.
Ends ==
    [](pc["server"] # "astray") =>
        /\ <>(pc["client"] \in Ended)
        /\ <>[](\/ pc["server"] \in Ended
                \/ pc["server"] = "accept" /\ pc["client"] = "quit")
=============================================================================
