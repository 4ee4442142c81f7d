---------------------------- MODULE ExchangeSession ----------------------------
(***************************************************************************)
(* FullSync, BloomFilterSync and CuckooSync on two GenSync hosts: the      *)
(* hosts exchange what they hold, all of it or a filter of it, and lists   *)
(* of what the other one seems to lack.                                    *)
(*                                                                         *)
(* A filter is the set of its marks.  A Bloom filter has all the marks of  *)
(* each element inserted (its bits), a cuckoo filter one of the two (its   *)
(* fingerprint in one bucket of the pair), which evictions may change.     *)
(* Fingerprints are not 0: what becomes of those is in module Cuckoo.      *)
(*                                                                         *)
(* A cuckoo filter whose bits do not fill its last byte arrives without    *)
(* that byte: commSend sends all of the store, commRecv_Cuckoo divides     *)
(* before it rounds up.  The entries that were in the byte are read behind *)
(* the end of the store, and the byte itself is read as the first one of   *)
(* the next number, the length of the list.                                *)
(***************************************************************************)
EXTENDS GenSyncHosts

CONSTANTS
    Tokens,    \* values of (size, number of hashes) of a Bloom filter
    Marks,     \* bits of a Bloom filter; fingerprints in buckets of a cuckoo filter
    Setups     \* the agents that may meet, and the marks of the elements

Kinds == {"full", "bloom", "cuckoo"}

\* tail: the marks in the last byte of a cuckoo filter, when its bits do not fill it.
AgentType == [kind : Kinds, par : Tokens, tail : SUBSET Marks]

\* The two buckets of a fingerprint lead to one another (Cuckoo's involution), so that
\* equal fingerprints have either the same pair of buckets or two disjoint ones.  Two
\* hosts of CuckooSync, which compares no parameters, are taken to have the same ones.
Paired(m) == \A e, f \in Elem : m[e] = m[f] \/ m[e] \cap m[f] = {}

ASSUME ExchangeAssumption ==
    \A s \in Setups :
        /\ s \in [agent : [Hosts -> AgentType], marks : [Elem -> (SUBSET Marks) \ {{}}]]
        /\ s.agent["client"].kind = s.agent["server"].kind
        /\ s.agent["client"].kind = "cuckoo" =>
              s.agent["client"] = s.agent["server"] /\ Paired(s.marks)
        /\ s.agent["client"].kind # "cuckoo" => s.agent["client"].tail = {}

VARIABLES
    agent,   \* agent[h]: kind and parameters
    marks,   \* marks[e]
    filter,  \* filter[h]: the marks in myBloomFilter or myCF
    stored,  \* stored[h]: the elements whose insertion into it succeeded
    smo,     \* smo[h]: selfMinusOther
    rest     \* rest[i][h]: the byte of a filter that host h has left unread

agentVars == <<agent, marks, filter, stored, smo, rest>>
vars == <<hostVars, agentVars>>

Kind == agent["client"].kind
LastMarks == agent["client"].tail
Rests == {"none", "zero", "nonzero"}

\* A host whose list was misread waits for more, at "misread".
ClientWaits == {"connecting", "awaitParams", "awaitFilter", "awaitList", "awaitMine", "awaitOthers",
                "misread"}
ServerWaits == {"recvParams", "recvFilter", "recvList", "recvSet", "misread"}
ClientPC == ClientWaits \cup {"begin", "post"} \cup Ended
ServerPC == ServerWaits \cup {"begin", "listening", "post"} \cup Ended

Message ==
    [type : {"params"}, par : Tokens]
    \cup [type : {"filter"}, marks : SUBSET Marks]
    \cup [type : {"set", "list"}, set : SUBSET Elem]

TypeOK ==
    /\ HostsTypeOK(ClientPC, ServerPC, Message)
    /\ [agent |-> agent, marks |-> marks] \in Setups
    /\ filter \in [Hosts -> SUBSET Marks]
    /\ stored \in [Hosts -> SUBSET Elem]
    /\ smo \in [Hosts -> SUBSET Elem]
    /\ rest \in [Rounds -> [Hosts -> Rests]]

(***************************************************************************)
(* Filters.                                                                *)
(***************************************************************************)
MarksOf(S) == UNION {marks[e] : e \in S}

\* The filters that hold the elements of S.
Places(S) == {at \in [S -> Marks] : \A e \in S : at[e] \in marks[e]}
FiltersOf(S) ==
    CASE Kind = "bloom" -> {MarksOf(S)}
      [] Kind = "cuckoo" -> {{at[e] : e \in S} : at \in Places(S)}
      [] OTHER -> {{}}

\* exist, which looks for every bit, and lookup, which looks into either bucket.
AnyBitMutant(F, e) == marks[e] \cap F # {}
FirstBucketMutant(F, e) ==
    IF Kind = "bloom" THEN marks[e] \subseteq F ELSE (CHOOSE m \in marks[e] : TRUE) \in F
Found(F, e) ==
    IF Kind = "bloom" THEN marks[e] \subseteq F ELSE marks[e] \cap F # {}

\* The elements of host h that a filter F of the peer does not show.
Missing(h, F) == {e \in data[h] : ~Found(F, e)}

\* What a filter F becomes on its way: any marks at all may be read in place of those in
\* the last byte; and what is left in that byte.
Received(F) == {(F \ LastMarks) \cup T : T \in SUBSET LastMarks}
LastByte(F) ==
    IF LastMarks = {} THEN {"none"}
    ELSE {"zero"} \cup (IF F \cap LastMarks = {} THEN {} ELSE {"nonzero"})

\* The outcomes of addElem on each element of S: an insertion into a cuckoo filter
\* may fail, which is logged and leaves the filter as it was.
Inserted(S) == IF Kind = "cuckoo" THEN SUBSET S ELSE {S}

AddToFilter(h, S) ==
    \E T \in Inserted(S) :
        /\ stored' = [stored EXCEPT ![h] = @ \cup T]
        /\ \E F \in FiltersOf(stored[h] \cup T) : filter' = [filter EXCEPT ![h] = F]

Init ==
    /\ HostsInit
    /\ open = [i \in Rounds |-> [h \in Hosts |-> FALSE]]
    /\ \E s \in Setups : agent = s.agent /\ marks = s.marks
    /\ stored \in {s \in [Hosts -> SUBSET Elem] : \A h \in Hosts : s[h] \in Inserted(data[h])}
    /\ filter \in {f \in [Hosts -> SUBSET Marks] : \A h \in Hosts : f[h] \in FiltersOf(stored[h])}
    /\ smo = [h \in Hosts |-> {}]
    /\ rest = [i \in Rounds |-> [h \in Hosts |-> "none"]]

(***************************************************************************)
(* The connection, and the first messages.                                 *)
(***************************************************************************)
Begin(h) ==
    /\ pc[h] = "begin"
    /\ oms' = [oms EXCEPT ![h] = {}]
    /\ smo' = [smo EXCEPT ![h] = {}]
    /\ result' = [result EXCEPT ![h] = TRUE]
    /\ Goto(h, IF h = "client" THEN "connecting" ELSE "listening")
    /\ UNCHANGED <<data, comm, chan, open, success, history, agent, marks, filter, stored, rest>>

Params(h) == [type |-> "params", par |-> agent[h].par]
Filter(h) == [type |-> "filter", marks |-> filter[h]]
List(S) == [type |-> "list", set |-> S]

\* A FullSync client sends its set and a CuckooSync client its filter; with
\* BloomFilterSync the server speaks first.
Connect ==
    LET c == "client"
        s == "server"
    IN
    /\ pc[c] = "connecting"
    /\ Listening
    /\ open' = [open EXCEPT ![comm[c]] = [g \in Hosts |-> TRUE]]
    /\ \/ /\ Kind = "full"
          /\ pc' = [pc EXCEPT ![c] = "awaitMine", ![s] = "recvSet"]
          /\ Send(c, <<[type |-> "set", set |-> data[c]]>>)
       \/ /\ Kind = "bloom"
          /\ pc' = [pc EXCEPT ![c] = "awaitParams", ![s] = "recvParams"]
          /\ Send(s, <<Params(s)>>)
       \/ /\ Kind = "cuckoo"
          /\ pc' = [pc EXCEPT ![c] = "awaitFilter", ![s] = "recvFilter"]
          /\ Send(c, <<Filter(c)>>)
    /\ UNCHANGED <<data, comm, oms, result, success, history, agentVars>>

ConnectFails ==
    /\ pc["client"] = "connecting"
    /\ ~Listening
    /\ Quit("client")
    /\ UNCHANGED <<data, comm, chan, oms, result, success, history, agentVars>>

(***************************************************************************)
(* FullSync: the server computes both differences and sends them, its      *)
(* otherMinusSelf first, which is the client's selfMinusOther.             *)
(***************************************************************************)
Close(h) == open' = [open EXCEPT ![comm[h]][h] = FALSE]

DifferencesReply(other, self) == <<List(other), List(self)>>

ServerSet ==
    LET h == "server"
        theirs == Head(Incoming(h)).set
        other == theirs \ data[h]
        self == data[h] \ theirs
    IN
    /\ pc[h] = "recvSet"
    /\ Receives(h, "set")
    /\ oms' = [oms EXCEPT ![h] = other]
    /\ smo' = [smo EXCEPT ![h] = self]
    /\ Answer(h, DifferencesReply(other, self))
    /\ Decide("ok")
    /\ Close(h) /\ Goto(h, "post")
    /\ UNCHANGED <<data, comm, result, success, agent, marks, filter, stored, rest>>

ClientMine ==
    LET h == "client" IN
    /\ pc[h] = "awaitMine"
    /\ Receives(h, "list")
    /\ smo' = [smo EXCEPT ![h] = Head(Incoming(h)).set]
    /\ Receive(h) /\ Goto(h, "awaitOthers")
    /\ UNCHANGED <<data, comm, open, oms, result, success, history, agent, marks, filter, stored,
                   rest>>

ClientOthers ==
    LET h == "client" IN
    /\ pc[h] = "awaitOthers"
    /\ Receives(h, "list")
    /\ oms' = [oms EXCEPT ![h] = Head(Incoming(h)).set]
    /\ Receive(h) /\ Close(h) /\ Goto(h, "post")
    /\ UNCHANGED <<data, comm, result, success, history, agentVars>>

(***************************************************************************)
(* BloomFilterSync: both sides compare the parameters and then return      *)
(* false, without another message.                                         *)
(***************************************************************************)
SameParams(h) == Head(Incoming(h)).par = agent[h].par

Reject(h) == <<Params(h)>>

ClientParams ==
    LET h == "client" IN
    /\ pc[h] = "awaitParams"
    /\ Receives(h, "params")
    /\ \/ /\ SameParams(h)
          /\ Answer(h, <<Params(h), Filter(h)>>)
          /\ Goto(h, "awaitList")
          /\ UNCHANGED result
       \/ /\ ~SameParams(h)
          /\ Answer(h, Reject(h))
          /\ Goto(h, "post")
          /\ result' = [result EXCEPT ![h] = FALSE]
    /\ UNCHANGED <<data, comm, open, oms, success, history, agentVars>>

ServerParams ==
    LET h == "server" IN
    /\ pc[h] = "recvParams"
    /\ Receives(h, "params")
    /\ Receive(h)
    /\ \/ /\ SameParams(h)
          /\ Goto(h, "recvFilter")
          /\ UNCHANGED <<result, history>>
       \/ /\ ~SameParams(h)
          /\ Goto(h, "post")
          /\ result' = [result EXCEPT ![h] = FALSE]
          /\ Decide("fail")
    /\ UNCHANGED <<data, comm, open, oms, success, agentVars>>

(***************************************************************************)
(* Filters and lists.  A BloomFilterSync server sends its list before its  *)
(* filter, a CuckooSync server only its filter, and the list at the end.   *)
(***************************************************************************)
SwappedMutant(h, mine) ==
    IF Kind = "bloom" THEN <<Filter(h), List(mine)>> ELSE <<Filter(h)>>
FilterReply(h, mine) ==
    IF Kind = "bloom" THEN <<List(mine), Filter(h)>> ELSE <<Filter(h)>>

\* The peer's filter is looked at, and its last byte stays in the stream.
LooksInto(h, F, byte) ==
    /\ smo' = [smo EXCEPT ![h] = Missing(h, F)]
    /\ rest' = [rest EXCEPT ![comm[h]][h] = byte]

ServerFilter ==
    LET h == "server"
        sent == Head(Incoming(h)).marks
    IN
    /\ pc[h] = "recvFilter"
    /\ Receives(h, "filter")
    /\ \E F \in Received(sent), byte \in LastByte(sent) :
          LooksInto(h, F, byte) /\ Answer(h, FilterReply(h, Missing(h, F)))
    /\ Goto(h, "recvList")
    /\ Decide("ok")
    /\ UNCHANGED <<data, comm, open, oms, result, success, agent, marks, filter, stored>>

ClientFilter ==
    LET h == "client"
        sent == Head(Incoming(h)).marks
    IN
    /\ pc[h] = "awaitFilter"
    /\ Receives(h, "filter")
    /\ \E F \in Received(sent), byte \in LastByte(sent) :
          LooksInto(h, F, byte) /\ Answer(h, <<List(Missing(h, F))>>)
    /\ Goto(h, IF Kind = "bloom" THEN "post" ELSE "awaitList")
    /\ UNCHANGED <<data, comm, open, oms, result, success, history, agent, marks, filter, stored>>

\* After an unread byte the length of a list is that byte and 256 times the length that
\* was sent: only an empty list after a zero byte is read as it is.
Framed(h) ==
    \/ rest[comm[h]][h] = "none"
    \/ rest[comm[h]][h] = "zero" /\ Head(Incoming(h)).set = {}

ClientList ==
    LET h == "client" IN
    /\ pc[h] = "awaitList"
    /\ Receives(h, "list") /\ Framed(h)
    /\ oms' = [oms EXCEPT ![h] = Head(Incoming(h)).set]
    /\ Receive(h)
    /\ Goto(h, IF Kind = "bloom" THEN "awaitFilter" ELSE "post")
    /\ UNCHANGED <<data, comm, open, result, success, history, agentVars>>

ServerList ==
    LET h == "server" IN
    /\ pc[h] = "recvList"
    /\ Receives(h, "list") /\ Framed(h)
    /\ oms' = [oms EXCEPT ![h] = Head(Incoming(h)).set]
    /\ Answer(h, IF Kind = "bloom" THEN <<>> ELSE <<List(smo[h])>>)
    /\ Goto(h, "post")
    /\ UNCHANGED <<data, comm, open, result, success, history, agentVars>>

\* The list ends before the length that was read, if its strings are below 2 KiB on the
\* average: the host takes all that comes, and waits.
Misread(h) ==
    /\ pc[h] \in {"awaitList", "recvList"}
    /\ Receives(h, "list") /\ ~Framed(h)
    /\ Receive(h)
    /\ rest' = [rest EXCEPT ![comm[h]][h] = "none"]
    /\ Goto(h, "misread")
    /\ UNCHANGED <<data, comm, open, oms, result, success, history, agent, marks, filter, stored,
                   smo>>

(***************************************************************************)
(* GenSync, around each session: addElem reaches the filter too.           *)
(***************************************************************************)
PostProcess(h) ==
    /\ NextCommunicant(h)
    /\ AddToFilter(h, oms[h])
    /\ UNCHANGED <<chan, open, oms, result, history, agent, marks, smo, rest>>

\* Also what reading behind the end of a store, or a misread length, may end in.
Crash(h) ==
    /\ Killed(h)
    /\ UNCHANGED <<data, comm, chan, oms, result, success, history, agentVars>>

\* The peer closed with the byte unread: the connection was reset.
Reset(h) ==
    LET i == comm[h] IN
    /\ pc[h] \in ClientWaits \cup ServerWaits
    /\ open[i][h] /\ ~open[i][Other(h)]
    /\ rest[i][Other(h)] # "none"
    /\ Quit(h)

PeerGone(h) ==
    /\ Deserted(h, ClientWaits \cup ServerWaits) \/ Reset(h)
    /\ UNCHANGED <<data, comm, chan, oms, result, success, history, agentVars>>

ClientStep ==
    \/ Connect \/ ConnectFails \/ ClientMine \/ ClientOthers
    \/ ClientParams \/ ClientFilter \/ ClientList

ServerStep == ServerSet \/ ServerParams \/ ServerFilter \/ ServerList

HostStep(h) ==
    \/ h = "client" /\ ClientStep
    \/ h = "server" /\ ServerStep
    \/ Begin(h) \/ Misread(h) \/ PostProcess(h) \/ PeerGone(h)

Next == \E h \in Hosts : HostStep(h) \/ Crash(h)

Spec == Init /\ [][Next]_vars

\* Each host is a single thread that keeps running unless it blocks.
FairSpec == Spec /\ \A h \in Hosts : WF_vars(HostStep(h))

(***************************************************************************)
(* Properties.                                                             *)
(***************************************************************************)
Matched == agent["client"] = agent["server"]

\* The filter of a host that holds S takes e for one of them.
Masked(e, S) ==
    \/ Kind = "bloom" /\ marks[e] \subseteq MarksOf(S)
    \/ Kind = "cuckoo" /\ \E x \in S : marks[x] \cap marks[e] # {}

\* A mark of the element is in the byte of the filter that does not arrive.
Torn(e) == marks[e] \cap LastMarks # {}

\* When a session is over a host has been given everything that it lacked, but for
\* what its own elements mask: no failed insertion, no list and no filter of an
\* earlier session hides anything else (Missing, on both sides).  Where the last byte of
\* the filters does not arrive, nothing is missed but what is read in its place.
MissedOnlyMasked ==
    \A h \in Hosts :
        (pc[h] = "post" /\ Matched) =>
            LET i == comm[h]
            IN \A e \in (base[i][Other(h)] \ base[i][h]) \ oms[h] :
                  Masked(e, base[i][h]) \/ Torn(e)

\* The peer sends what a host already holds only if the host failed to store it in its
\* filter, and never what the peer does not hold itself - nor does a misread list put
\* anything into a set.
NoEcho ==
    \A h \in Hosts :
        (pc[h] = "post" /\ Matched) =>
            /\ oms[h] \subseteq base[comm[h]][Other(h)]
            /\ oms[h] \cap stored[h] = {}

\* A host that waits for ever: a server in accept() for a client that never connects;
\* and, between filters whose last byte does not arrive, a host whose list was misread,
\* the client of such a server, and the server whose client stays behind in that session.
Stranded(h) ==
    \/ h = "server" /\ pc[h] = "listening" /\ pc["client"] = "quit"
    \/ /\ LastMarks # {} /\ pc[Other(h)] # "quit"
       /\ \/ pc[h] = "misread"
          \/ pc[h] = "awaitList" /\ pc[Other(h)] = "misread"
          \/ pc[h] = "listening" /\ pc[Other(h)] = "misread"

\* Every host ends, with a result or by error_and_quit, even if the peer is killed at
\* any point, or else it is stranded.
Termination == \A h \in Hosts : <>[](pc[h] \in Ended \/ Stranded(h))
=============================================================================
