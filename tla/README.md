# GenSync: specifications, model checks and proofs

GenSync reconciles the sets of two hosts with little communication. This directory
models its core - the two processes of a synchronization, the protocols they speak
and the summaries (polynomial evaluations, IBLTs, cuckoo filters) they rest on - in
TLA+, checks small instances with TLC and proves the central facts with TLAPS.
`PROJECT.json` maps each definition to the lines it translates and lists the runs,
theorems, findings and hazards.

## The system

| part | state | operations | what is hard, and what makes it correct |
|---|---|---|---|
| GenSync object (`Syncs/GenSync.cpp`) | `myData` (pointers), `mySyncVec` (agents), `myCommVec`, post-processing function | `addElem`, `delElem`, `clearData`, `addSyncAgt`, `delSyncAgt`; `clientSyncBegin`, `serverSyncBegin` | agents and data must agree after any calls, also after one that fails half way; the two hosts merge separately; either process may die |
| SyncMethod (`Aux/SyncMethod.h`) | `elements` of the agent | `addElem`, `delElem`, `SyncClient`, `SyncServer`, parameter handshakes | deletion by pointer under a summary by value |
| Communicant (`Communicants/`) | socket, byte counters | `commConnect`, `commListen`, `commClose`, typed send and receive | blocking receives and bounded streams: deadlock, leftover bytes, a peer that is gone |
| CPISync family (`Syncs/CPISync.cpp`, `ProbCPISync`, `_HalfRound`, `_OneLessRound`, `_ExistingConnection`) | `CPI_hash`, `CPI_evals`, `sampleLoc`, `currDiff` | `SyncClient`, `SyncServer`, `addElem`, `delElem`, `set_reconcile` | two loops that never exchange `currDiff`; parity of the degree bounds; hashes of repeated elements; strings sent before any is received |
| InterCPISync | a tree of CPISync nodes | recursion into children on failure | both hosts recurse in lock-step over equal ranges |
| GenIBLT, IBLT | cells (count, key sum, check, value sum) | `insert`, `erase`, `-=`, `listEntries`, `get` | peeling changes what it scans; partial lists; termination on negative counts |
| IBLTSync, `_HalfRound` | an IBLT | `SyncClient`, `SyncServer` | partial lists are sent and merged; the client does not learn of it |
| Cuckoo, CuckooSync | buckets of fingerprints | `insert` with evictions, `erase`, `lookup`; session | chains through one entry twice, restoration, false negatives |
| Compact2DBitArray | bytes | `getEntry`, `setEntry` | entries share bytes with their neighbours |
| FullSync | multiset | session; `delElem` | erases every equal element; each host's two lists are the other's, exchanged |
| BloomFilter, BloomFilterSync | bits | `insert`, `exist`, conversion to a number and back; session | false positives that no later session corrects; either side may leave after the handshake |
| MET_IBLT, MET_IBLTSync | a growing sequence of tables, the elements | `addElem`, `delElem`, `addKeysForIndex`, `peelOnce`, `peelAll`; session | tables are peeled together, each listed key erased from the others; tables stay for the next session |
| IBLTMultiset, IBLTSync_Multiset | cells (count, sums of keys, checks and values) | `insert`, `erase`, `-=`, `listEntries`, `get`; session | several copies of a key in a cell, signs of quotients, a key met a second time in a pass |
| IBLTSetOfSets | child sets `mySet`, their `hashes`, an outer table | `addElem`, `delElem`, `_decodeInnerIBLT`, session, post-processing | two sequences that must stay aligned; greedy pairing; an exception in mid-session |
| CommSocket, Communicant | socket, byte counters | `commListen`, `commConnect`, `commSend`, `commRecv`, strings and longs | pieces, retries, an empty string, the peer gone |

A host is a single thread. It interacts with the other only through the streams of a
Communicant; within a host, GenSync calls its agents, and the agents' results come
back through `selfMinusOther` and `otherMinusSelf`, which the post-processing
function adds to the GenSync object, and so to every agent.

## Modules

```
Reconcile  <--(implemented by)--  CPISession ------ GenSyncHosts, CPIReconcile
                                  InterCPISession - GenSyncHosts, CPIReconcile
                                  IBLTSession ----- GenSyncHosts
                                  ExchangeSession - GenSyncHosts
                                  GenIBLT, Cuckoo (what IBLTSession and ExchangeSession
                                  abstract), GenSyncData
                                  METIBLTSync, IBLTSetOfSets (sessions of their own kind),
                                  IBLTMultiset, CommSocket
                                  Compact2DBitArray, BloomFilter (encodings, under
                                  MCCuckoo and MCExchangeSession)
```

**GenSyncHosts** is what every session shares: the hosts' `data`, program counters,
communicants (`chan[i][h]`, the stream towards host h of communicant i), connecting,
listening, closing, post-processing, the move to the next communicant, and `Crash`,
the death of a process at any point. An action is what a host does from one blocking
receive to the next; what a stream can be seen to do in between (the peer gone at a
send or at a receive) ends the process as `Logger::error_and_quit` does.

**CPISession** adds CPISync's protocol: modulus and parameter handshakes,
evaluations, the doubling of `currDiff` (ProbCPISync), deltas, the exchange of
strings one by one (`hashQ`), one-way sessions, connections kept alive. One-way agents are
taken not to use hashes (`OneWayAssumption`): with both, `_sendSetElem` and `_recvSetElem`
(CPISync.cpp:317, 333) list `_invHash` of the roots, which are not the elements, and
`MakeStructures` would not be what the code does.
**CPIReconcile** holds its numbers: which points are sent when, when a host gives up,
the degree bounds of `ratFuncInterp` with C++ division, and `Reconciles`, the
condition under which `set_reconcile` finds the difference. The field algebra is
abstracted by that condition: an attempt whose bounds do not cover the difference is
caught by the redundant points. The error probability 2^-epsilon and collisions of
hashes are therefore outside the model.

**Reconcile** is the abstract promise: a session is decided once, on the sets as they
are then; after "ok" each host adds exactly what it lacked, after "fail" nothing.
`CPISession!Reconciliation` is `Reconcile!Spec` under the refinement mapping (`set` is
`data`, `done` the number of sessions finished, `alive` whether the process has not
quit). IBLTSession does *not* implement it, because partial lists are merged: its
promise is `ListsExact` and `CoreRemains` instead.

**GenIBLT** is one pair of tables, ours and the peer's: insertions and erasures in any
order, subtraction, and then `listEntries` or `get` cell by cell. A cell is its count
and the set of keys of odd net content: the key sum is an exclusive-or, and
`isPure` compares it with a check value that is taken to be collision-free. Keys may
have different numbers of hash functions, as in MET_IBLT.

**IBLTSession** is IBLTSync's session over GenSyncHosts. Placing each element in a set
of cells, the list that `listEntries` returns is the difference without its *core*,
the largest set of elements none of which is ever alone in a cell; that this is what
the scan computes is checked and proved on GenIBLT (`PeelsExactly`).

**InterCPISession** is the recursion of InterCPISync on both hosts. The call stack of a
host is the list `calls` of the calls still to be made; a call has the elements of its
tree node and the range the node stands for, with `createChildren`'s step (at least 1)
kept apart from the step of the ranges (which may be 0). A node attempt is
CPISync_ExistingConnection's one round, under the condition of CPIReconcile. Elements
are placed at positions by `pos`, which stands for `_hash`; two elements at one position
are values that agree modulo DATA_MAX, or copies of one value. The strings of hashed
elements go in one message each way: that streams hold only so many is CPISession's
subject. The overloads without ranges, `_addElem` and `_createTreeNode` are called by
nothing and left out.

**ExchangeSession** has the three methods in which the hosts send each other what they
hold: all of it (FullSync) or a filter of it (BloomFilterSync, CuckooSync). A filter is a
set of marks - bits, or fingerprints in buckets - and an element has all its marks in it
or one of two; where an eviction puts the fingerprint, and whether an insertion fails, is
a choice. Which choices Cuckoo really has is in module Cuckoo, with fingerprints of 0.
A Bloom filter arrives as it was sent. A cuckoo filter does when its bits fill its bytes; where they
do not, `tail` has the marks in the last byte, which `commSend` sends and `commRecv_Cuckoo`, which
divides before it rounds up, does not read. `Received` has any marks in their place, because a look-up
then reads behind the end of the store. The byte itself is `rest`, and becomes the
first byte of the length of the next list: `Framed` are the lists that are read as they are all
the same (an empty one, after a byte of 0), and at any other the host takes what comes and waits
for more (`Misread`, pc `misread`). This assumes that the strings of a list are shorter than
2 KiB on the average, for the length read is at least 256 times the list's, so that the list ends
first; a garbled length of a string that
makes the receiver throw or die is an outcome of `Crash`. Closing with the byte unread resets the connection
(`Reset`).

**Cuckoo** takes an insertion apart into its evictions: `Insert` (a bucket has room, or
the chain begins), `Kick`, `GiveUp`, `Restore` once per slot, `Fail`. The random
choices of bucket and victim are nondeterministic. `stored` and `before` are history.
The alternative buckets are a constant function; **MCCuckoo** gives it the
exclusive-or of `_alternativeBucket`, at a size that is not a power of two. There, two buckets
need not lead to one another; the TODO in Cuckoo.h:288-293 and the comment in CuckooTest.cpp:106-110
say that this makes false negatives, but it no longer does: `_pHash` (Cuckoo.cpp:285-286) throws a
CuckooFilterError for such an item. Item `u` of the run is one: it is not `Suitable`, no operation takes it, and no item that is taken is lost for this reason. The exception
leaves `CuckooSync::addElem` too, and nothing in GenSync catches it: the elements of GenSyncData and
ExchangeSession are suitable ones.

**GenSyncData** is one GenSync object between synchronizations, with agents of five
kinds: `IBLT`, `Full`, `Cuckoo`, `CPI` (hashed) and `CPIplain`. Elements are pointers
with a value; an agent has its elements and a summary: a bag of values, or the CPI
hash table with the multiplicity of each root in the evaluations. A filter may refuse any element
(`MayFail`): `CuckooSync::addElem` logs that, keeps the element and returns true, and the element is
in `refused`. `status` becomes
`quit` where `error_and_quit` is called and `looping` where `CPISync::addElem` searches
for a free hash for ever. `slipped` is history: the values whose deletion was not the
inverse of an addition.

**METIBLTSync** is the session of MET_IBLTSync. A table is how often each element was
put into it less how often it was taken out, and its cells are derived from that as in
GenIBLT; `ListEntries` is the scan as a function, so that `PeelOnce` is one step of
`peelAll`, listing in every table and erasing from the others - with the sign the code
uses, which is wrong for a key that only the client has. Tables survive a session, and a
second one appends tables but fills those of the first (`Grown`). `Notices` says where a host
can learn that the other one is gone: at a receive and in `connect()`, but not in `accept()`, in which a
server waits at `begin`. **METIBLTClaims** adds
the statement of SyncMethod.h that the code does not meet.

**IBLTMultiset** is one difference of two multiset tables: cells that hold the copies of a
key by number, `listEntries` cell by cell with the quotients of the sums, `get`, and then
the merge of both hosts with what was listed. Where the code divides a signed sum by an
unsigned count, the model keeps what the quotient tells apart (`Pure`).

**IBLTSetOfSets** has the parent set of each host as two sequences, the children and their
hashes, because the code finds a child through the place of its hash. A hash is the child
and the number of times it was hashed again. The outer difference may leave any children
unlisted but a single one; the inner differences that cannot be listed are the constant
`Stuck`. The order in which children are listed is a choice, and with it the pairing. A
child without a partner makes the server throw; an index beyond `mySet`, which the code
reads, ends the process. A child that both hosts hold equally often but with different hashes (after
copies of it were deleted) is not listed, yet the exclusive-or of its hashes stays in the cells it shares with
others (`Residue`): the value listed for any differing child may then be one that is no hash
(`Garbled`), and its list entry finds no place. `Notices` is as in METIBLTSync. A process that is killed is at
pc `killed`, one that ends by `error_and_quit` or by such a read at `quit`, so that `Termination`
can tell the two apart.

**CommSocket** is a connection at the level of bytes: retries up to MAX_CONNECTS, sends of
which the kernel takes any part, receives that wait for every byte, and
the byte counters of both ends. An empty string is sent as one zero byte
that the peer does not read.

**Compact2DBitArray** and **BloomFilter** are encodings, as operators: an entry of a packed
array that is written and read through the bytes it shares with its neighbours, and a
filter of bits that becomes a number and a filter again. MCCuckoo and MCExchangeSession
check them against a plain array of numbers and the identity on sets of bits, as the
assumptions `EntriesPacked` and `FiltersConverted`, which TLC evaluates with the runs.

`MC...` modules and `.cfg` files give the instances. `...Proofs` modules hold the
theorems. Three of them are about two parts each that share no state: CuckooSocketProofs has
those of the parts that the synchronizations are built on, Cuckoo and CommSocket, and
DataPeelingProofs those that go by induction along the data, GenSyncData and METIBLTSync,
and IBLTSetsProofs those of multisets and of sets of sets, IBLTMultiset and
IBLTSetOfSets. They extend both parts, for which reason the initial states and steps of the
second are called by names of their own: `FilterInit`, `FilterNext` and `FilterSpec` in
Cuckoo, `PeelInit`, ... in METIBLTSync, `ParentsInit`, ... in IBLTSetOfSets. Each module states
its types (`TypeOK`, `FilterTypeOK`, `PeelTypeOK`, `ParentsTypeOK`); they are
proved for CPISession, InterCPISession, IBLTSession, ExchangeSession, METIBLTSync,
IBLTSetOfSets, CommSocket, Cuckoo and GenSyncData, and where they are not, the other properties would show
a value of the wrong type as an error of TLC.

## Runs

| run | question | instance, and why it is enough |
|---|---|---|
| `CPISession` | Do two CPISync hosts stay in step, decide alike, report what they lacked, leave the stream clean, end, and implement `Reconcile`? | four elements, every pair of starting sets, two sessions in a row, m_bar from 1 to 4 with k = 1, five kinds of agents and four mismatched pairs, a one-way agent with a two-way one in both directions among them. Four elements give differences on either side of every m_bar and both parities; a stream that holds one string makes the mutual wait possible; crashes anywhere |
| `InterCPISession` | Are the two recursions always in the same call, what do they lose, and do they end? | four elements at eight positions - all apart, in pairs, three or four at one - every pair of starting sets, two sessions, m_bar from 1 to 3 below and above the crowds, two, three and five parts: even, uneven, and more than positions; two mismatched pairs |
| `ExchangeSession` | What do filters hide, what is sent in vain, does a handshake that fails leave the stream clean, does everyone end? | three elements, so that two can mask a third; cuckoo filters with shared fingerprints, whole and with one of a fingerprint's two buckets in a last byte that does not arrive, Bloom filters in which one or two elements cover another, filters of different sizes, FullSync; two sessions, so that what one adds to a filter meets the next |
| `GenIBLT` | Does listEntries list everything but the core, on the right side, does get tell the truth, do cells keep showing what is left, and do the scans end? | four keys with one, two and six hash functions in the five cells the constructor makes for three entries, net contents from -1 to 2: contains 2-cycles, chains, colliding hash functions, keys twice in a table and keys erased without having been inserted |
| `IBLTSession` | Are the lists exact up to the core, does the server know, does a retry help, does only a mixed pair block? | three elements, five placements with every kind of core, two sessions, equal and different table sizes |
| `Cuckoo` | Is nothing lost or duplicated by evictions, failures and erasures? | nine items, three buckets of two, three kicks: the chain returns to its first bucket, and four items fill a pair of buckets |
| `GenSyncData` | Do agents, summaries and data agree after any calls? | six elements of two values, two agents at a time of the five kinds, two deletions, one element at a time that a filter has refused: a held copy beside a refused one, and the other way round; 2^3 hashes in the field of 11 elements, which is CPISync(1, 1, 1, 0, true): the smallest in which the search can miss a free hash |
| `METIBLTSync` | Do the tables show the same rest while they are peeled together, is a host that alone lacks elements given exactly these, do both end? | three elements, three tables of three cells in six placements: two tables that cannot list what the last one can, elements that cover one another's cells; two sessions, with additions and deletions in between; at most two copies |
| `METIBLTClaim_sides` | "Elements that the other SyncMethod has that I do not" | same |
| `IBLTMultiset` | Are all copies or none listed, on the right side, does get tell a held key's value, does a merge overshoot, do the loops end? | three keys, one of which is 0, in two hash functions of two cells each, every choice of hashes, up to two copies on either side: cells shared by two keys of equal and of opposite signs, the core of two keys in the same cells |
| `IBLTSetOfSets` | Do children and hashes stay aligned, does a complete pairing make the hosts equal, is anything lost, who blocks? | three elements, four children at distances of one, two and three, parents of up to two, every listed order and every part of it; two sessions, one addition or deletion by each program, so that a child is held twice |
| `CommSocket` | Is what arrives what was sent, do the counters agree, does everyone end? | strings of no, one and three bytes over a stream of four, longs of two bytes: every split, a full stream, an empty string before others, two retries |

Deadlock checking is off where a system legitimately stops: sessions end, listEntries
returns, a process quits. `Termination` excludes the deadlocks that matter. Cuckoo
never stops, and is checked for it.

Bounds by name: `Sessions`, `Buf` (strings a stream holds), `Capacity` (bytes it holds),
`MaxKicks` and `MaxConnects` (the code's own), `MaxAgents`, `MaxDeletions`, `MaxRefused` (elements of an agent that its filter refused), `MaxTables`,
`MaxCopies`, `MaxChildren`, `MaxUpdates`, `Strings`; in GenIBLT and IBLTMultiset the
histories are bounded by `Nets`, the net contents; in InterCPISession `DATA_MAX`, the number
of positions. A host of METIBLTSync or IBLTSetOfSets that would pass a bound stops at pc
`bound`, and the liveness properties of these modules except that place. `GenSyncData` uses symmetry over the elements
of one value, in a run that checks no liveness.

**Fairness.** `FairSpec` (`ParentsFairSpec` in IBLTSetOfSets) gives each host weak fairness on its own steps: a host is one
thread that only stops at a blocking receive or accept, where its step is disabled, or
by dying, which is never forced. In METIBLTSync and IBLTSetOfSets the same is written
`[]<>~CanRun(h) \/ []<><<HostStep(h)>>` over all variables, with an explicit `CanRun` where weak
fairness has ENABLED: it is true exactly where the host's step is enabled, and spares the
checker a peeling in every state. The scans of GenIBLT and IBLTMultiset are sequential code,
with weak fairness on the next step. No fairness is put on crashes.

### What the runs found

One disagreement with the documentation is a run of its own:

* In `MET_IBLT::peelOnce` keys listed by one table are erased from the others with `erase`,
  also those of the client, whose count has to be raised. Where both hosts lack
  elements, a key of the server's that shares a cell with one of the client's is then
  listed on the client's side (`METIBLTClaim_sides`); `OneSidedExact` holds where only one host
  lacks any.

The passing runs state the following exceptions, and show that there are no others:

* A server whose own set is empty is told of no differences and the session fails,
  although they are within m_bar (`OutcomesExact`).
* InterCPISync loses differences that share a position when there are more than m_bar of
  them: the recursion reaches an empty range, where both hosts declare that they have
  nothing and return true (`LostOnlyInCrowds`).
* A one-way server and a two-way client wait for each other instead of reporting the mismatch
  (`Termination` of CPISession and IBLTSession, which both have pairs in either direction in their runs).
* A server in `accept()` whose client is gone waits for ever (`Termination` of every session).
* Two hosts that each have more strings to send than a stream holds block each other
  (`Termination` of CPISession).
* `commRecv_Cuckoo` reads one byte less than was sent when the bits of a cuckoo filter are no multiple
  of 8 (Communicant.cpp:643 divides before it rounds up), and the next list is misread: what has a mark in
  that byte may be missed (`MissedOnlyMasked`, `Torn`), nothing wrong is merged (`NoEcho`), and the hosts may
  then wait for ever (`Termination`, `Stranded`).
* The IBLTSync client reports success after a partial reconciliation (`ServerKnows` is
  about the server only), and a repetition changes nothing (`CoreRemains`).
* `delElem` compares pointers where its documentation says values, and IBLTSync erases
  the value regardless; a filter lacks the elements it refused, and keeps the ones that were deleted
  (`SummaryExact`).
* `CPISync::addElem` may never return, in a table with no more free hashes than
  `fieldSize - DATA_MAX` (`LoopsOnlyBeyond`); after a deletion two hosts with equal
  multisets may have different hashes (`HashesByValue` holds only for tables from
  which nothing was deleted).
* Elements whose fingerprint is 0 are lost in a cuckoo filter (`NoFalseNegatives`, `CopiesExact`).
* An IBLT for one expected entry divides by zero at the first insertion (action `Crash` of
  GenIBLT).
* What a Bloom filter's false positive hides stays hidden in every later session
  (`MissedOnlyMasked`), and an element whose insertion into a cuckoo filter failed is sent
  again in each (`NoEcho`).
* A second session of one MET_IBLTSync that needs more than one table fills the tables of
  the first session, which hold its elements already (`Regular`, in `Termination`).
* Where the server of IBLTSetOfSets finds no partner for a child it throws, catches and
  returns, and the client waits for lists that never come (`Termination`); the place of a hash among the
  client's is used as an index into the server's own children, of which there may be fewer
  (`BeyondMySet`, excepted by `Termination`); after one
  of two equal children is deleted, hashes and children are out of step (`Aligned`).
* After an empty string the stream is one byte ahead (`Intact`, `Ends`), and after a partial
  send the byte counter grows by what is left (`CountersAgree`).

## Theorems

All theorems are for every value of the constants, from the `ASSUME`s of the modules.

* **CPISessionProofs** - `TypeCorrect`: `Spec => []TypeOK`. The type of `recvMeta` and of the
  messages needs `currDiff` to stay within 1..maxDiff on each host, which in turn needs
  that a host that does not give up has `currDiff < maxDiff`; the strengthening says so.
  `EnoughPoints`: the degree bounds cover the differences exactly when their number is
  at most the number of evaluations, whatever the parities - arithmetic on C++
  division, over the sizes of what two finite sets do not share.
  For hosts with equal agents: `InStep` (`LockStep`), `Outcomes` (`OutcomesExact`) and `Refinement` (`Spec /\ Matched => Reconciliation`). None
  of these is inductive, because none says what is on the streams. The invariant, `Link`,
  does: each round, past, present or to come, is in one of a dozen phases (`ModSent`,
  `EvalsSent`, `Refused`, `Found`, ...), each at which receives the two hosts are
  and what their two streams hold. In `Found` the streams hold flag, deltas and strings in
  part, and what a host is still to be sent is disjoint from what it has and from what is
  on its way (`Outbound`, `Unsent`), so that its count of strings due is right. A host that
  has quit stays in the round where it did, and every phase allows that. A step concerns one
  round; `RoundFrame` and `LocalStep` carry the others, and one lemma per action takes
  the round from phase to phase. For the refinement, `StepKinds` sorts the actions into
  decisions, ends of sessions, deaths and steps that the promise does not see.
  `SessionsConverge` is what the promise is for: two hosts that have both finished an "ok"
  two-way session, and no later one, hold the same set. It follows from the refinement and
  from `Reconcile!Spec` alone, whose invariant relates `base` to the sets before and after
  each host has finished a session.
* **IBLTSessionProofs** - `ListsAreExact` (`ListsExact`), `TheCoreRemains` (`CoreRemains`) and
  `ServerIsRight` (`ServerKnows`), for agents that are both two-way. The invariant has three
  parts. Each round is in a phase, which says where the hosts are and what the streams hold:
  after the decoding the two lists are on the client's stream in the order in which it reads
  them, each the one it is `Owed`. *Present* says that from the decision on a host's set
  stays the one the lists were made of until it merges, and which list it merges. *Past* is
  what remains of a session when its round is over: the host's set is that of the decision
  and its list, and a server that reports success has decoded all of them. Then what both
  hold after a session differs in the core alone, and an empty core means equal sets.
* **ExchangeSessionProofs** - `OnlyMaskedMissed` (`MissedOnlyMasked`) and
  `NothingComesTwice` (`NoEcho`), for agents that match. The first half is about filters: a
  host's filter is one of the elements whose insertion did not fail (`Kept`), over all
  sessions and whatever evictions have left of it, and `FilterTells` turns that into what
  a look-up can say. The second half is about rounds: the phases say whose filter and whose
  list are on the streams, and that a list on its way is `Due`: made from a filter that the
  receiver has not changed since. This is why a host that merges before its peer
  has read its list does no harm, and the proof has to show it for the three orders in which
  the kinds of agents send. `Bytes` is about the last byte of a cuckoo filter: where it does not arrive it
  lies before each list that is received, so that nothing but an empty list is taken (`NoEcho` holds
  because nothing is merged), and where it arrives, or there is none, no byte is ever left.
* **InterCPISessionProofs** - `TypeCorrect`: `Spec => []TypeOK`, whatever agents meet, because
  no call has its range reversed. For hosts with equal agents, `CallsAgree` (`SameCalls`) and
  `OnlyCrowdsAreLost` (`LostOnlyInCrowds`), from the invariant that `BlocksInvariance` states.
  The two call stacks say little of one another: each holds the host's own elements. What they
  have in common is a list of *blocks*, the sets of positions that are still to be
  reconciled, in order, and `CallsOf` makes of it the stack of either host. A round is
  `Undecided`, in its handshakes, or there is such a list and the hosts are at its first
  block (`Blocks`): both have declared what they have of it (`Level`), or it is in hand - at
  one of the receives of a node that is attempted, or that one host or neither has - with the
  streams as they must be there. Between two blocks the list is the same on both sides, although the
  hosts reach it one after the other and may be dead. `Resolved` follows the elements:
  whatever a host lacks of the sets of the decision is learned, or lost in a crowd, or at a
  position of a block of the list. A block leaves the list when its differences are learned. One that fails
  is replaced by its parts, which cover its positions (`PartsCover`: the arithmetic of the
  range's step, which is 0 for a range shorter than the number of parts); where it has a
  single position its failure means that more than m_bar differences are there
  (`FailureMeans`, on the degree bounds), and they are a crowd. At the end the list is empty.
* **GenIBLTProofs** - `CellsShowTheRest` (`Residual`): the invariant `KeysInv` says that each
  cell shows the keys of odd net content placed there and not listed yet; each action
  changes both by the same symmetric difference. `ListedOnTheRightSide`, `PeelingIsExact`
  and `GetTellsTheTruth` (`RightSide`, `PeelsExactly`, `GetSound`), under the assumption
  that no table holds a key twice, rest on `SetsInv`: its conjuncts *Counted* and *Balanced*
  tie a cell's count to the two sides of the keys it shows, *CoreKept* says that no key of
  the core is ever listed, and *Scanned* that the cells passed without listing
  anything since the pass began were not pure, so that a pass that lists nothing
  leaves no pure cell, and what remains is the core. For `get`, a cell that is empty shows
  no key and one that is pure shows its only one.
* **IBLTSetsProofs**, IBLTMultiset - the same for cells that hold several copies of a key:
  `CellsHoldTheRest`, `CopiesPeelExactly` (`PeelsExactly`), `HeldKeysAreRight`
  (`HeldKeysRight`) and, for the merge after the scan, `MergeIsExact` (`MergesExactly`). A
  cell is, key by key, the signed number of copies that are not listed yet, so that a
  listed key empties its place in each of its cells at once; core and scanned cells are
  used as in GenIBLT.
* **IBLTSetsProofs**, IBLTSetOfSets - `ParentsTypeCorrect`, `HashesAligned` (`Aligned`),
  `ChildrenOnlyGrow` (`NothingLost`) and `HostsConverge` (`Converges`), for any children, any
  order of the lists and any part of them. A parent is `Sound` when its hashes are distinct,
  when each child has as many of them as it has copies, and when, unless a copy was deleted
  while another was held, each is at the place of its child; adding a child keeps that
  because the new hash is fresh, and deleting one because some hash of the child is there to
  be found (`AddedSound`, `DeletedSound`). A child that is held once has the hash of 0 repetitions
  (`Singles`): hosts whose children are all held once and were never deleted out of step have equal hashes for
  equal children, so that no residue garbles a value (`EqualHashes`, `NothingGarbled`).
  `PostProcessedIs` follows the two loops of the post-processing: additions leave the earlier places as they are, and deletions from the
  last place to the first take away exactly those that were named, so that what remains of
  each child are the copies that were not rewritten and those that others became. `Aligned`
  and `NothingLost` follow, the latter from `Rewrites` alone: each rewritten place is named
  once, and the child put there holds the old one. For `Converges` the invariant,
  `ParentsInv`, says what is on both streams at each receive (`ToClient`, `ToServer`) and, in
  `Rewriting`, that as long as no host has changed its children, none is stale and none holds a
  child twice, the lists, on their way or
  received, are those that the pairs make: a one-to-one pairing (`PairIs`, whatever the greedy
  choice takes) of the children that only the client has with some that only the server has.
  Then the hash in a list finds the one place of its child (`ReWrittenIs`), both hosts
  replace the two children of a pair by the same union, and the copies are counted: a child
  that is not in a pair is on both hosts or on none, and a union is on each as often as it is
  that of a pair (`PostedIs`, `PostedUnions`). `Rewriting` does not outlive the
  first host's post-processing, nor does `Converges`, which is about what both are going to hold.
* **CuckooSocketProofs**, the filter - `FilterTypeCorrect`; `NothingIsLost` (`NoFalseNegatives`) and
  `EveryCopyHasItsItem` (`CopiesExact`): the
  invariant is a bijection between the stored items of nonzero fingerprint and the
  nonempty entries in their buckets, with one item in hand during a chain; restricted to
  the items that share a fingerprint and a pair of buckets it counts their entries.
  `FailedInsertRestores` (`FailureRestores`): the stack *undoes* the table to `before`,
  an invariant on sequences of slots that holds even if a slot occurs twice.
* **CuckooSocketProofs**, the socket - `StringsAreIntact` (`Intact`) and `BytesAreCounted`
  (`CountersAgree`). All bytes ever given to `commSend` make one sequence; the invariant
  `Link` says that there are places, `start`, at which the strings begin in it, such that
  the stream is the part of the sequence from the bytes read to the bytes taken by the
  kernel (`Content`), the server is at the beginning of a string or after its length
  (`ServerAt`), and what the client has still to send is what follows in the string it is
  sending (`ClientAt`). A send of any number of bytes and a receive move the window; a
  long that is read where one begins is the length of that string. `Link` ends for good
  when the server has received an empty string (`Astray`), and what it then receives is
  excepted by `Intact`.
* **DataPeelingProofs**, the data - `DataTypeCorrect`, `AgentsHoldTheData` (`AgentsAgree`),
  `RootsAreExact` (`RootsExact`), `SummariesAreExact` (`SummaryExact`), `HashesAreByValue`
  (`HashesByValue`) and `SearchesEnd` (`LoopsOnlyBeyond`). The invariant says of every agent
  of a running process that it `Holds` the data, in the form of its kind: `Stored`, the
  hash table is a bijection with the elements and the evaluations have its hashes as
  roots; `Counted`, the bag counts the elements that went into it (`Into`: all but those that a
  filter refused), for the values that have not slipped; `ByValue`, the hashes
  are those that the copies of each value get in an empty table. One lemma per operation of
  an agent keeps that (`HoldsMore`, `HoldsFewer`); a `delElem` that fails at
  one agent keeps it because that agent, and so every other, does not hold the element: those
  before it have deleted nothing, or an IBLT a value that counts as slipped from then on. The
  loops of `clearData` and `addSyncAgt` are recursive
  functions along the data; `LoopRuns` and `Induction`, both from the least number of a
  set, say that such a loop stays among the states that its steps keep. For `ByValue`,
  `NextAlone`: the hash that one more copy gets, the first free one, is the next of those
  that its value reaches, because what is in the way are its own copies only. For
  `SearchesEnd`, `ReachIsLarge` counts: the sums `_hash + _hash2(count)` are distinct before
  they are reduced in the field, since DATA_MAX is a power of two (`StepAssumption` says of
  it only that it divides no `101 * n` for n from 1 to DATA_MAX - 1), and the reduction
  identifies no more of them than the field has elements beyond the hashes.
* **DataPeelingProofs**, the tables of MET_IBLTSync - `PeelTypeCorrect`, `TablesPeelTogether`
  (`PeelsTogether`) and `OneSideIsExact` (`OneSidedExact`), for any placement of the elements
  in the cells. `Scanned(t, r)` says what a scan can have made of a table `t`: what it listed
  was shown by the table, what is shown now is the rest, and a table of one sign stays so and
  lists on one side. Each cell keeps that (`PureCell`, `CountSigns`: the count of a cell is a
  sum that is added up element by element), and so by `LoopRuns` do a pass over the cells and
  all passes. Over the tables together, `PassKeeps`: when all show the same elements they still
  do after what one lists is erased from the others, whatever sign it is erased with, because
  only the parity shows; `PassSides` keeps the sign where the differences have one; and
  `LastPass`: an empty table means that nothing is left in any. The invariant, `PeelInv`, has
  five phases of a session (`Between`, `TableSent`, `Peels`, `Refused`, `Answered`) with what is
  on its way in each; the server's differences are those of the two sets in every table
  (`Differences`). This needs that the tables hold what the host holds (`TablesInv`), which
  fails when a second session appends tables; `GrewInv` says that a host with more tables
  than it has used in this session appended them in an earlier one, so that a table appended
  now is the one that is filled (`GrowsTables`).

Every invariant and action property of a passing run is stated by a theorem. Model-checked
only: liveness (`Termination`, `Terminates`, `Ends`) and whatever uses
`ENABLED` (`Blocked`), which TLAPS does not handle; the encodings (`EntriesPacked`,
`FiltersConverted`), folds whose value for every input needs induction over data; what IBLTSession, ExchangeSession, CPISession and InterCPISession do
between agents that differ, beyond their types.

## Not modelled, and why

Field arithmetic, interpolation and root finding (their success condition is);
probabilities of error, collisions of hashes and of IBLT check values; the contents of
messages beyond what receivers distinguish; statistics, logging, benchmarks, tools;
DataObject, CommString and the conversions of Auxiliary.h, which turn numbers, strings and
sets into one another and keep no state; HashSync, which no builder offers;
header-only classes that nothing uses (PrioCPISync, the old containers). The modulus is
global to a process (`ZZ_p::init`): sessions have one agent per host, so agents that
disturb each other through it are not covered.

`src/incubator-datasketches-cpp` is a vendored library of which GenSync uses two sketches, in
`Aux/Sketches`, to describe the data of a benchmark (how many distinct elements, which ones
are frequent); no synchronization depends on them. It holds
26,500 of the 41,000 lines of C++ in the repository; of the other 14,500, about half are
tests, benchmarks, tools and the conversions above.

## Plan

Built: the sessions of CPISync, its numbers, its abstract promise and their proofs; GenIBLT and its
proofs; IBLTSync and its proofs; Cuckoo and its proofs; the data of a GenSync object and its proofs; the
sessions of FullSync, BloomFilterSync and CuckooSync and their proofs; the recursion of InterCPISync and its
proofs; MET_IBLTSync and its proofs;
IBLTMultiset and its proofs; IBLTSetOfSets and its proofs; CommSocket and its proofs; the encodings of packed arrays
and Bloom filters.

Left, most important first:

1. Several agents and communicants of one GenSync at once: the shared modulus, and a
   second agent that starts on what the first one has just added.
2. An abstract reconciliation that may miss elements, of which `Reconcile` is the case
   that misses none, implemented by ExchangeSession, IBLTSession and InterCPISession.
3. Sample points and moduli of CPISync as numbers.
4. Proofs: the refinement for CPISession between agents that differ; the numbers of the
   encodings, where their folds can be written as the loops that `LoopRuns` covers.
