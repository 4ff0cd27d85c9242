-------------------------------- MODULE Raft --------------------------------
(***************************************************************************)
(* tasks/task_042: RaftNode and RaftCluster.  The cluster calls the nodes  *)
(* synchronously: elect_leader and replicate visit the reachable peers one *)
(* by one in the order of the node list, and each visit is a request and   *)
(* its response.  op holds the visits that are left.  partition and        *)
(* heal_partition are called any number of times between two calls, so a   *)
(* call finds any set of links in order, all of them if none ever fails.   *)
(***************************************************************************)
EXTENDS Integers, FiniteSets, SequencesExt, FiniteSetsExt

CONSTANTS NodeList,  \* node_ids
          Nil,       \* None
          Candidates,           \* bound: the nodes whose elections are called
          MaxTerm, MaxRequests  \* bounds: elections and client requests

ASSUME RaftAssumption == /\ IsFiniteSet(ToSet(NodeList))
                         /\ Nil \notin ToSet(NodeList)
                         /\ MaxTerm \in Nat /\ MaxRequests \in Nat

VARIABLES currentTerm, votedFor, log, state, commitIndex, lastApplied,
          nextIndex, matchIndex, votesReceived, appliedCommands,
          mayCut,    \* whether links fail at all in this behaviour
          op,        \* the cluster call in progress
          requests   \* client requests accepted so far

Nodes == ToSet(NodeList)
Majority == (Len(NodeList) \div 2) + 1
Idle == [call |-> "none"]

progress == <<commitIndex, lastApplied, appliedCommands>>
leading == <<nextIndex, matchIndex>>
vars == <<currentTerm, votedFor, log, state, progress, leading,
          votesReceived, mayCut, op, requests>>

LastIndex(l) == Len(l)
LastTerm(l) == IF l = <<>> THEN 0 ELSE Last(l).term
TermAt(l, i) == IF i \in DOMAIN l THEN l[i].term ELSE 0

\* dict.get and dict assignment on next_index and match_index.
Get(d, k, default) == IF k \in DOMAIN d THEN d[k] ELSE default
Put(d, k, v) == [x \in DOMAIN d \cup {k} |-> IF x = k THEN v ELSE d[x]]
Empty == [x \in {} |-> 0]

Place(m) == CHOOSE i \in DOMAIN NodeList : NodeList[i] = m

\* The lists of peers a call of n may visit, in the order of the dict of
\* nodes: those it can communicate with.
Reachable(n) ==
  {s \in UNION {[1..Cardinality(up) -> up] :
               up \in IF mayCut THEN SUBSET (Nodes \ {n}) ELSE {Nodes \ {n}}} :
     \A i, j \in DOMAIN s : i < j => Place(s[i]) < Place(s[j])}

\* The loops over the peers: a call with none left is over.
Begin(call) == IF call.todo = <<>> THEN Idle ELSE call
Rest == Begin([op EXCEPT !.todo = Tail(@)])
-----------------------------------------------------------------------------
Init == /\ currentTerm = [n \in Nodes |-> 0]
        /\ votedFor = [n \in Nodes |-> Nil]
        /\ log = [n \in Nodes |-> <<>>]
        /\ state = [n \in Nodes |-> "follower"]
        /\ commitIndex = [n \in Nodes |-> 0]
        /\ lastApplied = [n \in Nodes |-> 0]
        /\ nextIndex = [n \in Nodes |-> Empty]
        /\ matchIndex = [n \in Nodes |-> Empty]
        /\ votesReceived = [n \in Nodes |-> {}]
        /\ appliedCommands = [n \in Nodes |-> <<>>]
        /\ mayCut \in BOOLEAN
        /\ op = Idle
        /\ requests = 0

\* elect_leader up to its loop: become_candidate and the one vote request.
StartElection(c) ==
  /\ op = Idle
  /\ c \in Candidates /\ currentTerm[c] < MaxTerm
  /\ currentTerm' = [currentTerm EXCEPT ![c] = @ + 1]
  /\ state' = [state EXCEPT ![c] = "candidate"]
  /\ votedFor' = [votedFor EXCEPT ![c] = c]
  /\ votesReceived' = [votesReceived EXCEPT ![c] = {c}]
  /\ \E peers \in Reachable(c) :
       op' = Begin([call |-> "elect", node |-> c, todo |-> peers,
                    term |-> currentTerm[c] + 1])
  /\ UNCHANGED <<log, progress, leading, mayCut, requests>>

UpToDate(mine, theirs) ==
  \/ LastTerm(theirs) > LastTerm(mine)
  \/ /\ LastTerm(theirs) = LastTerm(mine)
     /\ LastIndex(theirs) >= LastIndex(mine)

\* Mutant: the votes are counted without looking at vote_granted.
WinsAnyAnswer(votes, granted) == Cardinality(votes) >= Majority - 1

\* handle_vote_response: a granted vote that completes a majority.
Wins(votes, granted) == granted /\ Cardinality(votes) >= Majority

\* One turn of elect_leader's loop: the peer handles the request, then the
\* candidate the response; a candidate that wins prepares next_index.
RequestVote ==
  /\ op.call = "elect"
  /\ LET c == op.node
         v == Head(op.todo)
         vTerm == IF op.term > currentTerm[v] THEN op.term ELSE currentTerm[v]
         vVote == IF op.term > currentTerm[v] THEN Nil ELSE votedFor[v]
         granted == /\ op.term >= currentTerm[v]
                    /\ vVote \in {Nil, c}
                    /\ UpToDate(log[v], log[c])
         stale == vTerm > currentTerm[c]
         counts == ~stale /\ state[c] = "candidate"
         votes == IF counts /\ granted THEN votesReceived[c] \cup {v}
                                       ELSE votesReceived[c]
         wins == counts /\ Wins(votes, granted)
     IN /\ currentTerm' = [currentTerm EXCEPT ![v] = vTerm,
                                              ![c] = IF stale THEN vTerm ELSE @]
        /\ votedFor' = [votedFor EXCEPT ![v] = IF granted THEN c ELSE vVote,
                                        ![c] = IF stale THEN Nil ELSE @]
        /\ state' = [state EXCEPT
             ![v] = IF op.term > currentTerm[v] THEN "follower" ELSE @,
             ![c] = IF stale THEN "follower" ELSE IF wins THEN "leader" ELSE @]
        /\ votesReceived' = [votesReceived EXCEPT ![c] = votes]
        /\ nextIndex' = IF wins THEN [nextIndex EXCEPT
                ![c] = [f \in Nodes \ {c} |-> LastIndex(log[c]) + 1]]
                                ELSE nextIndex
        /\ matchIndex' = IF wins THEN [matchIndex EXCEPT
                ![c] = [f \in Nodes |-> IF f = c THEN LastIndex(log[c]) ELSE 0]]
                                 ELSE matchIndex
        /\ op' = IF wins THEN Idle ELSE Rest
  /\ UNCHANGED <<log, progress, mayCut, requests>>

NewEntry(n) ==
  [term |-> currentTerm[n], index |-> LastIndex(log[n]) + 1,
   command |-> requests + 1]

\* client_request on a leader; any other node returns None.
ClientRequest(n) ==
  /\ op = Idle /\ state[n] = "leader" /\ requests < MaxRequests
  /\ requests' = requests + 1
  /\ log' = [log EXCEPT ![n] = Append(@, NewEntry(n))]
  /\ matchIndex' = [matchIndex EXCEPT ![n] = Put(@, n, LastIndex(log[n]) + 1)]
  /\ UNCHANGED <<currentTerm, votedFor, state, progress, nextIndex,
                 votesReceived, mayCut, op>>

\* replicate looks at the state of the leader here, and nowhere later.
StartReplicate(n) ==
  /\ op = Idle /\ state[n] = "leader"
  /\ \E peers \in Reachable(n) :
       op' = Begin([call |-> "replicate", node |-> n, todo |-> peers])
  /\ UNCHANGED <<currentTerm, votedFor, log, state, progress, leading,
                 votesReceived, mayCut, requests>>

\* prepare_append_entries: everything from next_index on.
Prepare(n, f) ==
  LET next == Get(nextIndex[n], f, LastIndex(log[n]) + 1) IN
  [term |-> currentTerm[n], prevIndex |-> next - 1,
   prevTerm |-> TermAt(log[n], next - 1),
   entries |-> SubSeq(log[n], next, LastIndex(log[n])),
   commit |-> commitIndex[n]]

\* Mutant: entries are appended wherever their index is past the log.
ConsistentUnchecked(l, req) == TRUE

\* The test on the entry before the new ones.
Consistent(l, req) ==
  req.prevIndex > 0 => /\ req.prevIndex \in DOMAIN l
                       /\ l[req.prevIndex].term = req.prevTerm

\* Mutant: an entry that is there already is not compared.
AddEntryKeeping(l, e) == IF e.index > Len(l) THEN Append(l, e) ELSE l

\* An entry the log lacks is appended, one that conflicts cuts the log.
AddEntry(l, e) ==
  IF e.index > Len(l) THEN Append(l, e)
  ELSE IF l[e.index].term # e.term THEN Append(SubSeq(l, 1, e.index - 1), e)
  ELSE l

\* The loop over the entries of a request.
Extended(l, entries) ==
  LET done[i \in 0 .. Len(entries)] ==
        IF i = 0 THEN l ELSE AddEntry(done[i - 1], entries[i])
  IN done[Len(entries)]

\* Mutant: the range starts at last_applied itself.
NewlyAppliedAgain(l, from, to) ==
  LET new == SubSeq(l, Max({1, from}), Min({to, LastIndex(l)}))
  IN  [k \in DOMAIN new |-> new[k].command]

\* _apply_committed: the commands of the entries that exist, in order.
NewlyApplied(l, from, to) ==
  LET new == SubSeq(l, from + 1, Min({to, LastIndex(l)}))
  IN  [k \in DOMAIN new |-> new[k].command]

\* _try_advance_commit: any node's match_index at or past i commits i, the
\* leader's own included.
NewCommit(n, l, match) ==
  Max({commitIndex[n]} \cup {i \in (commitIndex[n] + 1)..Len(l) :
         /\ l[i].term = currentTerm[n]
         /\ \E m \in DOMAIN match : match[m] >= i})

\* One turn of replicate's loop: whoever op.node is by now prepares the
\* request, the peer handles it, op.node handles the response.
AppendEntries ==
  /\ op.call = "replicate"
  /\ LET n == op.node
         f == Head(op.todo)
         req == Prepare(n, f)
         current == req.term >= currentTerm[f]
         success == current /\ Consistent(log[f], req)
         fTerm == IF current THEN req.term ELSE currentTerm[f]
         fLog == IF success THEN Extended(log[f], req.entries)
                            ELSE log[f]
         fCommit == IF success /\ req.commit > commitIndex[f]
                      THEN Min({req.commit, Len(fLog)}) ELSE commitIndex[f]
         stale == fTerm > currentTerm[n]
         leads == ~stale /\ state[n] = "leader"
         match == IF leads /\ success THEN Put(matchIndex[n], f, Len(fLog))
                                      ELSE matchIndex[n]
         next == Get(nextIndex[n], f, LastIndex(log[n]) + 1)
         nCommit == IF leads /\ success THEN NewCommit(n, log[n], match)
                                        ELSE commitIndex[n]
     IN /\ currentTerm' = [currentTerm EXCEPT ![f] = fTerm,
                                              ![n] = IF stale THEN fTerm ELSE @]
        /\ votedFor' = [votedFor EXCEPT ![f] = IF current THEN Nil ELSE @,
                                        ![n] = IF stale THEN Nil ELSE @]
        /\ state' = [state EXCEPT ![f] = IF current THEN "follower" ELSE @,
                                  ![n] = IF stale THEN "follower" ELSE @]
        /\ log' = [log EXCEPT ![f] = fLog]
        /\ matchIndex' = [matchIndex EXCEPT ![n] = match]
        /\ nextIndex' = [nextIndex EXCEPT ![n] =
             IF ~leads THEN @
             ELSE Put(@, f, IF success THEN Len(fLog) + 1 ELSE Max({1, next - 1}))]
        /\ commitIndex' = [commitIndex EXCEPT ![f] = fCommit, ![n] = nCommit]
        /\ lastApplied' = [lastApplied EXCEPT ![f] = Max({@, fCommit}),
                                              ![n] = Max({@, nCommit})]
        /\ appliedCommands' = [appliedCommands EXCEPT
             ![f] = @ \o NewlyApplied(fLog, lastApplied[f], fCommit),
             ![n] = @ \o NewlyApplied(log[n], lastApplied[n], nCommit)]
        /\ op' = Rest
  /\ UNCHANGED <<votesReceived, mayCut, requests>>

Next == \/ \E n \in Nodes : StartElection(n) \/ ClientRequest(n)
                             \/ StartReplicate(n)
        \/ RequestVote \/ AppendEntries

Spec == Init /\ [][Next]_vars
-----------------------------------------------------------------------------
Entries == [term : 1..MaxTerm, index : Nat \ {0}, command : Nat \ {0}]

TypeOK ==
  /\ currentTerm \in [Nodes -> 0..MaxTerm]
  /\ votedFor \in [Nodes -> Nodes \cup {Nil}]
  /\ \A n \in Nodes : \A i \in DOMAIN log[n] : log[n][i] \in Entries
  /\ state \in [Nodes -> {"follower", "candidate", "leader"}]
  /\ commitIndex \in [Nodes -> Nat] /\ lastApplied \in [Nodes -> Nat]
  /\ votesReceived \in [Nodes -> SUBSET Nodes]
  /\ requests \in 0..MaxRequests

\* A leader has the votes of a majority, and every voter has reached its term.
\* It may share them with another leader of the term: an AppendEntries of the
\* same term makes a node forget its vote (become_follower).
LeaderWasElected ==
  \A n \in Nodes : state[n] = "leader" =>
    /\ Cardinality(votesReceived[n]) >= Majority
    /\ \A v \in votesReceived[n] : currentTerm[v] >= currentTerm[n]

\* The index of an entry is its position and the terms of a log rise, through
\* conflicts, retries with a lower next_index and deposed leaders.
LogShape == TypeOK /\
  \A n \in Nodes :
    /\ \A i \in DOMAIN log[n] : log[n][i].index = i
                                /\ log[n][i].term <= currentTerm[n]
    /\ \A i \in 1..(Len(log[n]) - 1) : log[n][i].term <= log[n][i + 1].term

\* While no link fails, the nodes apply the same commands in the same order.
ConnectedNodesAgree ==
  ~mayCut => \A m, n \in Nodes :
    \/ IsPrefix(appliedCommands[m], appliedCommands[n])
    \/ IsPrefix(appliedCommands[n], appliedCommands[m])

\* A node applies each command once, also when its commit index falls: a leader
\* whose log is shorter than what it committed sets it to the length of that log.
AppliedOnce ==
  \A n \in Nodes : IsInjective(appliedCommands[n])

\* description.md: an entry is committed only when a majority of all servers
\* has it in their logs.
CommittedOnMajority ==
  op = Idle => \A n \in Nodes : \A i \in 1..commitIndex[n] :
    (state[n] = "leader" /\ i \in DOMAIN log[n]
       /\ log[n][i].term = currentTerm[n]) =>
      Cardinality({m \in Nodes : i \in DOMAIN log[m]
                                 /\ log[m][i] = log[n][i]}) >= Majority
=============================================================================
