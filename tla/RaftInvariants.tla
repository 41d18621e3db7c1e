--------------------------- MODULE RaftInvariants ---------------------------
(***************************************************************************)
(* What the proofs about Raft are about: its inductive invariants, from    *)
(* the types up to the history of Leaders, the few shapes of step that     *)
(* matter to logs, and what is committed.  No definition here models code. *)
(***************************************************************************)
EXTENDS Raft

InFlight == [requestID : Nat, leaderCommit : Nat]

\* A Leader's nextIndex points into its log or just behind it: without this a
\* request could have the previous index -1.
NextIndexPositive ==
    \A n \in Node : role[n] = "Leader" => \A p \in Node : nextIndex[n][p] # 0

\* The inductive form of TypeOK.
TypeInv == TypeOK /\ NextIndexPositive

-----------------------------------------------------------------------------
(* Elections.  The messages record the votes: a Node votes by sending a    *)
(* granted VoteResponse, and for itself by sending VoteRequests.           *)

\* The messages ms record a vote of v for c in term t.
Granted(ms, v, c, t) ==
    \E m \in ms : /\ m.type = "VoteResponse" /\ m.granted
                  /\ m.from = v /\ m.to = c /\ m.term = t

Campaigned(ms, c, t) ==
    \E m \in ms : m.type = "VoteRequest" /\ m.from = c /\ m.term = t

Voted(ms, v, c, t) == Granted(ms, v, c, t) \/ (v = c /\ Campaigned(ms, c, t))

\* A quorum voted for n in term t.
Elected(ms, n, t) ==
    \E Q \in SUBSET Node : IsQuorum(Q) /\ \A v \in Q : Voted(ms, v, n, t)

\* A Node remembers its vote until it moves to a later term.
VotesKept ==
    \A v, c \in Node : \A t \in Nat :
        Voted(msgs, v, c, t) => (term[v] > t \/ (term[v] = t /\ votedFor[v] = c))

\* A Node votes for one candidate in a term.
VotesOnce ==
    \A v, c1, c2 \in Node : \A t \in Nat :
        Voted(msgs, v, c1, t) /\ Voted(msgs, v, c2, t) => c1 = c2

\* A Candidate counts votes that were given to it in its term.
VotesCounted ==
    \A n \in Node : role[n] = "Candidate" => \A v \in votes[n] : Voted(msgs, v, n, term[n])

LeadersElected ==
    \A n \in Node : role[n] = "Leader" => Elected(msgs, n, term[n])

SendersElected ==
    \A m \in msgs : m.type = "AppendEntries" => Elected(msgs, m.from, m.term)

\* The inductive form of ElectionSafety.
ElectionInv == /\ VotesKept /\ VotesOnce
               /\ VotesCounted /\ LeadersElected /\ SendersElected

-----------------------------------------------------------------------------
(* Shapes of steps: what a step of one Node may do to roles, terms, logs,  *)
(* commit indexes and what a Leader believes of its peers, and which       *)
(* messages it may send.  The arguments about logs need these shapes only. *)

\* Everything about the Nodes other than n stays.
Others(n) ==
    \A p \in Node \ {n} :
        /\ role'[p] = role[p] /\ term'[p] = term[p]
        /\ log'[p] = log[p] /\ commitIndex'[p] = commitIndex[p]
        /\ matchIndex'[p] = matchIndex[p] /\ nextIndex'[p] = nextIndex[p]

LogStays(n) == log'[n] = log[n] /\ commitIndex'[n] = commitIndex[n]

\* No Node asks itself for an append, or answers itself.
Addressed ==
    \A m \in msgs : m.type \in {"AppendEntries", "AppendEntriesResponse"} => m.to # m.from

\* A response that rejects a request of an earlier term carries no hint.
Hintless(m) == m.type = "AppendEntriesResponse" /\ ~m.success /\ m.conflictIndex = 0

\* Messages that bind nobody.
Inert(m) ==
    \/ m.type \in {"PreVoteRequest", "PreVoteResponse"}
    \/ m.type = "VoteResponse" /\ ~m.granted
    \/ Hintless(m) /\ m.to # m.from

\* The vote of n in the term it is in after the step, for a candidate whose
\* log is up to date.
VoteOf(n, r) ==
    /\ r.type = "VoteResponse" /\ r.from = n /\ r.term = term'[n]
    /\ \E m \in msgs : /\ m.type = "VoteRequest" /\ m.from = r.to /\ m.term = r.term
                       /\ CandidateLogIsUpToDate(m.lastLogTerm, m.lastLogIndex, log[n])

\* Node n answers, waits, steps down or restarts.
Listens(n) ==
    /\ Others(n)
    /\ LogStays(n)
    /\ term'[n] >= term[n]
    /\ role'[n] = "Candidate" => role[n] = "Candidate" /\ term'[n] = term[n]
    /\ role'[n] = "Leader" =>
           /\ role[n] = "Leader" /\ term'[n] = term[n]
           /\ matchIndex'[n] = matchIndex[n] /\ nextIndex'[n] = nextIndex[n]
    /\ \A r \in msgs' : r \in msgs \/ Inert(r) \/ VoteOf(n, r)

\* Node n starts an election.
Campaigns(n) ==
    /\ Others(n)
    /\ LogStays(n)
    /\ role'[n] = "Candidate" /\ term'[n] = term[n] + 1
    /\ \A r \in msgs' :
           \/ r \in msgs
           \/ /\ r.type = "VoteRequest" /\ r.from = n /\ r.term = term'[n]
              /\ r.lastLogIndex = Len(log[n]) /\ r.lastLogTerm = LastLogTerm(log[n])

\* A request of Leader n for what it believes peer r.to lacks.
RequestOf(n, r) ==
    /\ r.type = "AppendEntries" /\ r.from = n /\ r.to \in Peers(n) /\ r.term = term[n]
    /\ LET next == FirstToSend(nextIndex'[n][r.to], log'[n])
       IN  /\ r.prevLogIndex = next - 1
           /\ r.prevLogTerm = TermAt(log'[n], next - 1)
           /\ r.entries = EntriesBatch(log'[n], next, MaxBatch)
    /\ r.leaderCommit = commitIndex'[n]

Leads(n) ==
    /\ Others(n)
    /\ role'[n] = "Leader" /\ term'[n] = term[n]
    /\ \A r \in msgs' : r \in msgs \/ RequestOf(n, r)

\* Node n becomes Leader of its term.
Wins(n) ==
    /\ Leads(n)
    /\ role[n] = "Candidate"
    /\ Elected(msgs, n, term[n])
    /\ log'[n] = Append(log[n], [term |-> term[n], cmd |-> NoOp])
    /\ commitIndex'[n] = commitIndex[n]
    /\ \A p \in Node : matchIndex'[n][p] = 0 /\ nextIndex'[n][p] = Len(log'[n]) + 1

\* Leader n takes a proposal, or only sends.
Sends(n) ==
    /\ Leads(n)
    /\ role[n] = "Leader"
    /\ \/ log'[n] = log[n]
       \/ \E e \in Entry : e.term = term[n] /\ log'[n] = Append(log[n], e)
    /\ commitIndex'[n] = commitIndex[n]
    /\ matchIndex'[n] = matchIndex[n] /\ nextIndex'[n] = nextIndex[n]

\* Leader n takes a response of its term.
Learns(n, m) ==
    /\ Leads(n)
    /\ m \in msgs /\ m \in AppendResponses /\ m.to = n
    /\ role[n] = "Leader" /\ m.term = term[n]
    /\ log'[n] = log[n]
    /\ matchIndex'[n] = [matchIndex[n] EXCEPT ![m.from] = LearnMatch(n, m)]
    /\ nextIndex'[n] = [nextIndex[n] EXCEPT ![m.from] = LearnNext(n, m)]
    /\ \/ commitIndex'[n] = commitIndex[n]
       \/ commitIndex'[n] \in Committable(n, log[n], matchIndex'[n])

\* Node n follows the sender of request m.
Follows(n, m) ==
    /\ Others(n)
    /\ m \in msgs /\ m \in AppendRequests /\ m.to = n
    /\ m.term >= term[n]
    /\ role'[n] = "Follower" /\ term'[n] = m.term

\* It takes the entries of m,
Accepts(n, m) ==
    /\ Follows(n, m)
    /\ Consistent(n, m)
    /\ log'[n] = AppendNew(log[n], m.prevLogIndex, m.entries)
    /\ commitIndex'[n] = Max({commitIndex[n], FollowerCommit(m, log'[n])})
    /\ msgs' = msgs \cup {AppendResponse(n, m, m.term, TRUE, Len(log'[n]), NoHint)}

\* or some of them before it crashes,
Crashes(n, m) ==
    /\ Follows(n, m)
    /\ Consistent(n, m)
    /\ log'[n] \in PartialLogs(log[n], m.prevLogIndex, m.entries)
    /\ commitIndex'[n] = commitIndex[n]
    /\ msgs' = msgs

\* or says why not.
Rejects(n, m) ==
    /\ Follows(n, m)
    /\ ~Consistent(n, m)
    /\ LogStays(n)
    /\ LET probe == IF Matches(log[n], m.prevLogIndex, m.prevLogTerm)
                    THEN m.prevLogIndex + 1 ELSE m.prevLogIndex
       IN  msgs' = msgs \cup {AppendResponse(n, m, m.term, FALSE, Len(log[n]),
                                             ConflictHint(log[n], probe))}

\* A step that matters to logs.
Step == \E n \in Node : \/ Listens(n) \/ Campaigns(n) \/ Wins(n) \/ Sends(n)
                        \/ \E m \in msgs : \/ Learns(n, m) /\ HandleAppendEntriesResponse(n, m)
                                           \/ Accepts(n, m) \/ Crashes(n, m) \/ Rejects(n, m)

\* No Leader takes for an answer to a request of its term the rejection of one
\* it sent in an earlier term.  handleAppendEntriesResponse cannot tell them
\* apart (raft.go:1031): both carry the term of the peer that answers.
StaleAnswersIgnored ==
    \A m \in msgs : Hintless(m) /\ role[m.to] = "Leader" /\ term[m.to] = m.term =>
        ~HandleAppendEntriesResponse(m.to, m)

-----------------------------------------------------------------------------
(* The history of Leaders. *)

\* Entries of one term at one index of two logs come with the same past.
SamePast(l, x) ==
    \A i \in 1..Len(l) : i <= Len(x) /\ l[i].term = x[i].term => AgreeUpTo(i, l, x)

\* The entries are those that x holds after index prev.
PartOf(entries, prev, x) ==
    /\ prev + Len(entries) <= Len(x)
    /\ \A k \in 1..Len(entries) : entries[k] = x[prev + k]

\* Every entry of l came, with its past, from the Leader of its term.
FromLeaders(l, L) == \A i \in 1..Len(l) : AgreeUpTo(i, l, L[l[i].term])

TermsUpTo(l, t) == \A i \in 1..Len(l) : l[i].term <= t

\* L[t] is the log of the Leader of term t as it last was, <<>> without one,
\* and W[t] is that Leader.
History(L, W) ==
    /\ L \in [Nat -> Seq(Entry)] /\ W \in [Nat -> Node] /\ L[0] = <<>>
    /\ \A t \in Nat : /\ FromLeaders(L[t], L)
                      /\ TermsUpTo(L[t], t)
                      /\ L[t] # <<>> => L[t][Len(L[t])].term = t

LogsRecorded(L) == \A n \in Node : FromLeaders(log[n], L) /\ TermsUpTo(log[n], term[n])

\* The Leader of a term keeps its log for as long as it stays in the term.
LeadersRecorded(L, W) ==
    /\ \A n \in Node : /\ role[n] = "Leader" => L[term[n]] # <<>> /\ W[term[n]] = n
                       /\ role[n] = "Candidate" => term[n] # 0
    /\ \A t \in Nat : L[t] # <<>> =>
          /\ Elected(msgs, W[t], t)
          /\ term[W[t]] >= t
          /\ term[W[t]] = t => role[W[t]] # "Candidate" /\ log[W[t]] = L[t]

\* A request carries a part of its sender's log; one without entries comes
\* after the last entry.
RequestRecorded(m, L, W) ==
    /\ L[m.term] # <<>> /\ m.from = W[m.term]
    /\ PartOf(m.entries, m.prevLogIndex, L[m.term])
    /\ m.prevLogTerm = TermAt(L[m.term], m.prevLogIndex)
    /\ m.entries = <<>> => m.prevLogTerm = m.term

RequestsRecorded(L, W) == \A m \in msgs : m.type = "AppendEntries" => RequestRecorded(m, L, W)

\* The inductive form of LogMatching.
HistoryInv(L, W) ==
    /\ History(L, W) /\ LogsRecorded(L) /\ LeadersRecorded(L, W)
    /\ RequestsRecorded(L, W) /\ Addressed

\* Leaders only append.
Extends(L, M) == \A t \in Nat : AgreeUpTo(Len(L[t]), L[t], M[t])

\* A step in which no Leader is made and no request sent.
Unled(n) ==
    /\ Others(n)
    /\ term'[n] >= term[n]
    /\ role'[n] = "Leader" => role[n] = "Leader" /\ term'[n] = term[n]
    /\ role'[n] = "Candidate" => (role[n] = "Candidate" /\ term'[n] = term[n]) \/ term'[n] > term[n]
    /\ \A m \in msgs' : \/ m \in msgs
                        \/ /\ m.type # "AppendEntries"
                           /\ m.type = "AppendEntriesResponse" => m.to # m.from

\* A step of a Leader, its first one included.
Acts(n) ==
    /\ Leads(n)
    /\ \/ role[n] = "Leader" /\ log'[n] = log[n]
       \/ /\ role[n] = "Leader" \/ (role[n] = "Candidate" /\ Elected(msgs, n, term[n]))
          /\ \E e \in Entry : e.term = term[n] /\ log'[n] = Append(log[n], e)

\* M and V add that step to the history.
Records(n, L, W, M, V) ==
    /\ M = [L EXCEPT ![term[n]] = log'[n]]
    /\ V = [W EXCEPT ![term[n]] = n]

-----------------------------------------------------------------------------
(* What the Cluster committed, and the steps that move it. *)

\* No Node committed more than p.
Foremost(p) == \A q \in Node : commitIndex[q] <= commitIndex[p]

\* What two Nodes committed is the same as far as both go.
CommitsAgree ==
    \A n, p \in Node :
        commitIndex[n] <= commitIndex[p] => AgreeUpTo(commitIndex[n], log[n], log[p])

\* A Leader holds all that is committed, unless a later term committed it.
LeadersHoldLast ==
    \A n, p \in Node :
        role[n] = "Leader" /\ Foremost(p) /\ TermAt(log[p], commitIndex[p]) <= term[n] =>
            AgreeUpTo(commitIndex[p], log[n], log[p])

\* Node n, now no Leader, commits no more than another has.
Yields(n) ==
    /\ role'[n] # "Leader"
    /\ \E p \in Node : commitIndex'[n] <= commitIndex[p]
    /\ role[n] = "Leader" => LogStays(n)

\* Node n becomes the only Leader its term has had.
Ascends(n) ==
    /\ Wins(n)
    /\ term[n] # 0
    /\ \A q \in Node : /\ role[q] = "Leader" => term[q] # term[n]
                       /\ \A i \in 1 .. Len(log[q]) : log[q][i].term # term[n]

\* Leader n stays Leader: it appends, commits, or neither.
Stays(n) ==
    /\ role[n] = "Leader" /\ role'[n] = "Leader" /\ term'[n] = term[n] /\ term[n] # 0
    /\ \/ LogStays(n)
       \/ /\ \E e \in Entry : e.term = term[n] /\ log'[n] = Append(log[n], e)
          /\ commitIndex'[n] = commitIndex[n]
       \/ /\ log'[n] = log[n]
          /\ commitIndex'[n] \in commitIndex[n] + 1 .. Len(log[n])
          /\ log[n][commitIndex'[n]].term = term[n]

\* No Node gives up or rewrites what it committed.
CommitsStay ==
    \A q \in Node : /\ commitIndex[q] <= commitIndex'[q]
                    /\ AgreeUpTo(commitIndex[q], log[q], log'[q])

\* Whoever acts, what was committed stays.
Serves(n) ==
    /\ Others(n)
    /\ \A q \in Node : /\ commitIndex[q] <= commitIndex'[q]
                       /\ AgreeUpTo(commitIndex[q], log[q], log'[q])
    /\ Yields(n) \/ Ascends(n) \/ Stays(n)

=============================================================================
