----------------------------- MODULE MCStorage -----------------------------
(***************************************************************************)
(* Instances of Storage for TLC.                                           *)
(***************************************************************************)
EXTENDS Storage

CONSTANT n1

Within(index, term, segs, frames, operations, failures) ==
    [voters |-> {n1}, index |-> index, term |-> term, segments |-> segs,
     frames |-> frames, before |-> <<>>, operations |-> operations, failures |-> failures]

WithoutVotes(l) == [l EXCEPT !.voters = {}]

\* Two entries of an earlier Term than the present, none of them committed.
WithSuffix(l) ==
    [l EXCEPT !.before = <<[kind |-> "Hard", hard |-> [term |-> 2, votedFor |-> NoVote]],
                           [kind |-> "Entry", index |-> 1, term |-> 1],
                           [kind |-> "Entry", index |-> 2, term |-> 1]>>]

\* Plain histories, with stops of one kind and of several; the last four are of
\* kinds that recovery may shorten or refuse.
Histories ==
    {WithoutVotes(Within(3, 2, 3, 5, {"Truncate"}, {"Power"})),
     Within(2, 2, 2, 4, {"Truncate"}, {"Power", "Process"}),
     WithoutVotes(Within(2, 2, 3, 4, {"Truncate"}, {"Power", "Process", "Directory"})),
     WithoutVotes(Within(2, 1, 3, 6, {"Compact"}, {"Power"})),
     WithoutVotes(Within(2, 1, 3, 4, {"Compact"}, {"Process"})),
     WithoutVotes(Within(2, 1, 2, 4, {"Compact"}, {"Power", "Process"})),
     WithoutVotes(WithSuffix(Within(2, 2, 3, 7, {"Truncate", "Compact"}, {"Power", "Header"}))),
     Within(2, 2, 2, 3, {"Receive"}, {"Power", "Process"}),
     WithoutVotes(Within(2, 2, 2, 4, {"Truncate", "Receive"}, {"Power", "Header"}))}

\* A local Snapshot under way while one is received.
Both == {WithoutVotes(Within(2, 1, 3, 6, {"Compact", "Receive"}, {"Power"}))}
============================================================================
