---------------------------- MODULE MCCallCenter ----------------------------
(* alice is root, bob at times; alice and bob share an account in a bad file. *)
EXTENDS CallCenter, TLC

Symmetry == Permutations(Employees) \cup Permutations(Patterns)

Entry(root, a) == [root |-> root, telegram |-> a]
Known(b)  == [i \in {"alice", "bob"} |-> IF i = "alice" THEN Entry(TRUE, "A") ELSE Entry(b, "B")]
Alone     == [i \in {"bob"} |-> Entry(TRUE, "B")]
Rootless  == [i \in {"bob"} |-> Entry(FALSE, "B")]
Shared    == [i \in {"alice", "bob"} |-> Entry(TRUE, "A")]
MCUsersFiles == {Known(TRUE), Known(FALSE), Alone, Rootless, Shared}

On(n, off, w) == [name |-> n, disable |-> off, rpc |-> {"rpc"}, watchers |-> [v \in {"val"} |-> w]]
Bare          == [name |-> "c", disable |-> FALSE, rpc |-> {}, watchers |-> [v \in {"val"} |-> {"bob"}]]
MCChainsFiles == {{On("c", FALSE, {"alice"}), On("d", FALSE, {"bob"})},
                  {On("c", TRUE, {"bob"})}, {Bare}}

\* Every command on the validator, one on a chain.
MCCommands == Silences \cup {[op |-> "pause", target |-> "c"]}
                       \cup [op : {"pause", "unpause"}, target : Valopers]
=============================================================================
