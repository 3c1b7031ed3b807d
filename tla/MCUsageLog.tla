----------------------------- MODULE MCUsageLog -----------------------------
(* Requests whose records go through the log and a restart. *)
EXTENDS UsageLog

Usage(s, i, o, t) == [shape |-> s, in |-> i, out |-> o, total |-> t]
Zeros(s) == Usage(s, 0, 0, 0)

\* No usage, with and without success; a total to be made up; zeros at the top
\* and a total beyond the bound below.
Replies ==
    {[ok |-> TRUE, usage |-> Zeros("none"), nested |-> Zeros("none")],
     [ok |-> FALSE, usage |-> Zeros("none"), nested |-> Zeros("none")],
     [ok |-> TRUE, usage |-> Usage("chat", 2, 1, -1), nested |-> Zeros("none")],
     [ok |-> TRUE, usage |-> Zeros("chat"), nested |-> Usage("responses", 1, 1, 9)]}
=============================================================================
