-------------------------- MODULE MCBenchmarkSuite --------------------------
(* A small matrix of BenchmarkSuite for TLC. *)
EXTENDS BenchmarkSuite

\* One strategy, profile and repetition, and three scenarios, the second of which
\* this strategy cannot be put to.
SmallMatrix ==
    [i \in 1..3 |->
        [strategy |-> "checkpoint_recovery", profile |-> "receipt_status",
         scenario |-> <<"none", "coordinator_after_result", "lost_response">>[i],
         repetition |-> 1]]

=============================================================================
