---------------------------- MODULE MCQueueBench ----------------------------
(* Instance of the test bench over the lock-free queue for TLC. *)
EXTENDS QueueBench, TLC

MCThreads == 0..(thread_num - 1)
MCVal == 1..(thread_num * item_num)

\* The addresses calloc returns are interchangeable.
Symmetry == Permutations(Node)
=============================================================================
