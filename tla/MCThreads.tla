----------------------------- MODULE MCThreads -----------------------------
(***************************************************************************)
(* Slots for a few threads.  A run says how often thread_create is called; *)
(* the thread_test command of the shell calls it twice.                    *)
(***************************************************************************)
EXTENDS Threads
=============================================================================
