------------------------------ MODULE MCLikes ------------------------------
(* Likes on a small instance; users and threads are interchangeable. *)
EXTENDS Likes, TLC

Interchangeable == Permutations(Users) \cup Permutations(Threads)
=============================================================================
