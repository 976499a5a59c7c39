--------------------------- MODULE MCRunLifecycle ---------------------------
(* RunLifecycle on small instances.  Two contents of the worktree are       *)
(* enough for a stale one to show, and which of them a plan or a candidate  *)
(* has makes no difference.                                                 *)
EXTENDS RunLifecycle, TLC

SameContents == Permutations(Digests)
=============================================================================
