------------------------ MODULE MCConditionVariable -------------------------
(* ConditionVariable with two waiters and a notifier.  The word starts at  *)
(* zero or just below its wrap-around.                                     *)
EXTENDS ConditionVariable
=============================================================================
