---------------------------- MODULE MCJobLifecycle ----------------------------
(* Small instances of JobLifecycle for TLC. *)
EXTENDS JobLifecycle

AllOps == {"AddURL", "StartQueued", "RetryFailed", "CancelActive", "DeleteCompleted",
           "ClearErrors"}
OnlyRetry == {"RetryFailed"}
=============================================================================
