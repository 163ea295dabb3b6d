------------------------ MODULE MCServiceLifecycle --------------------------
(* A service with one watcher, for TLC: the cfg gives the constants.        *)
EXTENDS ServiceLifecycle

=============================================================================
