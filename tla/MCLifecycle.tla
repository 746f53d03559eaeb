----------------------------- MODULE MCLifecycle ----------------------------
(* Small instances of Lifecycle: two handlers, two starts.                 *)
EXTENDS Lifecycle

CONSTANTS h1, h2
=============================================================================
