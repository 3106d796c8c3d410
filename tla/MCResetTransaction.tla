-------------------------- MODULE MCResetTransaction --------------------------
(* Target lists for ResetTransaction.                                        *)
EXTENDS ResetTransaction

\* .appsdk, .appsdk-control, a declared generated root, a contract below
\* contracts/, .gitignore.
FiveTargets == 1..5
=============================================================================
