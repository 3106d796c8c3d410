--------------------------- MODULE MCCommDelivery ---------------------------
(* Small mailboxes for CommDelivery.                                         *)
EXTENDS CommDelivery, TLC

CONSTANTS d1, i1, i2, bA, gMail, gApp

\* Retry: a direct message over an app server, and two idle updates that share
\* a bucket of the mailbox adapter.
RetryMsgs      == {d1, i1, i2}
RetryDirect    == {d1}
RetryBuckets   == {bA}
RetryBucketOf  == [m \in {i1, i2} |-> bA]
RetryGroupOf   == [k \in {d1, bA} |-> IF k = d1 THEN gApp ELSE gMail]

\* The two updates are alike: the messages' order is that of their creation.
UpdateSymmetry == Permutations({i1, i2})
=============================================================================
