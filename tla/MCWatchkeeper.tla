--------------------------- MODULE MCWatchkeeper ---------------------------
EXTENDS Watchkeeper

CONSTANTS o1, o2, w1, w2, c1, c2, mail, note

\* The operations' declared capabilities.
AllStatus == [o \in Op |-> "receipt_status"]
AllKeyed  == [o \in Op |-> "idempotency_only"]
AllUnique == [o \in Op |-> "indirect_unique"]
AllBlind  == [o \in Op |-> "none"]

OneContent == [o \in Op |-> mail]
TwoContents == [o \in Op |-> IF o = o1 THEN mail ELSE note]

EveryWorkerRunsO1 == [w \in Worker |-> o1]
OneWorkerEach     == [w \in Worker |-> IF w = w1 THEN o1 ELSE o2]

ReceiptNumbers == 1..MaxEffects
GrantVersions  == Nat

=============================================================================
