----------------------------- MODULE MCDemoTrial -----------------------------
(* The trials of cmd/demo; two IDs for the sends of the blind one.          *)
EXTENDS DemoTrial

CONSTANTS a, b, s1, s2

Profiles == [o \in Op |-> IF o = a THEN "receipt_status" ELSE "none"]
OneMessage == [o \in Op |-> "message"]
Ids == <<s1, s2>>
ReceiptNumbers == 1..MaxEffects
GrantVersions == Nat

=============================================================================
