---------------------------- MODULE MCAuditTrail ----------------------------
(* Small instances of AuditTrail for TLC. *)
EXTENDS AuditTrail

CONSTANTS
    o1, o2,
    MaxVersion   \* bound: no transaction moves a row past this version

OneReplayable == [o \in {o1} |-> "idempotency_only"]

TwoProfiles == [o \in {o1, o2} |-> IF o = o1 THEN "receipt_status" ELSE "none"]

InBounds == \A o \in Op : version'[o] <= MaxVersion

BoundedSpec == AuditInit /\ [][AuditNext /\ InBounds]_auditVars

\* With the caller that quotes the version it has just read.
BoundedRereadingSpec ==
    AuditInit /\ [][(AuditNext \/ \E o \in Op : RereadingSubmit(o)) /\ InBounds]_auditVars

=============================================================================
