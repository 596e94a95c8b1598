---------------------------- MODULE Capabilities ----------------------------
(***************************************************************************)
(* What store, service, worker and coordinator have in common: operations, *)
(* the capability profile each one's intent declared, and the observations *)
(* a verifier may report.                                                  *)
(***************************************************************************)
CONSTANTS
    Op,         \* operations: (workflow, logical key) pairs
    ProfileOf   \* capability profile the intent of each declared

Profile == {"none", "receipt_status", "indirect_unique", "idempotency_only"}

ASSUME CapabilityAssumption == ProfileOf \in [Op -> Profile]

Outcome == {"completed", "absent", "unknown", "transient_error", "contradictory"}
Mechanism == {"receipt_lookup", "status_lookup", "indirect_lookup",
              "idempotent_repeat", "none"}

\* validObservation accepts every combination.
Observation == [mechanism : Mechanism, outcome : Outcome, authoritative : BOOLEAN]

\* The worker attaches an Idempotency-Key to the sends of these operations only.
Replayable == {o \in Op : ProfileOf[o] = "idempotency_only"}

=============================================================================
