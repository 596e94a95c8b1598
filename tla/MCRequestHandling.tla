------------------------- MODULE MCRequestHandling -------------------------
(* A small instance of RequestHandling for TLC: one workflow with one or two *)
(* operations, three spellings of two payloads.                              *)
EXTENDS RequestHandling

CONSTANTS o1, o2

OneWorkflow == [o \in Op |-> "w"]

Spellings == [s \in {"a", "a again", "b"} |-> IF s = "b" THEN "B" ELSE "A"]

Intent(op, strategy, text) ==
    [call |-> "prepare", token |-> "public", body |-> "fine",
     op |-> op, strategy |-> strategy, text |-> text]

Quoting(call, token, body, op, v) ==
    [call |-> call, token |-> token, body |-> body, op |-> op, expected |-> v]

SomeRequests ==
    {Intent(o1, "watchkeeper", t) : t \in Spelling}
    \union {Intent(o2, s, "a") : s \in Strategy}
    \union {Quoting("change", "public", b, o1, 1) : b \in {"fine", "malformed"}}
    \union {Quoting("resolve", t, "fine", o1, 1) : t \in {"admin", "public"}}
    \union {Quoting("change", "public", "invalid", o1, 1)}

=============================================================================
