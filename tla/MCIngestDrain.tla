--------------------------- MODULE MCIngestDrain ----------------------------
EXTENDS IngestDrain, TLC

CONSTANTS c1, c2, k1, k2, a1, sweep

OneConcept == {c1}
TwoConcepts == {c1, c2}
OneCycle == {k1}
TwoCycles == {k1, k2}
OneAdmin == {a1}

(* What may happen, and how often. *)
Allow(once, twice) ==
    [e \in Events |-> IF e \in twice THEN 2 ELSE IF e \in once THEN 1 ELSE 0]

DrainAllowance == Allow({"ingest", "taskfail"}, {})

RedrainAllowance == Allow({"reingest", "unpublish", "publish", "kill"}, {"ingest", "taskfail"})

TeardownAllowance == Allow({"publish", "retract", "taskfail"}, {"ingest"})

FaultAllowance == Allow({"ingest", "late", "http", "dberr", "lostack"}, {})

LossAllowance == Allow({"ingest", "crash", "lost", "dpcrash", "dberr"}, {})

RestartAllowance == Allow({"ingest", "taskfail", "crash"}, {})

RetractAllowance == Allow({"ingest", "retract"}, {})

Symmetry == Permutations(Cycles) \cup Permutations(Concepts)
=============================================================================
