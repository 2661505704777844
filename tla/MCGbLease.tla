------------------------------ MODULE MCGbLease ------------------------------
(* Small instances of GbLease for TLC. *)
EXTENDS GbLease

CONSTANTS p1, p2, p3, k1, k2, k3, k4, m1

Ask(key, proc, client, cls, prio, vram, tiering, wait, control) ==
  [key |-> key, proc |-> proc, client |-> client, cls |-> cls, prio |-> prio,
   vram |-> vram, tiering |-> tiering, wait |-> wait, control |-> control]

\* Five MiB of card, one of them reserved.  Two scheduled passes (solo class),
\* a job and an unkeyed background call of the same budgeted client, and a
\* legacy caller's tiering job.
MCRequests ==
  { Ask(k1, p1, "invest.engine.pass", "P1", 80, 2, FALSE, TRUE, TRUE),
    Ask(k2, p2, "invest.engine.job", "P2", 50, 3, FALSE, TRUE, FALSE),
    Ask(NoKey, p2, "invest.engine.job", "P2", 50, 1, FALSE, FALSE, FALSE),
    Ask(k3, p3, "invest.engine.pass", "P1", 80, 1, FALSE, TRUE, FALSE),
    Ask(k4, p3, "none", "legacy", 10, 1, TRUE, TRUE, FALSE) }

BudgetsOf(requests) ==
  [c \in {r.client : r \in requests} |->
     IF c = "invest.engine.job" THEN 3 ELSE NoBudget]

MCClientBudgets == BudgetsOf(MCRequests)

\* A card that only one job at a time may use, wanted by four classes.
MCQueueRequests ==
  { Ask(k1, p1, "greenboost.bench", "P4", 10, 1, FALSE, TRUE, FALSE),
    Ask(k2, p2, "invest.engine.pass", "P1", 80, 1, FALSE, TRUE, FALSE),
    Ask(k3, p3, "owner.interactive", "P0", 100, 1, FALSE, TRUE, FALSE) }

MCQueueBudgets == BudgetsOf(MCQueueRequests)

\* Two jobs that share the card, the first of which paused a model.
MCPausedRequests ==
  { Ask(k1, p1, "invest.engine.job", "P2", 50, 1, FALSE, TRUE, FALSE),
    Ask(k2, p2, "invest.engine.embed", "P2", 50, 1, FALSE, TRUE, FALSE) }

MCPausedBudgets == BudgetsOf(MCPausedRequests)

\* A model is recorded as paused only while some holder is still working.
PausedByAHolder == st'.paused \subseteq st.paused \/ \E e \in Holders : ~e.releasing

PausedSpec == Init /\ [][Next /\ PausedByAHolder]_vars
=============================================================================
