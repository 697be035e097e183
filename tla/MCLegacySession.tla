---------------------------- MODULE MCLegacySession ----------------------------
(* LegacySession on small instances: two sessions, a session and a RIP of the *)
(* old way, or that one alone.                                                 *)
EXTENDS MCPesSession, LegacySession

CONSTANTS s1, s2, p1, p2

MCLegacyPlanes == <<p1, p2>>

\* Two looks at the queue.
Config(sequential, immediateFinish, posix) ==
  [sequential |-> sequential, immediateFinish |-> immediateFinish, posix |-> posix,
   waitJobTimeoutMs |-> 500, waitJobPollMs |-> 250]

\* The old way with two colours' jobs runs alone: beside a session it has three
\* million states more (the proofs cover it).
MCFleets ==
  {[rips |-> {s1, s2}, cfg |-> Config(FALSE, FALSE, FALSE)],
   [rips |-> {"legacy"}, cfg |-> Config(TRUE, FALSE, FALSE)],
   [rips |-> {s1, "legacy"}, cfg |-> Config(FALSE, TRUE, FALSE)],
   [rips |-> {s1, "legacy"}, cfg |-> Config(FALSE, FALSE, TRUE)]}

================================================================================
