---------------------------- MODULE MCPesSession -----------------------------
(* PesSession on small instances: which sessions, leftovers and            *)
(* environments each run takes, and how often its wait loops poll.         *)
EXTENDS PesSession

CONSTANTS
  MaxPolls,      \* polls of every wait loop but the next
  MaxDonePolls   \* polls of the wait for the print's completion

MCPolls == [w \in Waits |-> IF w = "wait_complete" THEN MaxDonePolls ELSE MaxPolls]

\* The API delivers the engine's state by name.
NamedEnvs == {e \in Environments : e.report = "name"}

\* It delivers a number; two settings of the switches are enough.
NumberedEnvs ==
  {e \in Environments :
     /\ e.report = "i32" /\ e.worker
     /\ e.bypass = e.callFinish /\ ~e.allowUnknown}

\* The default switches.
DefaultNamedEnvs ==
  {e \in NamedEnvs : e.worker /\ ~e.bypass /\ ~e.callFinish /\ ~e.allowUnknown}

DefaultNumberedEnvs ==
  {e \in NumberedEnvs : ~e.bypass}

=============================================================================
