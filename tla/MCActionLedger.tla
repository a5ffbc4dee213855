---------------------------- MODULE MCActionLedger ----------------------------
(***************************************************************************)
(* Instance of ActionLedger: the attempts of one job.  Keys of different   *)
(* jobs differ, so jobs do not meet.                                       *)
(***************************************************************************)
EXTENDS ActionLedger

OneJob == {"j1"}
===============================================================================
