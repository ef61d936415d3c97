---------------------------- MODULE MCKisAdapter ----------------------------
(***************************************************************************)
(* The instance of KisAdapter that TLC checks: two orders of one key, as a *)
(* client that rebuilds its order after an error submits them, one order   *)
(* of another key and one of none.                                         *)
(***************************************************************************)
EXTENDS KisAdapter

FourRequests ==
    { [id |-> "o1", key |-> "k1"], [id |-> "o2", key |-> "k1"],
      [id |-> "o3", key |-> "k2"], [id |-> "o4", key |-> "none"] }
=============================================================================
