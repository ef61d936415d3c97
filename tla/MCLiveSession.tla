--------------------------- MODULE MCLiveSession ---------------------------
(***************************************************************************)
(* The instance of LiveSession that TLC checks: a purchase that is         *)
(* submitted again as another object of the same key, and a sale of its    *)
(* own key that brings the account back to where it was.                   *)
(***************************************************************************)
EXTENDS LiveSession

ThreeRequests ==
    { [id |-> "o1", key |-> "k1", shares |-> 1], [id |-> "o2", key |-> "k1", shares |-> 1],
      [id |-> "o3", key |-> "k2", shares |-> -1] }
=============================================================================
