-------------------------------- MODULE Focus --------------------------------
(***************************************************************************)
(* Components side by side.                                                *)
(*                                                                         *)
(* The commands around the ledger, the run store, the warehouse, the demo  *)
(* factory and the model registry keep their files apart, and no property  *)
(* relates two of them, so that interleaving them would only multiply      *)
(* their states: focus names the one that moves, and the variables of the  *)
(* others are Off.  The constants of a component have the names of its     *)
(* module, with a prefix that tells it from the others.                    *)
(***************************************************************************)
VARIABLE focus

Off == "off"

Components ==
    {"data", "intake", "split", "analysis",
     "remediation", "monitoring", "release", "cleanup",
     "origination", "suite", "features", "controls", "calibration", "stream"}

FocusInit == focus \in Components
==============================================================================
