----------------------------- MODULE Components -----------------------------
(***************************************************************************)
(* The running components the others see through DDS, and their names: two *)
(* components may have one name.                                           *)
(***************************************************************************)
CONSTANTS
  Instance,   (* the components                                            *)
  OwnerOf     (* [Instance -> names], CommandManager::owner and app_name   *)

Owner == {OwnerOf[i] : i \in Instance}

ASSUME ComponentsAssumption == OwnerOf \in [Instance -> Owner]
=============================================================================
