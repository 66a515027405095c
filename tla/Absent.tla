-------------------------------- MODULE Absent --------------------------------
(***************************************************************************)
(* The one name all the modules of the bot use for what is not there.      *)
(***************************************************************************)
CONSTANT None
===============================================================================
