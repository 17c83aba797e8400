------------------------------ MODULE MCAccessKeys ------------------------------
(***************************************************************************)
(* traefik has a user of its own on oci; both keys of the shimiko stack    *)
(* are keys of the user "shimiko".                                         *)
(***************************************************************************)
EXTENDS AccessKeys, TLC

CONSTANTS traefik, shimiko, zonepop

Users == traefik :> "oci-traefik" @@ shimiko :> "shimiko" @@ zonepop :> "shimiko"
===============================================================================
