--------------------------- MODULE MCSecretStore ---------------------------
(***************************************************************************)
(* The instance of SecretStore.cfg.  A key in custody and a secret share   *)
(* no state, so keys are enrolled only before the first command.           *)
(***************************************************************************)
EXTENDS SecretStore, TLC

Symmetry == Permutations(Keys) \cup Permutations(Commands)

EnrolledFirst == enrolled = {} \/ \A c \in Commands : cmd[c].pc = "idle"
=============================================================================
