-------------------------------- MODULE MCIde --------------------------------
(* Registers of one bit, so sixteen sectors; three calls. *)
EXTENDS Ide

MCData == {0, 1}
MCPrompt == {}
MCSlow == {"slow"}
MCStrict == {"strict"}
MCFaulty == {"faulty"}
==============================================================================
