--------------------------- MODULE MCImageProject ---------------------------
(* The model of ImageProject: its constants are model values and small sets *)
(* given by the configuration.                                              *)
EXTENDS ImageProject
=============================================================================
