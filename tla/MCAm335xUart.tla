--------------------------- MODULE MCAm335xUart ---------------------------
(* Small instance of Am335xUart: see the .cfg files for the bounds.        *)
EXTENDS Am335xUart
=============================================================================
