----------------------------- MODULE MCSettings -----------------------------
(* The devices, with the bound that each allows: three keys, ports or sleeps *)
(* for four of them, two for most, one for rgb30 and my355, whose programs   *)
(* and thread make the most calls.                                           *)
EXTENDS Settings

Deep == {"my282", "trimuismart", "miyoomini", "miyoominiplus"}
Middle == {"rg35xxplus", "zero28", "rg35xx", "m17", "gkdpixel", "magicmini",
           "tg5040"}
Devices == DOMAIN msettings
Events == [p \in Devices |-> IF p \in Deep THEN 3 ELSE IF p \in Middle THEN 2 ELSE 1]
=============================================================================
