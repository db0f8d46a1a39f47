------------------------------ MODULE MCLogLib ------------------------------
(* Two threads, which can both find that there is no semaphore yet; a      *)
(* table that two opens fill; a heap that two blocks fill.                 *)
EXTENDS LogLib

MCSlots == 0..1
MCNames == {"BSP", ""}
MCLengths == {0, 1}
============================================================================
