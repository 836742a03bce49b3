---------------------------- MODULE MCNavigation ----------------------------
(* The host's page, the detail page of a VM, and its console, which         *)
(* redirects to the detail page when multipass fails.                       *)
EXTENDS Navigation

MCRedirects == [l \in Locs |-> IF l \in Consoles THEN {"vm"} ELSE {}]

=============================================================================
