------------------------------ MODULE MCOutbox ------------------------------
(* The instance of Outbox for TLC; its constants are in outbox.cfg. Without   *)
(* symmetry, which would be unsound for EventuallySettled.                    *)
EXTENDS Outbox

=============================================================================
