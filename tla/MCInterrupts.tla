---------------------------- MODULE MCInterrupts ----------------------------
(* The timer, a device of each controller and the cascade; handlers of     *)
(* every behaviour.                                                        *)
EXTENDS Interrupts, TLC

MCBehaviour == 0 :> "opens" @@ 1 :> "masks" @@ 9 :> "opens"

=============================================================================
