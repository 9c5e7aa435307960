--------------------------- MODULE ImageTransfer ---------------------------
(***************************************************************************)
(* What a transfer of a firmware image promises, without the messages, the *)
(* buffers and the events it is made of: an image is verified only when    *)
(* every byte of it has arrived, once and in order, it is applied only     *)
(* when it has been verified, and it may be given up at any moment.        *)
(***************************************************************************)
EXTENDS Integers

CONSTANT Sizes        \* sizes of images, a set of naturals

VARIABLES
  phase,    \* "none", "moving", "verifying", "applying" or "applied"
  size,     \* of the image
  got       \* bytes of it that have arrived

transferVars == <<phase, size, got>>

TransferInit == phase = "none" /\ size = 0 /\ got = 0

\* An image is offered, the first of a session or one after another.
Begin ==
  /\ phase \in {"none", "applied"}
  /\ phase' = "moving"
  /\ size' \in Sizes
  /\ got' = 0

\* The next bytes arrive.
Receive ==
  /\ phase = "moving"
  /\ got' \in got .. size
  /\ UNCHANGED <<phase, size>>

Verify ==
  /\ phase = "moving" /\ got = size
  /\ phase' = "verifying"
  /\ UNCHANGED <<size, got>>

Apply ==
  /\ phase = "verifying"
  /\ phase' = "applying"
  /\ UNCHANGED <<size, got>>

Applied ==
  /\ phase = "applying"
  /\ phase' = "applied"
  /\ UNCHANGED <<size, got>>

\* A cancellation, the timer, an activation: the component is no longer under
\* update.  A late answer may still be counted for the image that was given up.
GiveUp ==
  /\ phase' = "none"
  /\ size' = size /\ got' \in got .. size

TransferNext == Begin \/ Receive \/ Verify \/ Apply \/ Applied \/ GiveUp

TransferSpec == TransferInit /\ [][TransferNext]_transferVars

=============================================================================
