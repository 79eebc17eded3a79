-------------------------- MODULE PaymentScreenMC --------------------------
(* Payments and the screens their users are shown, for TLC. *)
EXTENDS PaymentScreen, PaymentMC

OneUser == [t \in Tx |-> u1]
=============================================================================
