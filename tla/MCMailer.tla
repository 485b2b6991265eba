------------------------------ MODULE MCMailer ------------------------------
(* Small instances of Mailer.                                               *)
EXTENDS Mailer, TLC

MailSymmetry == Permutations(Workers)
=============================================================================
