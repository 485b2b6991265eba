------------------------------- MODULE MCOtp -------------------------------
(* Small instances of Otp.                                                  *)
EXTENDS Otp, TLC

OtpSymmetry == Permutations(Requests) \cup Permutations(Codes)
=============================================================================
