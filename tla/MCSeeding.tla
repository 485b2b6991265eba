----------------------------- MODULE MCSeeding -----------------------------
(* Small instances of Seeding.                                             *)
EXTENDS Seeding, TLC

DemoSpecs == <<[title |-> "yoga", capacity |-> Unlimited], [title |-> "sound", capacity |-> 1]>>
DemoBookings == <<[spec |-> 1, seeker |-> "demo"], [spec |-> 2, seeker |-> "demo"]>>

SeedSymmetry == Permutations(Seeds)
=============================================================================
