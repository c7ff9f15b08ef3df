------------------------------ MODULE MCUsers ------------------------------
(***************************************************************************)
(* A small instance of Users: two tasks at a time, the superuser and one   *)
(* more login, two passwords.                                              *)
(***************************************************************************)
EXTENDS Users, TLC

SomeCredentials ==
  {[login |-> "super", secret |-> "s1"], [login |-> "super", secret |-> "s2"],
   [login |-> "other", secret |-> "s1"], [login |-> "", secret |-> "s1"]}

FewNumbers == [User |-> 3, Warehouse |-> 1]

Places == Permutations(Tasks)
=============================================================================
