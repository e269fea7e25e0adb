------------------------------- MODULE MCAuth -------------------------------
(* The instance of Auth that TLC checks: two registrations that want the   *)
(* same email, one that wants the same username, right and wrong secrets.  *)
EXTENDS Auth

CONSTANTS s1, s2, MaxStored

(* A lock that ends within a check, again and again, counts up for ever.   *)
TriesBound == \A id \in Ids, k \in Kinds : tries[id][k] <= MaxStored

MCNames == {"ada", "ADA", "bob"}
MCLower == [n \in MCNames |-> IF n = "ADA" THEN "ada" ELSE n]

Register(e, u, s) == [op |-> "register", email |-> e, username |-> u, secret |-> s]
Login(e, s)       == [op |-> "login", email |-> e, secret |-> s]
CheckPin(e, s)    == [op |-> "check pin", email |-> e, secret |-> s]
CreatePin(e, s, p) == [op |-> "create pin", email |-> e, secret |-> s, pin |-> p]

MCOffers ==
  {Register("ada", "bob", s1), Register("ADA", "ada", s2), Register("bob", "ADA", s1),
   Login("ADA", s1),
   CreatePin("ada", s1, s1), CreatePin("ada", s1, s2),
   CheckPin("ada", s1)}
=============================================================================
