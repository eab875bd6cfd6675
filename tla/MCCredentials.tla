--------------------------- MODULE MCCredentials ---------------------------
(* Small instances of Credentials for TLC. *)
EXTENDS Credentials, TLC

CONSTANTS p1, p2, pw1, pw2

TwoPods == {p1, p2}
OnePassword == {pw1}
TwoPasswords == {pw1, pw2}
FromSecret == [username |-> "app", password |-> pw1]
=============================================================================
