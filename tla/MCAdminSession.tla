--------------------------- MODULE MCAdminSession ---------------------------
(* The calls of AdminSession, one of which may be asking for a code.         *)
EXTENDS OtpSignIn
=============================================================================
