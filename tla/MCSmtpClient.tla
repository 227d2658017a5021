---------------------------- MODULE MCSmtpClient ----------------------------
(***************************************************************************)
(* Two mail exchangers with two preferences between them, and a group of   *)
(* two recipients.                                                         *)
(***************************************************************************)
EXTENDS SmtpClient

CONSTANTS mx1, mx2, carol, dave

MCRecipients == <<carol, dave>>
=============================================================================
