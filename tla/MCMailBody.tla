----------------------------- MODULE MCMailBody -----------------------------
(***************************************************************************)
(* Mails of up to three lines, where a dot can begin, end or be a line,    *)
(* with characters of two bytes, also behind a blank.  VerbBytes is 6: the *)
(* word that is sliced inside a character runs over the end of a line.     *)
(***************************************************************************)
EXTENDS MailBody

CONSTANTS x

MCChars == {CR, LF, DOT, SP, LEAD, TAIL, INVALID, x}
MCLines == {<<>>, <<DOT>>, <<x, DOT>>, <<DOT, LEAD, TAIL>>, <<SP, LEAD, TAIL>>}
MCFollowing == <<x, CR, LF>>
=============================================================================
