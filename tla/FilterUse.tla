----------------------------- MODULE FilterUse -----------------------------
(***************************************************************************)
(* What a command gets of the filters of a project: a filter that was      *)
(* approved (FilterTrust), the case of it that its arguments select, and   *)
(* the line it is recorded in (Arguments).                                 *)
(***************************************************************************)
EXTENDS FilterTrust, Arguments

(* The attached and the split form of an option are read alike; no step    *)
(* changes what is read, so it is looked at once.                          *)
FormsAgree == steps = 0 => FormsAreAlike

(* What is recorded of a command is read as the very command. *)
RecordedIsRead == steps = 0 => LinesAreRead
=============================================================================
