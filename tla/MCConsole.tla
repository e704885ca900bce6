----------------------------- MODULE MCConsole ------------------------------
(***************************************************************************)
(* Instances of Console for TLC.  The lines are short, so the commands     *)
(* have short names.                                                       *)
(***************************************************************************)
EXTENDS Console

MCFewKeys  == {2, 3, 11, 16}
MCChars    == {"0", "1", "2", "!", "@", ")", "q", "Q", "&", "e'", "a", "a'", "A", "<", ">"}
MCNames    == << "q" >> :> "read" @@ << "Q" >> :> "last" @@ << "1" >> :> "azerty"
           @@ << "&" >> :> "qwerty" @@ << "!" >> :> "help" @@ << "a" >> :> "reboot"
           @@ << "A" >> :> "halt"
=============================================================================
