---------------------------- MODULE MCFtpSession ----------------------------
(***************************************************************************)
(* A session about one file, for TLC.                                      *)
(***************************************************************************)
EXTENDS FtpSession

MCOnDisk == [f \in {"a"} |-> <<11, 12>>]
MCAsk(verb) == [verb |-> verb, file |-> IF verb \in {"retr", "stor", "dele"} THEN "a" ELSE "-"]
MCCommands ==
    {MCAsk(verb) : verb \in {"port", "pasv", "retr", "list", "stor", "dele", "noop", "quit"}}
        \cup {[verb |-> "stor", file |-> "-"]}

=============================================================================
