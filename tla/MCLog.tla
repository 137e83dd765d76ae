------------------------------- MODULE MCLog -------------------------------
(***************************************************************************)
(* Log with the identities of log-test.c, one channel that does nothing,   *)
(* and the levels OFF, ERR and DEBUG.                                      *)
(***************************************************************************)
EXTENDS Log

MCIdents    == {"mua0", "mua1"}
MCChannels  == {"console", "syslog", "file"}
MCLogLevels == {0, 3, 7}
=============================================================================
