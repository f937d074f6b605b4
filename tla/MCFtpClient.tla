----------------------------- MODULE MCFtpClient -----------------------------
(***************************************************************************)
(* Two slots are enough for a job and the listing that races with it; two  *)
(* sessions, one per family of protocols, let a second connection follow   *)
(* a first one.                                                            *)
(***************************************************************************)
EXTENDS FtpClient

CONSTANTS j1, j2, ftp, sftp

MCSlots    == {j1, j2}
MCSessions == {ftp, sftp}
MCSftp     == {sftp}

=============================================================================
