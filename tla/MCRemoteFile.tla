---------------------------- MODULE MCRemoteFile ----------------------------
(* RemoteFile with two contents of different size.                         *)
EXTENDS RemoteFile

MCContents == {"short", "long"}
MCLength == [c \in MCContents |-> IF c = "short" THEN 1 ELSE 2]
=============================================================================
