---------------------------- MODULE MCCasServer ----------------------------
(***************************************************************************)
(* One file, which converts to x1 and s1.  Clients may upload these too,   *)
(* and s4, a shard that declares the file but whose declarations its xorb  *)
(* does not support.                                                       *)
(***************************************************************************)
EXTENDS CasServer, TLC

CONSTANTS o1, x1, s1, s4

ConvXorbOne  == o1 :> x1
ConvShardOne == o1 :> s1
FilesOne     == s1 :> {o1} @@ s4 :> {o1}
XorbsOne     == s1 :> {x1} @@ s4 :> {x1}
GoodOne      == {s1}
=============================================================================
