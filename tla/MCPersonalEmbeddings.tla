----------------------- MODULE MCPersonalEmbeddings -----------------------
(* TLC instances of PersonalEmbeddings. *)
EXTENDS PersonalEmbeddings
===========================================================================
