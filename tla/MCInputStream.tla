--------------------------- MODULE MCInputStream ---------------------------
(* A step to the right, and one to the left as long as a packet can hold.  *)
EXTENDS InputStream

MCMoves == {<<1, 0>>, <<-2, 1>>}
=============================================================================
