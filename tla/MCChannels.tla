----------------------------- MODULE MCChannels -----------------------------
(***************************************************************************)
(* Values for checking Channels with TLC: three lists, of which the empty  *)
(* one is not a name that the barrier waits for.                           *)
(***************************************************************************)
EXTENDS Channels

ThreeValues == {<<>>, <<1>>, <<2>>}
TwoNames    == {<<1>>, <<2>>}

=============================================================================
