------------------------------ MODULE MCFanout ------------------------------
(***************************************************************************)
(* Two elements, two workers, one retry each; the first element needs a  *)
(* secret.  MCFanoutStale lets a rewind deliver another array instead.     *)
(***************************************************************************)
EXTENDS Fanout

MCItems      == {"a", "c"}
MCSources    == {<<"a", "c">>}
StaleItems   == {"a", "b"}
StaleSources == {<<"a">>, <<"b">>}
None         == {}
NeedA        == {"a"}
=============================================================================
