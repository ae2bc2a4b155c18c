----------------------------- MODULE MCSshKeys -----------------------------
(* Instances of SshKeys for TLC. *)
EXTENDS SshKeys

CONSTANTS k1, k2, k3, h1, h2

TwoKeygens == {k1, k2}
ThreeKeygens == {k1, k2, k3}
OneKeygen == {k2}
OneHook == {h1}
TwoKeygensAndHook == {k1, k2, h1}
TwoHooks == {h1, h2}
Nobody == {}
=============================================================================
