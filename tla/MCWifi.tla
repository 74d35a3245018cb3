-------------------------------- MODULE MCWifi --------------------------------
(***************************************************************************)
(* Two networks in range: b needs a password and is the stronger, so that  *)
(* the order of names and the order of signals differ.  wpa_supplicant is  *)
(* found without networks, joined to its only network, or joined to one of *)
(* the two it may join.                                                    *)
(***************************************************************************)
EXTENDS Wifi

CONSTANTS a, b

MCSsids == {a, b}
MCSecure == {b}
MCAlpha == <<a, b>>
MCStrength == <<b, a>>
MCAir == {{a, b}, {a}}
MCBoot ==
  {[stored |-> <<>>, enabled |-> {}, current |-> None],
   [stored |-> <<a>>, enabled |-> {0}, current |-> 0],
   [stored |-> <<a, b>>, enabled |-> {0, 1}, current |-> 1]}
=============================================================================
