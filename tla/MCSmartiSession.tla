--------------------------- MODULE MCSmartiSession ---------------------------
(* Instances of SmartiSession for TLC. *)
EXTENDS SmartiSession

MCNames == {"Phone", "Uwatec Smart"}

MCSmart == {"Uwatec Smart"}

(* Device lists of zero, one and two devices, the Smart device first, last *)
(* or absent.                                                              *)
MCBus == {<<>>, <<"Phone">>, <<"Uwatec Smart">>,
          <<"Phone", "Uwatec Smart">>, <<"Uwatec Smart", "Phone">>}
=============================================================================
