----------------------------- MODULE MCSmartid -----------------------------
(* Instances of Smartid for TLC. *)
EXTENDS Smartid, TLC

(* One line for each handler (two of them abbreviated), a word that is no  *)
(* command, the empty line and the syntax errors.                          *)
MCEveryCommand ==
  {Line(w) : w \in Words \ {"open", "token", "serial", "tcorr"}}
  \cup {LineWith("open", 0), LineWith("token", 1), Line("open"),
        [word |-> "open", params |-> "text", tok |-> 0], LineWith("close", 0)}

MCXfer == {LineWith("open", 0), Line("xfer"), Line("model")}

MCNames == {"Phone", "Uwatec Smart"}

MCBus == {<<>>, <<"Uwatec Smart">>, <<"Phone", "Uwatec Smart">>}

MCSymmetry == Permutations(Conns)
=============================================================================
