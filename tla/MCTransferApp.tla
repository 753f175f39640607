--------------------------- MODULE MCTransferApp ---------------------------
(* Instances of TransferApp for TLC.                                       *)
EXTENDS TransferApp

Good(rep) == [rep |-> rep, form |-> "good"]
Broken(form) == [rep |-> 1, form |-> form]

(* A dive whose length is wrong also makes the extraction meet bytes that  *)
(* are no header, when another dive follows it.                            *)
MCKinds == {Good(1), Good(2), Broken("too_long"), Broken("wraps"), Broken("endless"),
            Broken("unparsable")}
MCGoodKinds == {Good(1), Good(2)}
=============================================================================
