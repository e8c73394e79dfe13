------------------------------ MODULE MCIoLib ------------------------------
(* IoLib with one file, two handles beside the standard streams, and writes *)
(* of a digit and the end of the line.                                      *)
EXTENDS IoLib, TLC

MCChunk == {<<"1", "nl">>}
MCFormats == {<<"l">>, <<"a">>, <<"2">>, <<"n", "l">>}
MCSeekArgs == {<<"set", 0>>, <<"cur", 0>>, <<"cur", 1>>, <<"cur", -1>>, <<"end", 0>>}
SlotSymmetry == Permutations(Slot)
=============================================================================
