------------------------------ MODULE MCIrLink ------------------------------
(* IrLink with bytes of one bit, so that a message has 11 pulses (67).      *)
EXTENDS IrLink

IntervalValue == [nec |-> 110, samsung |-> 110, sony |-> 60]
MinRepeatsValue == [nec |-> 0, samsung |-> 0, sony |-> 2]
LinksValue == {<<"nec", "nec">>, <<"samsung", "samsung">>, <<"sony", "sony">>,
               <<"samsung", "nec">>}
MessagesValue == {<<1, 1>>, <<2, 0>>}
=============================================================================
