------------------------ MODULE MCSimpleToolDecode --------------------------
(* Small instances of SimpleToolDecode: three heads, cold prompts that hit,
   extend, shrink and mismatch each other, hot prompts of zero and one token. *)
EXTENDS SimpleToolDecode

MCToken == {"a", "b", "<0>", "<1>", "<2>"}
MCOpenId == [h \in Heads |-> <<"<0>", "<1>", "<2>">>[h + 1]]
MCGenToken == {"a"}
MCColdPrompts == {<<>>, <<"a">>, <<"a", "b", "b">>, <<"b">>}
MCHotPrompts == {<<>>, <<"b">>}
MCMaxGenBytes == {0, 1}
=============================================================================
