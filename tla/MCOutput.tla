------------------------------ MODULE MCOutput -------------------------------
(***************************************************************************)
(* Words of four bits, a buffer of four characters, lock tickets modulo    *)
(* four.  One program for every conversion with every flag, a width below  *)
(* and above what it prints and numbers of either sign; and programs of    *)
(* two calls or of puts, with and without a newline, for every way to end.  *)
(***************************************************************************)
EXTENDS Output

MCSpec(alt, zero, width, precs, len, conv, args) ==
    [alt |-> alt, zero |-> zero, width |-> width, precs |-> precs,
     len |-> len, conv |-> conv, args |-> args]

MCNumbers ==
    {MCSpec(alt, zero, width, 0, len, conv,
            IF len = 2 THEN <<w, v>> ELSE <<w>>) :
        alt, zero \in BOOLEAN, width \in {0, 1, 5}, len \in {0, 2},
        conv \in {"d", "u", "x"}, w \in {0, 11}, v \in {0, 9}}

MCStrings ==
    {MCSpec(FALSE, FALSE, width, precs, 0, "s", <<s>>) :
        width \in {0, 12}, precs \in {0, 1, 2, 3},
        s \in {<<>>, <<"a", "b">>, Null}}

MCOthers ==
    {MCSpec(FALSE, FALSE, 0, 0, 0, "c", <<"a">>),
     MCSpec(FALSE, TRUE, 4, 0, 0, "p", <<7>>),
     MCSpec(FALSE, FALSE, 0, 0, 0, "%", <<>>)}

MCCall(before, spec, rest) ==
    [before |-> before, spec |-> spec, after |-> rest]

MCProgram(calls, ends, raw) == [calls |-> calls, ends |-> ends, raw |-> raw]

MCChar(c) == MCSpec(FALSE, FALSE, 0, 0, 0, "c", <<c>>)

MCTexts == {MCCall(<<>>, MCChar("a"), <<>>), MCCall(<<"b">>, MCChar("\n"), <<"c">>),
            MCCall(<<"a", "b">>, MCChar("c"), <<"d", "e", "\n">>)}

MCChars ==
    ToSet(Digits) \cup {"-", "x", " ", "%", "#", ".", "l", "\n", "\r", "v", "u", "P",
                        "U", "G", "r", "p", "s"}

MCPrograms ==
    {MCProgram(<<MCCall(<<>>, sp, <<"\n">>)>>, "loops", <<>>) :
        sp \in MCNumbers \cup MCStrings \cup MCOthers}
    \cup {MCProgram(calls, ends, <<"a", "\n", "b">>) :
            calls \in {<<puts(<<"a", "b", "c">>)>>} \cup {<<t, u>> : t, u \in MCTexts},
            ends \in Ends}
    \cup {MCProgram(<<>>, "loops", <<>>)}
    \* A format that ends early.
    \cup {MCProgram(<<MCCall(<<"a">>, MCSpec(FALSE, FALSE, 3, 0, 0, "l", <<>>), <<>>)>>,
                    "loops", <<>>)}
    \cup {MCProgram(<<t>>, "prints", raw) : t \in MCTexts,
            raw \in {<<Unmapped>>, <<"a", Unmapped>>}}
=============================================================================
