------------------------------- MODULE MCNdjson -------------------------------
(* Short and long lines, with and without a character of two bytes, a blank one *)
(* and one that is not JSON.                                                    *)
EXTENDS Ndjson

MCLines ==
    {<<>>, <<"x">>, <<"a">>, <<"e1", "e2", "e1", "e2">>, <<"e1", "e2", "a", "e1", "e2">>}
=============================================================================
