--------------------------- MODULE MCNextReload ---------------------------
(***************************************************************************)
(* Model-checking instances of NextReload.                                *)
(***************************************************************************)
EXTENDS NextReload

\* Well-formed "HH:MM" values, the absent setting and a 4-character one.
WellFormed ==
  { <<>>,
    <<"0", "4", ":", "0", "0">>,
    <<"2", "3", ":", "5", "9">>,
    <<"0", "0", ":", "0", "0">>,
    <<"1", "2", ":", "3", "0">>,
    <<"4", ":", "3", "0">> }

MCDurations == {1, 60, 1439}

\* Five characters that Atoi reads as a negative hour or minute.
Signed ==
  { <<"-", "1", ":", "0", "0">>,
    <<"1", "2", ":", "-", "5">> }
=============================================================================
