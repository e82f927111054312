---------------------------- MODULE MCOtelLogger ----------------------------
EXTENDS OtelLogger

MCLevel == {0, 2, 5}

MCArgLists == {<<"s", "o">>, <<"o", "o">>}
=============================================================================
