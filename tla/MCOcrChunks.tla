---------------------------- MODULE MCOcrChunks ----------------------------
(***************************************************************************)
(* Instances of OcrChunks for TLC.                                         *)
(***************************************************************************)
EXTENDS OcrChunks

\* One chunk; a table that goes on past the shared page; a table over three pages and a
\* chunk without a page of its own; rows that follow no open table.
Documents == {
    <<"opens", "closes">>,
    <<"text", "closes", "opens", "closes">>,
    <<"opens", "through", "closes", "opens", "closes">>,
    <<"text", "opens", "closes", "closes", "text">>}

==============================================================================
