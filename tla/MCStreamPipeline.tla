--------------------------- MODULE MCStreamPipeline ---------------------------
(***************************************************************************)
(* Instances of StreamPipeline for TLC.                                    *)
(***************************************************************************)
EXTENDS StreamPipeline

\* Every kind of call, with a token.  A token that is never cancelled is a call
\* without one, except that the call cannot be cancelled.
AllCalls == Modes \X BOOLEAN \X {TRUE}
Batches  == {<<"expand", TRUE, FALSE>>}
Transform == {<<"transform", FALSE, TRUE>>}
=============================================================================
