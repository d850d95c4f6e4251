---------------------------- MODULE MCPaperFinder ----------------------------
EXTENDS PaperFinder

\* what each kind is dispatched to alone, and the unions that go to the planner with
\* something the planner does not take or that asks for no retry
MCUnions == {<<>>, <<"content">>, <<"named">>, <<"metadata">>, <<"blank">>,
             <<"metadata", "content">>, <<"metadata", "blank">>}
=============================================================================
