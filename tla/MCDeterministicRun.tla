------------------------- MODULE MCDeterministicRun -------------------------
(***************************************************************************)
(* Every catalogue of three resumes over three terms, under sizes that     *)
(* fit and that do not, without faults; and two catalogues with up to      *)
(* three faults of different kinds, three attempts to publish and the      *)
(* prompts of other runs.                                                  *)
(* A text of signals and one of words, whose query has nothing to drop.    *)
(***************************************************************************)
EXTENDS DeterministicRun

MCTerms == <<"ReAct", "Reflexion", "Python", "LLM">>
MCMustSignals == {"ReAct", "Python"}
MCWorkContent == {"ReAct", "Reflexion", "LLM"}
MCAttempts == 1..3

SignalText == [signals |-> {"Reflexion", "Python", "LLM"}, words |-> <<"hire">>,
               grounds |-> {"location", "schoolType"}]
WordText == [signals |-> {"LLM"}, words |-> <<"hire", "LLM", "hire", "Reflexion", "team">>,
             grounds |-> {}]

MCTexts == {SignalText, WordText}

Resume(terms, more, years) == [terms |-> terms, more |-> more, workYear |-> years]
Haystacks == SUBSET {"Reflexion", "Python", "LLM"}
Catalogues == {<<Resume(h[1], {}, 3), Resume(h[2], {"Python"}, 12), Resume(h[3], {}, 3)>> :
                  h \in [1..3 -> Haystacks]}

Sweep ==
    [text : MCTexts, catalogue : Catalogues,
     schedule : {<<1>>, <<2, 1>>, <<1, 2>>}, langfuse : {FALSE}, faults : {{}}]
Faulty(catalogue, faults) ==
    [text |-> SignalText, catalogue |-> catalogue, schedule |-> <<2, 1>>, langfuse |-> TRUE,
     faults |-> faults]

TwoResumes == <<Resume({"Python"}, {}, 3), Resume({"Python", "LLM"}, {}, 0)>>

MCScenarios ==
    Sweep
    \cup {Faulty(<<>>, faults) :
             faults \in {{"slow", "create raises", "no address"}, {"slow", "other run"},
                        {"replay raises", "get raises", "other run"}}}
    \cup {Faulty(TwoResumes, faults) :
             faults \in {{"patch repeated"}, {"activity raises", "replay raises"},
                        {"other run", "create raises"}}}
=============================================================================
