------------------------ MODULE DeterministicAgents ------------------------
(***************************************************************************)
(* The agents of a worker without a live model (CVM_AGENT_PROFILE other    *)
(* than "live") and the resume source without CTS: pure functions of what  *)
(* a run has read.  A text is what the code looks for in it; a query has   *)
(* no keyword, which is its terms joined, no excluded terms, of which      *)
(* there are none, and of its filters only the keys.                       *)
(***************************************************************************)
EXTENDS Integers, Sequences, FiniteSets, SequencesExt, Enumeration

CONSTANTS
    HighSignalTerms,    \* HIGH_SIGNAL_TERMS, in its order
    MustSignals,        \* the five of them that no candidate may lack
    WorkContentTerms,   \* those that make the workContent filter
    DefaultTerm         \* the must term of a text without a word

ASSUME TermsAssumption ==
    /\ HighSignalTerms \in Seq(ToSet(HighSignalTerms))
    /\ MustSignals \cup WorkContentTerms \subseteq ToSet(HighSignalTerms)
    /\ IsInjective(HighSignalTerms)

First(n, terms) == SubSeq(terms, 1, IF Len(terms) < n THEN Len(terms) ELSE n)

\* The first three different words of a text whose words have three letters or more.
LeadingWords(words) ==
    First(3, At(words, {i \in DOMAIN words : \A j \in 1..(i - 1) : words[j] # words[i]}))

\* text.signals: the terms that occur in it; text.words: its long words; text.grounds:
\* the filters its wording gives ground for.
Signals(text, terms) == Within(HighSignalTerms, text.signals \cap terms)

MustTerms(text) ==
    LET signals == Signals(text, MustSignals)
        terms == IF signals = <<>> THEN LeadingWords(text.words) ELSE First(4, signals)
    IN  IF terms = <<>> THEN <<DefaultTerm>> ELSE terms

ShouldTerms(text) ==
    First(6, Signals(text, ToSet(HighSignalTerms) \ (MustSignals \cup ToSet(MustTerms(text)))))

DraftFilters(text) ==
    text.grounds \cup (IF text.signals \cap WorkContentTerms = {} THEN {} ELSE {"workContent"})

\* The strategy extractor's query for the first round; the clean-up of
\* build_search_strategy finds nothing to do in it.
FirstQuery(text) ==
    [must |-> MustTerms(text), should |-> ShouldTerms(text), filters |-> DraftFilters(text)]

\* Mutant: the last must term goes.
DropMust(query) == [query EXCEPT !.must = Front(@), !.should = Front(@)]

\* "Widening": the last should term goes, and the filters that cut most.
DropWeakest(query) ==
    [query EXCEPT !.should = Front(@),
                  !.filters = @ \ {"schoolType", "workExperienceRange", "degree"}]

\* The search reflector: whether to go on, and with what query.
Reflection(query, round, maxRounds, new) ==
    LET fruitless == new = 0
        weaker == fruitless /\ query.should # <<>>
    IN  [continueSearch |->
            round < maxRounds /\ ~(fruitless /\ ~weaker /\ round + 1 >= maxRounds),
         nextQuery |-> IF weaker THEN DropWeakest(query) ELSE query]

-----------------------------------------------------------------------------
(* Resumes: in terms, those in the text the mock source searches; in more,  *)
(* those only in the name, the work experience or the education.            *)

Hits(terms, haystack) == Cardinality({i \in DOMAIN terms : terms[i] \in haystack})

\* The resume matcher's score in 1/10000, rounded; a resume without workYear counts as
\* one with none.
MatchScore(resume, query) ==
    LET haystack == resume.terms \cup resume.more
        must == Len(query.must)
        should == IF query.should = <<>> THEN 1 ELSE Len(query.should)
        years == IF resume.workYear > 10 THEN 10 ELSE resume.workYear
        shares == 3500 * Hits(query.must, haystack) * should
                  + 2000 * Hits(query.should, haystack) * must
        score == 3500 + 50 * years + (2 * shares + must * should) \div (2 * must * should)
    IN  IF score > 9900 THEN 9900 ELSE score

\* Mutant: a resume must have every term.
HasAllTerms(resume, query) == ToSet(query.must) \cup ToSet(query.should) \subseteq resume.terms

\* The mock finds a resume by any one of the query's terms.
Found(resume, query) == (ToSet(query.must) \cup ToSet(query.should)) \cap resume.terms # {}

\* Its list of results: positions in the catalogue, in the catalogue's order.
Results(catalogue, query) == Ascending({i \in DOMAIN catalogue : Found(catalogue[i], query)})
=============================================================================
