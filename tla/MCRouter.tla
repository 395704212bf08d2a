------------------------------ MODULE MCRouter ------------------------------
(* The instance of ModelRouter that TLC checks: two hosted models and a     *)
(* local one.                                                               *)
EXTENDS ModelRouter
Hosted(model, order, max, price) ==
  [provider |-> "openrouter", model |-> model, local |-> FALSE, json |-> TRUE, context |-> 4,
   max |-> max, order |-> order, rank |-> order, price |-> price]
Local(model) ==
  [provider |-> "ollama", model |-> model, local |-> TRUE, json |-> TRUE, context |-> 4,
   max |-> 2, order |-> 1000, rank |-> 2, price |-> 0]
MCCandidates == {Hosted("flash", 0, 2, 1), Hosted("large", 1, 3, 1), Local("llama")}
Plain == [mode |-> "summary", sensitive |-> FALSE, provider |-> Unset, model |-> Unset,
          tokens |-> 1, budget |-> 0, schema |-> "usable"]
MCInputs == {
  Plain,
  [Plain EXCEPT !.sensitive = TRUE, !.provider = "openrouter"],
  [Plain EXCEPT !.mode = "extract", !.tokens = 3, !.model = "flash"],
  [Plain EXCEPT !.mode = "extract", !.budget = 1, !.schema = "unusable"],
  [Plain EXCEPT !.provider = "unsupported"],
  [Plain EXCEPT !.tokens = 9]}
History(outcomes) ==
  [k \in 1..(Len(outcomes) + 1) |->
     FoldLeft(LAMBDA b, o : Entered(b, o[1], o[2]), Books, SubSeq(outcomes, 1, k - 1))]
MCHistories == {History(outcomes) : outcomes \in {
  << >>,
  <<<<"flash", "hard_fail">>, <<"flash", "hard_fail">>, <<"large", "hard_fail">>>>,
  <<<<"flash", "hard_fail">>, <<"flash", "hard_fail">>, <<"flash", "success">>>>}}
=============================================================================
