------------------------------ MODULE MCPages ------------------------------
(* Instances for TLC of two pages that poll, with what they talk to: the    *)
(* export page, alone, and the pages of the prompts.  They share no state:  *)
(* a behaviour of this module is one of Export or one of LlmApi, and the    *)
(* variables of the other stay as they begin.                               *)
EXTENDS MCExport, LlmApi

VARIABLE open    \* the page that is open

pagesVars == <<open, vars, llmApiVars>>

PagesInit == open \in {"export", "prompt"} /\ Init /\ LlmApiInit

PagesNext ==
    \/ open = "export" /\ Next /\ UNCHANGED <<open, llmApiVars>>
    \/ open = "prompt" /\ LlmApiNext /\ UNCHANGED <<open, vars>>

\* The fairness of Export and of LlmApi, each for the page that is open.
PagesFairness ==
    /\ \A p \in Pages :
          /\ WF_vars(open = "export" /\ ApiStep(p))
          /\ WF_vars(open = "export" /\ Poll(p))
          /\ WF_vars(open = "export" /\ (MediaStep(p) \/ MediaThrows(p)))
    /\ \A n \in Prompts :
          WF_llmApiVars(open = "prompt" /\ (PostStep(n) \/ Answered(n)))
    /\ \A l \in Loops :
          WF_llmApiVars(open = "prompt" /\ (Get(l) \/ GetResult(l)))

PagesSpec == PagesInit /\ [][PagesNext]_pagesVars /\ PagesFairness

=============================================================================
