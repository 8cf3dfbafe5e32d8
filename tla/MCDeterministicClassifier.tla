---------------------- MODULE MCDeterministicClassifier ----------------------
(***************************************************************************)
(* Thirteen phrases: overlapping terms, terms of two tables, a category    *)
(* with more terms than the cap of the confidence can tell apart, ties     *)
(* between categories, bulk mail, urgency, replies and no-reply markers.   *)
(***************************************************************************)
EXTENDS DeterministicClassifier

MCPhrases == {"conta bloqueada", "boleto", "nota fiscal", "atividade incomum",
              "projeto", "cliente", "relatorio", "equipe", "promocao", "alerta",
              "prazo hoje", "nao responda", "quando"}
===============================================================================
