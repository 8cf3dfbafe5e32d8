----------------------- MODULE DeterministicClassifier -----------------------
(***************************************************************************)
(* The rules that classify an e-mail before any AI call, as functions of   *)
(* its text.                                                               *)
(*                                                                         *)
(* _normalize folds case and accents away and the rules only ask whether a *)
(* term is a substring, so a text is the set of the phrases it contains.   *)
(* Terms(text) are the configured terms found in it: the phrases           *)
(* themselves and the shorter terms inside them.  The state is a text that *)
(* grows phrase by phrase, to compare the verdicts on a text and on a      *)
(* longer one.  Confidence is in hundredths.                               *)
(***************************************************************************)
EXTENDS Integers, Sequences, FiniteSets

CONSTANT Phrases  \* the phrases a text may be made of

VARIABLE text

\* dict order: max() keeps the first of the best.
Categories == <<"suspicious", "billing", "financial", "appointment", "college", "work",
                "newsletter", "advertising", "notification", "personal">>

CategoryTerms ==
    [suspicious |-> {"confirme sua senha", "validar credenciais", "conta bloqueada",
         "acesso suspenso", "clique imediatamente", "atividade incomum", "premio",
         "ganhador"},
     billing |-> {"cobranca", "boleto", "fatura", "vencimento", "parcela",
         "debito em aberto"},
     financial |-> {"pagamento", "pix", "transferencia", "banco", "nota fiscal",
         "comprovante"},
     appointment |-> {"reuniao", "agenda", "convite", "calendario", "compromisso",
         "entrevista"},
     college |-> {"faculdade", "atividade", "avaliacao", "disciplina", "professor", "senac",
         "nota"},
     work |-> {"projeto", "cliente", "relatorio", "equipe", "contrato", "ordem de servico",
         "trabalho"},
     newsletter |-> {"newsletter", "boletim", "cancelar inscricao", "unsubscribe",
         "descadastrar"},
     advertising |-> {"promocao", "oferta", "desconto", "cupom", "compre agora",
         "liquidacao"},
     notification |-> {"notificacao", "alerta", "verificacao em duas etapas",
         "codigo de seguranca", "novo login", "confirmacao automatica"},
     personal |-> {"familia", "amigo", "pessoal", "aniversario"}]

CriticalTerms == {"fraude", "conta bloqueada", "acesso suspenso", "prazo hoje", "vence hoje",
                  "vencido", "vencida", "imediatamente"}

HighTerms == {"urgente", "acao necessaria", "prazo", "vencimento", "responda", "pendencia"}

ReplyTerms == {"pode confirmar", "por favor responda", "preciso de", "solicito", "retorne",
               "qual horario", "quando", "?"}

NoReplyTerms == {"no-reply", "noreply", "nao responda"}

RiskTerms ==
    [credential_request |-> {"informe sua senha", "envie sua senha", "confirme sua senha",
         "compartilhe o codigo"},
     payment_request |-> {"pix", "boleto", "pagamento", "transferencia"},
     urgent_language |-> {"urgente", "imediatamente", "agora", "prazo hoje"},
     suspicious_link_language |-> {"clique aqui", "acesse o link", "validar conta"}]

RiskFlags == DOMAIN RiskTerms

\* Terms that are substrings of a longer term.
Inside(phrase) ==
    CASE phrase = "atividade incomum"    -> {"atividade"}
      [] phrase = "nota fiscal"          -> {"nota"}
      [] phrase = "clique imediatamente" -> {"imediatamente"}
      [] phrase = "compre agora"         -> {"agora"}
      [] phrase = "prazo hoje"           -> {"prazo"}
      [] phrase = "nao responda"         -> {"responda"}
      [] phrase = "por favor responda"   -> {"responda"}
      [] OTHER -> {}

Terms(phrases) == phrases \cup UNION {Inside(p) : p \in phrases}

CountMatches(phrases, terms) == Cardinality(Terms(phrases) \cap terms)

ContainsAny(phrases, terms) == Terms(phrases) \cap terms # {}

Score(phrases, category) == CountMatches(phrases, CategoryTerms[category])

\* Mutant of Better: the last of the best wins.
BetterOrEqual(phrases, candidate, best) ==
    Score(phrases, candidate) >= Score(phrases, best)

\* max() replaces its best only by a greater one.
Better(phrases, candidate, best) == Score(phrases, candidate) > Score(phrases, best)

\* max(scores.items(), key=...): the best after each item, in the order of the table.
BestSoFar(phrases) ==
    LET best[i \in DOMAIN Categories] ==
            IF i = 1 THEN Categories[1]
            ELSE LET last == best[i - 1] IN
                 IF Better(phrases, Categories[i], last) THEN Categories[i] ELSE last
    IN  best

BestCategory(phrases) == BestSoFar(phrases)[Len(Categories)]

MatchCount(phrases) == Score(phrases, BestCategory(phrases))

Category(phrases) == IF MatchCount(phrases) = 0 THEN "unknown" ELSE BestCategory(phrases)

\* Mutant of Confidence: no cap.
ConfidenceUncapped(phrases) ==
    IF MatchCount(phrases) = 0 THEN 35 ELSE 68 + 10 * MatchCount(phrases)

\* Mutant of Confidence: several categories in conflict lower it.
ConfidenceOfRivals(phrases) ==
    LET n == MatchCount(phrases)
        rivals == {i \in DOMAIN Categories : Score(phrases, Categories[i]) > 0} IN
    IF n = 0 THEN 35 ELSE 68 + 10 * n - 10 * (Cardinality(rivals) - 1)

Confidence(phrases) ==
    LET n == MatchCount(phrases) IN
    IF n = 0 THEN 35 ELSE IF 68 + 10 * n < 98 THEN 68 + 10 * n ELSE 98

\* Mutant of Priority: the category is looked at before the terms of urgency.
PriorityOfCategory(phrases) ==
    LET category == Category(phrases) IN
    IF category \in {"newsletter", "advertising"} THEN "low"
    ELSE IF category \in {"financial", "billing", "appointment", "suspicious"} THEN "medium"
    ELSE IF ContainsAny(phrases, CriticalTerms) THEN "critical"
    ELSE IF ContainsAny(phrases, HighTerms) THEN "high"
    ELSE "low"

Priority(phrases) ==
    LET category == Category(phrases) IN
    IF category \in {"newsletter", "advertising"} THEN "low"
    ELSE IF ContainsAny(phrases, CriticalTerms) THEN "critical"
    ELSE IF ContainsAny(phrases, HighTerms) THEN "high"
    ELSE IF category \in {"financial", "billing", "appointment", "suspicious"} THEN "medium"
    ELSE "low"

RequiresReply(phrases) ==
    /\ ~ContainsAny(phrases, NoReplyTerms)
    /\ Category(phrases) \notin {"newsletter", "advertising", "notification"}
    /\ ContainsAny(phrases, ReplyTerms)

Flags(phrases) == {flag \in RiskFlags : ContainsAny(phrases, RiskTerms[flag])}

Classify(phrases) ==
    [category |-> Category(phrases), priority |-> Priority(phrases),
     requires_reply |-> RequiresReply(phrases), confidence |-> Confidence(phrases),
     risk_flags |-> Flags(phrases)]

-------------------------------------------------------------------------------

Init == text = {}

\* The text goes on with one more phrase.
Add(p) == p \notin text /\ text' = text \cup {p}

Next == (\E p \in Phrases : Add(p)) \/ (text = Phrases /\ UNCHANGED text)

Spec == Init /\ [][Next]_text

-------------------------------------------------------------------------------
(* What must hold. *)

\* settings.ai_deterministic_threshold, its default in hundredths.
Threshold == 88

\* The category is the first, in the order of the table, of those with the most
\* terms in the text; there is one exactly when some term was found.
WinnerIsFirstBest ==
    LET score == [i \in DOMAIN Categories |-> Score(text, Categories[i])]
        isBest(i) == /\ \A j \in DOMAIN Categories : score[j] <= score[i]
                     /\ \A j \in 1..(i - 1) : score[j] < score[i]
    IN IF \A i \in DOMAIN Categories : score[i] = 0
       THEN Category(text) = "unknown"
       ELSE \E i \in DOMAIN Categories : isBest(i) /\ Category(text) = Categories[i]

\* A classification is sure enough to spare the AI call exactly when two terms
\* of its category were found, and it is a confidence the database accepts.
ConfidenceIsEvidence ==
    /\ Confidence(text) \in 0..98
    /\ Confidence(text) >= Threshold <=> MatchCount(text) >= 2

\* A longer text never has less evidence: confidence does not fall and no risk
\* flag disappears; urgency and a required reply give way only to bulk mail or,
\* for the reply, to a no-reply marker.
LongerTextKeepsEvidence ==
    [][/\ Confidence(text') >= Confidence(text)
       /\ Flags(text) \subseteq Flags(text')
       /\ Priority(text) = "critical" /\ Priority(text') # "critical" =>
              Category(text') \in {"newsletter", "advertising"}
       /\ Priority(text) = "high" /\ Priority(text') \in {"medium", "low"} =>
              Category(text') \in {"newsletter", "advertising"}
       /\ RequiresReply(text) /\ ~RequiresReply(text') =>
              \/ ContainsAny(text', NoReplyTerms)
              \/ Category(text') \in {"newsletter", "advertising", "notification"}]_text
===============================================================================
