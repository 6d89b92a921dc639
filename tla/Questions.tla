------------------------------ MODULE Questions ------------------------------
(***************************************************************************)
(* A multiple-choice question of the agent, put to a human and taken back  *)
(* (prodeo_adapter_claude_code/format.py).  Two paths carry the answer:    *)
(* the PermissionRequest hook (hook.py, decision_output), which may leave  *)
(* the terminal to ask again, and the SDK bridge (launcher.py,             *)
(* can_use_tool), which must allow or deny.  Neither may make up a choice. *)
(*                                                                         *)
(* Phrases are strings without blanks around them; what str.casefold() and *)
(* the pattern of an ordinal ("option 2") make of them are constants.      *)
(***************************************************************************)
EXTENDS Naturals, Sequences

CONSTANTS
  Phrases,    \* what a human may click, type or say
  Fold,       \* text -> str.casefold() of it
  Ordinal,    \* text -> the position it names, 0 when it names none
  Prompts,    \* texts of questions
  LabelLists, \* the option lists a question may come with
  MaxAsked,   \* bound: questions in one call of the tool
  MaxChosen,  \* bound: labels chosen for one question
  Nothing     \* None

QuestionsBounds == {MaxAsked, MaxChosen} \subseteq Nat /\ LabelLists \subseteq Seq(Phrases)

\* Inputs of AskUserQuestion; one without questions stands for a malformed one.
Questionnaires ==
  UNION {[1 .. k -> [text: Prompts, labels: LabelLists, multi: BOOLEAN]] : k \in 0 .. MaxAsked}

VARIABLES
  asked,   \* the questions of the blocked call
  shown,    \* what is shown to the human: kind and ids, or Nothing
  outcome,   \* the terminal state the mediation reports, or Nothing
  ruling   \* path -> what the agent is told, or Nothing while it is not

vars == <<asked, shown, outcome, ruling>>

-----------------------------------------------------------------------------
(* format.py *)

\* Defect: a choice that matches nothing is taken as the first option.
MatchLabelEagerly(labels, chosen) ==
  IF \E k \in DOMAIN labels : labels[k] = chosen THEN chosen ELSE labels[1]

\* _match_label(): the exact label, else the first equal up to case, else
\* the one at that position.
MatchLabel(labels, chosen) ==
  LET alike == {k \in DOMAIN labels : Fold[labels[k]] = Fold[chosen]}
  IN IF chosen = "" THEN Nothing
     ELSE IF \E k \in DOMAIN labels : labels[k] = chosen THEN chosen
     ELSE IF alike # {} THEN labels[CHOOSE k \in alike : \A j \in alike : k <= j]
     ELSE IF Ordinal[chosen] \in DOMAIN labels THEN labels[Ordinal[chosen]]
     ELSE Nothing

\* question_groups(): a group's id is its text, with the count of the text so
\* far appended from the second on.
GroupId(questions, k) ==
  LET count == Len(SelectSeq(SubSeq(questions, 1, k), LAMBDA q : q.text = questions[k].text))
  IN <<questions[k].text, count>>

\* The labels one group's choices match, or Nothing when some choice matches
\* none, when none is left, or when a single choice became several.
Matched(question, choices) ==
  LET labels == {MatchLabel(question.labels, choices[j]) : j \in DOMAIN choices}
  IN IF \/ labels = {}
        \/ Nothing \in labels
        \/ ~question.multi /\ \E l, m \in labels : l # m
       THEN Nothing
       ELSE [labels |-> labels]

Chosen(selections, id) == IF id \in DOMAIN selections THEN selections[id] ELSE <<>>

\* questions_updated_input(): question text -> its labels; the last of the
\* questions with one text speaks for all of them, as the agent's map of
\* answers is keyed by the text.
QuestionsUpdatedInput(questions, selections) ==
  LET MatchedAt(k) == Matched(questions[k], Chosen(selections, GroupId(questions, k)))
      LastWith(t) ==
        CHOOSE k \in DOMAIN questions :
          questions[k].text = t /\ \A j \in k + 1 .. Len(questions) : questions[j].text # t
  IN IF questions = <<>> \/ \E k \in DOMAIN questions : MatchedAt(k) = Nothing
       THEN Nothing
       ELSE [t \in {questions[k].text : k \in DOMAIN questions} |-> MatchedAt(LastWith(t)).labels]

\* question_updated_input(): one bare text answers one single-choice question.
QuestionUpdatedInput(questions, chosen) ==
  IF Len(questions) # 1 \/ questions[1].multi THEN Nothing
  ELSE LET label == MatchLabel(questions[1].labels, chosen)
       IN IF label = Nothing THEN Nothing ELSE [t \in {questions[1].text} |-> {label}]

\* interaction_content(): questions are a card of their own kind, anything
\* malformed is put as a permission; options for the one-text answer only.
InteractionContent(questions) ==
  [kind |-> IF questions = <<>> THEN "permission" ELSE "question",
   groups |-> {GroupId(questions, k) : k \in DOMAIN questions},
   options |-> IF Len(questions) = 1 /\ ~questions[1].multi THEN questions[1].labels ELSE <<>>]

-----------------------------------------------------------------------------
(* The two ways back *)

Allow(answers) == [behavior |-> "allow", answers |-> answers]
AsAsked == [t \in {} |-> {}]
Deny == [behavior |-> "deny"]
Terminal == [behavior |-> "prompt"]

\* An allowance that carries selections, else the path's refusal to guess.
Carrying(answers, refusal) == IF answers = Nothing THEN refusal ELSE Allow(answers)

\* decision_output() of the hook: only what a human answered is output.
DecisionOutput(questions, r) ==
  IF r.status # "answered" THEN Terminal
  ELSE IF r.decision = "allow" THEN Allow(AsAsked)
  ELSE IF r.decision = "deny" THEN Deny
  ELSE IF r.selections # Nothing
    THEN Carrying(QuestionsUpdatedInput(questions, r.selections), Terminal)
  ELSE IF r.text # "" THEN Carrying(QuestionUpdatedInput(questions, r.text), Terminal)
  ELSE Terminal

\* can_use_tool() of the SDK bridge: empty selections count as none, and what
\* matches no option is refused.  An expired permission is a denial; an
\* expired question, and one withdrawn, never return.
CanUseTool(questions, r) ==
  IF r.status = "cancelled" \/ (r.status = "timed_out" /\ questions # <<>>) THEN Nothing
  ELSE IF r.status = "timed_out" \/ r.decision = "deny" THEN Deny
  ELSE IF r.decision = "allow" THEN Allow(AsAsked)
  ELSE IF r.selections # Nothing /\ r.selections # <<>>
    THEN Carrying(QuestionsUpdatedInput(questions, r.selections), Deny)
  ELSE IF r.text # "" THEN Carrying(QuestionUpdatedInput(questions, r.text), Deny)
  ELSE Deny

-----------------------------------------------------------------------------

Init ==
  /\ asked \in Questionnaires
  /\ shown = Nothing
  /\ outcome = Nothing
  /\ ruling = [path \in {"hook", "sdk"} |-> Nothing]

\* The call is presented.
Present ==
  /\ shown = Nothing
  /\ shown' = InteractionContent(asked)
  /\ UNCHANGED <<asked, outcome, ruling>>

Response(status, decision, text, selections) ==
  [status |-> status, decision |-> decision, text |-> text, selections |-> selections]

\* An AnswerRequest, from the dashboard or by voice: a decision, a bare text
\* or labels for some of the groups.  Also the two ends without an answer.
Resolve ==
  /\ shown # Nothing
  /\ outcome = Nothing
  /\ \/ \E d \in {"allow", "deny"} : outcome' = Response("answered", d, "", Nothing)
     \/ \E t \in Phrases \cup {""} : outcome' = Response("answered", Nothing, t, Nothing)
     \/ \E ids \in SUBSET shown.groups :
          \E s \in [ids -> UNION {[1 .. k -> Phrases] : k \in 0 .. MaxChosen}] :
            outcome' = Response("answered", Nothing, "", s)
     \/ \E status \in {"timed_out", "cancelled"} : outcome' = Response(status, Nothing, "", Nothing)
  /\ UNCHANGED <<asked, shown, ruling>>

\* The path that asked hears it.
Rule(path) ==
  /\ outcome # Nothing
  /\ ruling[path] = Nothing
  /\ ruling' = [ruling EXCEPT ![path] =
       IF path = "hook" THEN DecisionOutput(asked, outcome) ELSE CanUseTool(asked, outcome)]
  /\ UNCHANGED <<asked, shown, outcome>>

Next == Present \/ Resolve \/ (\E path \in {"hook", "sdk"} : Rule(path))

Spec == Init /\ [][Next]_vars

-----------------------------------------------------------------------------

\* Type invariant.
TypeOK ==
  /\ asked \in Questionnaires
  /\ shown # Nothing => shown.kind \in {"permission", "question"}
  /\ outcome # Nothing => outcome.status \in {"answered", "timed_out", "cancelled"}
  /\ \A path \in {"hook", "sdk"} :
       ruling[path] # Nothing => ruling[path].behavior \in {"allow", "deny", "prompt"}

\* A human named a label: exactly, up to case, or by its position when the
\* words are no label themselves.
Names(question, words, label) ==
  \/ words = label
  \/ /\ words \notin {question.labels[k] : k \in DOMAIN question.labels}
     /\ \/ Fold[words] = Fold[label]
        \/ Ordinal[words] \in DOMAIN question.labels /\ question.labels[Ordinal[words]] = label

\* What the human said on the k-th question of the call.
Said(k) ==
  IF outcome.selections = Nothing THEN {outcome.text}
  ELSE LET said == Chosen(outcome.selections, GroupId(asked, k)) IN {said[j] : j \in DOMAIN said}

\* "The caller must not fabricate a choice the human did not make"
\* (format.py:133): when selections reach the agent, on either path, every
\* question has an answer, every label in it is an option that the human
\* named, nothing the human named is left out, a single choice is one label,
\* and nothing is allowed unless the human said so or named labels.
NothingFabricated ==
  \A path \in {"hook", "sdk"} :
    (ruling[path] # Nothing /\ ruling[path].behavior = "allow") =>
      LET answers == ruling[path].answers
      IN \/ answers = AsAsked /\ outcome.decision = "allow"
         \/ \A k \in DOMAIN asked :
              (\A j \in k + 1 .. Len(asked) : asked[j].text # asked[k].text) =>
                /\ asked[k].text \in DOMAIN answers
                /\ \A l \in answers[asked[k].text] : \E w \in Said(k) : Names(asked[k], w, l)
                /\ \A w \in Said(k) : \E l \in answers[asked[k].text] : Names(asked[k], w, l)
                /\ answers[asked[k].text] # {}
                /\ ~asked[k].multi => \A l, m \in answers[asked[k].text] : l = m

=============================================================================
