-------------------------- MODULE MCVerifiableDocument --------------------------
EXTENDS VerifiableDocument, TLC

CONSTANTS act, old, new, wage, term

\* The act has two units in its old edition and one in the new.
MCTextOf == (old :> <<wage, term>>) @@ (new :> <<wage>>)

MCFormats == {{"html", "docx"}}

Fact(id, evidence, counter) ==
    [id |-> id, material |-> TRUE, open |-> FALSE, evidence |-> evidence, counter |-> counter]

Written(form, claims) == [form |-> form, sensitive |-> FALSE, claims |-> claims]

\* A claim that either edition supports, and the same under a heading that
\* cannot be rendered; a claim that only the old edition supports, with
\* counterevidence.
MCOutlines ==
    LET plain == Fact("C-001", {<<act, 1>>}, {})
        disputed == Fact("C-001", {<<act, 1>>}, {<<act, 2>>})
    IN  {Written("good", <<plain>>), Written("loose", <<plain>>),
         Written("good", <<disputed>>)}
=============================================================================
