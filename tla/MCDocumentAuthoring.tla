-------------------------- MODULE MCDocumentAuthoring --------------------------
(* How a document comes about and how its events reach the client, for TLC: *)
(* SectionedAuthoring with four kinds of answers of the model, a section of *)
(* several parts (PartExecution), the text that sections are made of        *)
(* (DocumentAssembly), the streams its agent reads (DocumentStream), the    *)
(* one it answers with (EventStream), and the whole from its outline to its *)
(* manifest (DocumentFinalization).  They share no state here, so each      *)
(* behaviour uses one of them, and the others keep one initial state.       *)
EXTENDS SectionedAuthoring, PartExecution, DocumentAssembly, DocumentStream, EventStream,
        DocumentFinalization

VARIABLE side \* what this behaviour is of

Written(units, sound, cut) == [units |-> units, sound |-> sound, cut |-> cut]

Empty  == Written(0, TRUE, FALSE)
Fit    == Written(3, TRUE, FALSE)
Broken == Written(3, FALSE, FALSE)
Huge   == Written(60, TRUE, TRUE)

AllTexts == {Empty, Fit, Broken, Huge}

MCMaxima == <<5, 3, 2>>

MCStreamSetups ==
  {[reader |-> "narrative", ids |-> TRUE], [reader |-> "subtasks", ids |-> TRUE],
   [reader |-> "subtasks", ids |-> FALSE]}

MCJobs ==
  {[streamed |-> TRUE, sink |-> TRUE, fixed |-> FALSE, deadline |-> TRUE],
   [streamed |-> FALSE, sink |-> FALSE, fixed |-> TRUE, deadline |-> TRUE]}

\* the model's own titles, and one of those the repair makes up
MCSectionIds   == {<<"model", 1>>, <<"model", 2>>, <<"fallback", 2>>}
MCCanonicalIds == <<<<"canonical", 1>>, <<"canonical", 2>>>>

\* what a model writes for a section, in the shorthand of DocumentAssembly: the section, the
\* section under another title, more than the section; and what ends in an open piece after
\* sentences, blocks, lines, clauses and code
Of(kinds) == [n \in DOMAIN kinds |-> [kind |-> kinds[n], title |-> 0]]
Headed(kind, title) == <<[kind |-> kind, title |-> title]>>
MCAnswers ==
  {Headed("h2", 1) \o Of(<<"blank", "full", "full">>),
   Headed("h2", 0) \o Of(<<"full", "open">>) \o Headed("h2", 2) \o Of(<<"full", "open">>),
   Headed("h3", 2) \o Of(<<"item", "item">>) \o Headed("h3", 0) \o Of(<<"full">>),
   Of(<<"full", "blank", "open">>), Of(<<"full", "item", "open", "blank", "open">>),
   Of(<<"item", "item", "open">>), Of(<<"clause", "clause", "clause", "open">>), Of(<<"open">>),
   Of(<<"fence", "full", "fence">>), Of(<<"full", "fence", "open">>),
   Of(<<"fence", "full", "clause">>), Of(<<"fence", "full">>),
   Of(<<"item", "fence", "full", "full", "clause">>),
   Of(<<"item", "fence", "clause", "fence", "open", "open", "open">>),
   Of(<<"full", "full", "full", "full", "open">>)}

DocumentInit ==
  /\ side \in {"author", "parts", "text", "stream", "events", "finalization"}
  /\ Init /\ PartInit /\ AssemblyInit
  /\ StreamInit /\ EventInit /\ FinalizationInit
  /\ side # "text" => ~reviewing /\ reviewsLeft = 0
  /\ side # "stream" => stream = CHOOSE setup \in StreamSetups : TRUE
  /\ side # "events" => endpoint = CHOOSE e \in Endpoints : TRUE
  /\ side # "finalization" => job = CHOOSE j \in Jobs : TRUE

DocumentNext ==
  \/ /\ side = "author" /\ Next
     /\ UNCHANGED <<side, partVars, textVars, streamVars, eventVars, finalVars>>
  \/ /\ side = "parts" /\ PartNext
     /\ UNCHANGED <<side, vars, textVars, streamVars, eventVars, finalVars>>
  \/ /\ side = "text" /\ AssemblyNext
     /\ UNCHANGED <<side, vars, partVars, streamVars, eventVars, finalVars>>
  \/ /\ side = "stream" /\ StreamNext
     /\ UNCHANGED <<side, vars, partVars, textVars, eventVars, finalVars>>
  \/ /\ side = "events" /\ EventNext
     /\ UNCHANGED <<side, vars, partVars, textVars, streamVars, finalVars>>
  \/ /\ side = "finalization" /\ FinalizationNext
     /\ UNCHANGED <<side, vars, partVars, textVars, streamVars, eventVars>>

documentVars == <<side, vars, partVars, textVars, streamVars, eventVars, finalVars>>

DocumentSpec == DocumentInit /\ [][DocumentNext]_documentVars

DocumentTypeOK ==
  /\ TypeOK /\ PartTypeOK /\ AssemblyTypeOK
  /\ StreamTypeOK /\ EventTypeOK /\ FinalizationTypeOK

(* A document's outline covers what was asked for, the parts of a section   *)
(* cover the section, each once, and what the model wrote for a section is  *)
(* in the document, but for an end that was not finished (OutlineIsWhole,   *)
(* SectionIsCoveredOnce, TextIsKept).                                       *)
NothingIsLeftOut == OutlineIsWhole /\ SectionIsCoveredOnce /\ TextIsKept

(* What the client reads of a graph or of an author is what that produced,  *)
(* and ends as that ended (StreamIsFaithful, RunEndsWithItsAuthor).         *)
DeliveryIsFaithful == StreamIsFaithful /\ RunEndsWithItsAuthor
=============================================================================
