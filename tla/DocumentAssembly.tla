--------------------------- MODULE DocumentAssembly ---------------------------
(***************************************************************************)
(* What becomes of the text of a document (sectioned_authoring.py): the    *)
(* answer of the model for a section is cut down to the section that was   *)
(* asked for, its unfinished end is closed (the end of _draft_section) and *)
(* it is put under the heading of the section; the sections are joined,    *)
(* with optional reviews of the seams and of the end (_polish_final), and  *)
(* the whole is checked before it is published.                            *)
(*                                                                         *)
(* A Markdown text is a sequence of marks: headings, lines of a list,      *)
(* fences of code, blank lines, and pieces of prose that end with a full   *)
(* stop, with a comma or with nothing.  Pieces that follow each other are  *)
(* on one line.  Every mark that has words has the same number of them.    *)
(* Length budgets, rewrites and the semantic review of a section are in    *)
(* SectionedAuthoring; finish_current joins the sections without reviews   *)
(* and without a check.                                                    *)
(***************************************************************************)
EXTENDS Integers, Sequences, FiniteSets, SequencesExt, FiniteSetsExt, Selection

CONSTANTS
  SectionCount, \* number of sections; the title of a section is its number
  Answers,      \* what the model may write for a section
  MaxUnits      \* max_information_units of a part

Mark(kind, title) == [kind |-> kind, title |-> title]

\* what an answer may be made of; the program itself welds a mark to a fence
Marks == [kind : {"h2", "h3", "full", "clause", "open", "item", "fence", "blank"}, title : Nat]
AnyMark == [kind : {"h2", "h3", "full", "clause", "open", "item", "fence", "welded", "blank",
                    "bridge", "closing"}, title : Nat]

ASSUME AssemblyAssumption ==
  SectionCount \in Nat \ {0} /\ MaxUnits \in Nat /\ Answers \subseteq Seq(Marks)

VARIABLES
  stage,       \* where author is
  given,       \* history: the answers of the model
  chapters,    \* the accepted sections
  combined,    \* the document so far
  reviewing,   \* enable_document_seam_review, until the reviews are skipped
  reviewsLeft, \* review calls the budget still has
  failed       \* why author raised

textVars == <<stage, given, chapters, combined, reviewing, reviewsLeft, failed>>

Foreign == 0 \* a title that is no section's
H2(title) == Mark("h2", title)
H3(title) == Mark("h3", title)
Full   == Mark("full", Foreign)
Clause == Mark("clause", Foreign)
Open   == Mark("open", Foreign)
Item   == Mark("item", Foreign)
Fence  == Mark("fence", Foreign)
Welded == Mark("welded", Foreign) \* a fence with more on its line: it closes nothing
Blank  == Mark("blank", Foreign)
Bridge  == Mark("bridge", Foreign)  \* the sentence a seam review inserts
Closing == Mark("closing", Foreign) \* the sentence the tail review puts at the end

AssemblyInit ==
  /\ stage = "draft" /\ given = <<>> /\ chapters = <<>> /\ combined = <<>>
  /\ reviewing \in BOOLEAN
  /\ reviewsLeft \in 0 .. SectionCount + 1
  /\ failed = "no"

-----------------------------------------------------------------------------
(* Texts.                                                                   *)

\* where text t has marks of one of the kinds
Places(t, kinds) == {n \in DOMAIN t : t[n].kind \in kinds}
LastOf(places)   == Max({0} \cup places)
Beginning(t, n)  == SubSeq(t, 1, n)

Sentences == {"full", "bridge", "closing"}
Prose     == Sentences \cup {"clause", "open"}

\* strip()
Stripped(t) ==
  LET solid == DOMAIN t \ Places(t, {"blank"}) IN
  IF solid = {} THEN <<>> ELSE SubSeq(t, Min(solid), Max(solid))

Odd(places) == Cardinality(places) % 2 = 1

Fences == {"fence", "welded"}
OddFences(t) == Odd(Places(t, Fences))

\* information_units: what is between two fences does not count
Units(t) ==
  LET fences == Places(t, Fences) IN
  Cardinality({n \in Places(t, Prose \cup {"h2", "h3", "item"}) :
                 Odd({m \in fences : m < n}) => \A m \in fences : m < n})

\* markdown_structure_violation: a fence with more on its line opens a block in any case, and
\* a line of a fence alone opens or closes one
Unclosed(t) ==
  LET last == LastOf(Places(t, {"welded"})) IN
  (last = 0) = Odd({n \in Places(t, {"fence"}) : n > last})

\* the marks of t of one of the kinds, in order
Those(t, kinds) == Where(t, [kind : kinds, title : Nat])
Headings2(t)    == Those(t, {"h2"})

-----------------------------------------------------------------------------
(* The text of one section.                                                 *)

\* the level-two section that begins at n, without its heading
Under(t, n) ==
  LET ends == {m \in Places(t, {"h2"}) : m > n} IN
  SubSeq(t, n + 1, IF ends = {} THEN Len(t) ELSE Min(ends) - 1)

\* _isolate_requested_section: the section asked for, or the first one under its title
Isolated(t, title) ==
  LET asked == {n \in Places(t, {"h2"}) : t[n].title = title}
      any   == Places(t, {"h2"}) IN
  CASE asked # {} -> Stripped(<<H2(title)>> \o Under(t, Min(asked)))
    [] asked = {} /\ any # {} -> Stripped(<<H2(title), Blank>> \o Stripped(Under(t, Min(any))))
    [] any = {} -> IF Contains(t, H3(title)) THEN t ELSE Stripped(<<H2(title), Blank>> \o t)

\* normalize_part_markdown: no heading of the section itself, and others below it
Normalised(t, title) ==
  LET rest == Where(t, AnyMark \ {H2(title), H3(title)}) IN
  Stripped([n \in DOMAIN rest |-> IF rest[n].kind = "h2" THEN H3(rest[n].title) ELSE rest[n]])

\* _has_open_prose_tail
HasOpenTail(t) == t # <<>> /\ Last(t).kind \in {"clause", "open"}

LineStart(t) == 1 + LastOf({n \in DOMAIN t : n < Len(t) /\ ~(t[n].kind \in Prose /\ t[n + 1].kind \in Prose)})

\* _close_truncated_tail: the text up to its last sentence, or without its last block or
\* line, or up to its last clause, the first of these that is long enough
Closed(t) ==
  LET enough(s, tenths) == Units(s) >= Max({1, (Units(t) * tenths) \div 10})
      repaired(s) == IF OddFences(s) THEN Append(s, Fence) ELSE s
      sentence == Stripped(Beginning(t, LastOf(Places(t, {"full"}))))
      blocks   == Stripped(Beginning(t, LastOf(Places(t, {"blank"}))))
      lines    == Stripped(Beginning(t, LineStart(t) - 1))
      clauses  == Places(t, {"clause"})
      clause   == Beginning(t, LastOf(clauses) - 1)
  IN IF t = <<>> \/ Last(t).kind = "full" THEN t
     ELSE IF sentence # <<>> /\ enough(sentence, 5) THEN repaired(sentence)
     ELSE IF blocks # <<>> /\ enough(blocks, 6) THEN repaired(blocks)
     ELSE IF lines # <<>> /\ enough(lines, 6) THEN repaired(lines)
     ELSE IF clauses = {} \/ ~enough(Append(clause, Open), 7) THEN <<>>
     \* the full stop is put after the fence that closes the block
     ELSE IF OddFences(clause) THEN clause \o <<Open, Welded>> ELSE Append(clause, Full)

\* the end of _draft_section
Finished(t) ==
  IF HasOpenTail(t) /\ Units(t) <= MaxUnits /\ Closed(t) # <<>> THEN Closed(t) ELSE t

\* assemble_section, of the one part
Titled(t, title) == Stripped(<<H2(title), Blank>> \o Normalised(t, title))

Refuse(why) == stage' = "raised" /\ failed' = why

DraftChapter ==
  /\ stage = "draft" /\ Len(chapters) < SectionCount
  /\ LET title == Len(chapters) + 1 IN
     \E answer \in Answers :
       LET part == Finished(Normalised(Isolated(answer, title), title)) IN
       /\ given' = Append(given, answer)
       /\ \/ Units(part) = 0 /\ Refuse("empty part") /\ UNCHANGED chapters
          \/ /\ Units(part) > 0
             /\ chapters' = Append(chapters, Titled(part, title))
             /\ UNCHANGED <<stage, failed>>
  /\ UNCHANGED <<combined, reviewing, reviewsLeft>>

-----------------------------------------------------------------------------
(* The whole document: _polish_final.                                       *)

Joined(ts) ==
  LET all[n \in 0 .. Len(ts)] ==
        IF n = 0 THEN <<>> ELSE IF all[n - 1] = <<>> THEN ts[n] ELSE all[n - 1] \o <<Blank>> \o ts[n]
  IN all[Len(ts)]

\* one review for each seam and one for the end
Reviews == Len(chapters)

\* all reviews are skipped unless the budget has calls for all of them
BeginAssembly ==
  /\ stage = "draft" /\ Len(chapters) = SectionCount
  /\ reviewing' = (reviewing /\ reviewsLeft >= Reviews)
  /\ combined' = chapters[1]
  /\ stage' = "join"
  /\ UNCHANGED <<given, chapters, reviewsLeft, failed>>

\* the section the next seam leads to
Upcoming == Len(Headings2(combined)) + 1

\* reserve, which raises if nothing is left
Reserve == reviewsLeft' = reviewsLeft - 1

\* _insert_bridge_after_heading
WithBridge(t) == <<Head(t), Blank, Bridge>> \o Tail(t)

JoinNext(t) == combined' = combined \o <<Blank>> \o t

JoinUnreviewed ==
  /\ stage = "join" /\ ~reviewing /\ Upcoming <= SectionCount
  /\ JoinNext(chapters[Upcoming])
  /\ UNCHANGED <<stage, given, chapters, reviewing, reviewsLeft, failed>>

\* what _safe_seam_bridge and _safe_final_tail_replacement make of a proposed sentence:
\* nothing, unless it is one short sentence
Proposals == {"sentence", "unusable"}

ReviewSeam ==
  /\ stage = "join" /\ reviewing /\ Upcoming <= SectionCount /\ Reserve
  /\ \/ JoinNext(chapters[Upcoming]) /\ UNCHANGED <<stage, failed>> \* smooth
     \/ \E bridge \in Proposals :
          \/ bridge = "sentence" /\ JoinNext(WithBridge(chapters[Upcoming])) /\ UNCHANGED <<stage, failed>>
          \/ bridge = "unusable" /\ Refuse("seam review invalid") /\ UNCHANGED combined
  /\ UNCHANGED <<given, chapters, reviewing>>

\* where the last sentence of t begins
LastSentence(t) ==
  LET ends == Places(t, Sentences)
      from(n) == 1 + (IF n < Len(t) /\ t[n + 1].kind = "blank" THEN n + 1 ELSE n)
      block == 1 + LastOf(Places(t, {"blank"}))
  IN CASE Last(t).kind \in Sentences /\ Cardinality(ends) >= 2 -> from(Max(ends \ {Len(t)}))
       [] Last(t).kind \in Sentences /\ Cardinality(ends) < 2  -> block
       [] OTHER -> IF ends = {} THEN block ELSE from(Max(ends))

\* _replace_final_sentence
TailReplaced(t) == Append(Beginning(t, LastSentence(t) - 1), Closing)

ReviewTail ==
  /\ stage = "join" /\ reviewing /\ Upcoming > SectionCount /\ Reserve
  /\ \/ stage' = "check" /\ UNCHANGED <<combined, failed>> \* complete
     \/ \E tail \in Proposals :
          \/ /\ tail = "sentence" /\ combined' = TailReplaced(combined)
             /\ stage' = "check" /\ UNCHANGED failed
          \/ tail = "unusable" /\ Refuse("tail review invalid") /\ UNCHANGED combined
  /\ UNCHANGED <<given, chapters, reviewing>>

SkipTail ==
  /\ stage = "join" /\ ~reviewing /\ Upcoming > SectionCount
  /\ stage' = "check"
  /\ UNCHANGED <<given, chapters, combined, reviewing, reviewsLeft, failed>>

Outline == [n \in 1 .. SectionCount |-> H2(n)]

\* [mutant] the outline of the text is not compared
OutlineHolds_Any(t) == TRUE

\* _section_structure_violation: the sections of the outline, in its order
OutlineHolds(t) == Headings2(t) = Outline

\* _document_integrity_violation
\* (a section that failed a check is degraded and then has no hard failures)
IntegrityHolds == OutlineHolds(combined) /\ ~Unclosed(combined)

PublishDocument ==
  /\ stage = "check"
  /\ \/ IntegrityHolds /\ stage' = "published" /\ UNCHANGED failed
     \/ ~IntegrityHolds /\ Refuse("final integrity invalid")
  /\ UNCHANGED <<given, chapters, combined, reviewing, reviewsLeft>>

AssemblyNext ==
  \/ DraftChapter \/ BeginAssembly \/ JoinUnreviewed \/ ReviewSeam
  \/ ReviewTail \/ SkipTail \/ PublishDocument

-----------------------------------------------------------------------------
Stages == {"draft", "join", "check", "published", "raised"}

AssemblyTypeOK ==
  /\ stage \in Stages
  /\ given \in Seq(Answers) /\ Len(given) <= SectionCount
  /\ Len(chapters) <= SectionCount
  /\ reviewing \in BOOLEAN /\ reviewsLeft \in Int

Words(t) == Those(t, {"h2", "h3", "full", "clause", "open", "item", "fence", "welded"})
CountOf(t, kind) == Len(Those(t, {kind}))

\* A section is written under its heading and under no other of its level.  Closing its end
\* loses no full sentence of the answer that belongs to it, and at most half of it, unless it
\* then ends in a block of code, which hides what is in it; and it leaves no block of code
\* open that the answer did not, but where a full stop is put after the fence that was to
\* close a block.
ChapterIsKept(answer, title, t) ==
  LET asked == Normalised(Isolated(answer, title), title) IN
  /\ Headings2(t) = <<H2(title)>> /\ Head(t) = H2(title)
  /\ \/ Last(t).kind \in Fences
     \/ CountOf(t, "full") >= CountOf(asked, "full") /\ 2 * Units(t) > Units(asked)
  /\ Contains(t, Welded) \/ (~Unclosed(asked) => ~Unclosed(t))

\* What is published holds the sections in the order of the outline, with nothing put in
\* but bridges and one last sentence, and nothing left out but what came after the last full
\* stop but one, and no reviews were begun that the budget could not finish.  Without a new
\* last sentence a document of closed sections is not refused.
DocumentIsKept ==
  LET whole == Words(Joined(chapters))
      kept  == Words(combined) IN
  /\ reviewsLeft >= 0
  /\ stage = "published" =>
       /\ Headings2(combined) = Outline /\ ~Unclosed(combined)
       /\ IsPrefix(kept, whole)
       /\ Places(combined, {"closing"}) = {} => kept = whole
       /\ CountOf(whole, "full") - CountOf(kept, "full") <= 1
  /\ failed = "final integrity invalid" =>
       \/ Places(combined, {"closing"}) # {}
       \/ \E n \in DOMAIN chapters : Unclosed(chapters[n])

TextIsKept ==
  /\ \A n \in DOMAIN chapters : ChapterIsKept(given[n], n, chapters[n])
  /\ DocumentIsKept
=============================================================================
