------------------------------ MODULE WordCount ------------------------------
(***************************************************************************)
(* What tareas/t2 promises: a run reads a text and prints how often each    *)
(* word occurs, which words occur how often, and how many words there are   *)
(* of each length, computed here from the text as a whole.  A run may be    *)
(* cut short and another one started.  Only the version with processes may  *)
(* go wrong, for the reasons that Refuse and Answer name.                   *)
(***************************************************************************)
EXTENDS Integers, FiniteSets, SequencesExt

CONSTANTS
    Length,      \* of each word, a number in alphabetical order
    Texts,       \* sequences of words
    Capacity     \* words that the shared memory has room for

VARIABLES text, version, unclean, refused, out

vars == <<text, version, unclean, refused, out>>

-----------------------------------------------------------------------------
\* A line of the output: a count and the words that have it.
Entry(count, string) == [count |-> count, string |-> string]
Before(a, b) == a.count < b.count \/ (a.count = b.count /\ a.string[1] < b.string[1])

\* The elements of a set, one behind the other.
InOrder(S, before(_, _)) ==
    CHOOSE s \in [1..Cardinality(S) -> S] : \A i, j \in DOMAIN s : i < j => before(s[i], s[j])

Occurrences(t, w) == Cardinality({i \in DOMAIN t : t[i] = w})
Repetitions(t) == InOrder({Entry(Occurrences(t, w), <<w>>) : w \in ToSet(t)}, Before)

\* Words with the same number of repetitions, in alphabetical order.
WordsRepeated(t, n) == InOrder({w \in ToSet(t) : Occurrences(t, w) = n}, <)
ByRepetitions(t) ==
    InOrder({Entry(n, WordsRepeated(t, n)) : n \in {Occurrences(t, w) : w \in ToSet(t)}}, Before)

\* The number of words of each length, with the least repeated word that has it.
OfLength(t, l) == {i \in DOMAIN t : Length[t[i]] = l}
Rarest(t, l) ==
    LET have == {e \in ToSet(Repetitions(t)) : Length[e.string[1]] = l}
    IN  CHOOSE e \in have : \A f \in have \ {e} : Before(e, f)
ByLength(t) ==
    InOrder({Entry(Cardinality(OfLength(t, l)), Rarest(t, l).string) : l \in {Length[w] : w \in ToSet(t)}},
                 Before)

Results(t) == <<Repetitions(t), ByRepetitions(t), ByLength(t)>>

-----------------------------------------------------------------------------
Init ==
    /\ text \in Texts /\ version \in {"fork", "threads"}
    /\ unclean = FALSE /\ refused = FALSE /\ out = <<>>

Processes == version = "fork"

\* Shared memory is refused when the text is too long for it, or when an
\* earlier run has left some behind.
Refuse ==
    /\ out = <<>> /\ Processes /\ (unclean \/ Len(text) > Capacity)
    /\ refused' = TRUE
    /\ UNCHANGED <<text, version, unclean, out>>

\* The answer is the right one unless memory has been refused to this run.  An
\* empty text is undefined for the version with processes.
Undefined == Processes /\ (refused \/ text = <<>>)
Answer ==
    /\ out = <<>> /\ out' # <<>>
    /\ out' = Results(text) \/ Undefined
    /\ UNCHANGED <<text, version, unclean, refused>>

\* Another run, on any text.  One that was cut short, or undefined, may have
\* left memory behind.
Again ==
    /\ text' \in Texts /\ out' = <<>> /\ refused' = FALSE
    /\ unclean' = (unclean \/ (Processes /\ (out = <<>> \/ text = <<>>)))
    /\ UNCHANGED version

Next == Refuse \/ Answer \/ Again

Spec == Init /\ [][Next]_vars
=============================================================================
