----------------------------- MODULE NumberBook ------------------------------
(***************************************************************************)
(* What the numbers of a series promise: a book in which every document    *)
(* is entered once, on the next free line, and no entry is ever moved or   *)
(* replaced.  The line is the document's number.  A transaction may enter  *)
(* several documents of one series at a time.  An entry may be struck out, *)
(* for good: its line stays taken.                                         *)
(***************************************************************************)
EXTENDS Sequences

CONSTANTS Series, Documents,
          Erasable \* the series in which an entry may be struck out

VARIABLES book,  \* of each series: its documents, by line
          struck \* the documents whose entries are struck out

bookVars == <<book, struck>>

Entries(s) == {book[s][n] : n \in DOMAIN book[s]}

\* No line is skipped, and no document is entered twice.
WellKept ==
    /\ book \in [Series -> Seq(Documents)]
    /\ \A s, t \in Series : \A m \in DOMAIN book[s], n \in DOMAIN book[t] :
          book[s][m] = book[t][n] => s = t /\ m = n

BookInit == book = [s \in Series |-> << >>] /\ struck = {}

Enter(s) ==
    /\ book' # book
    /\ \A t \in Series \ {s} : book'[t] = book[t]
    /\ \A n \in DOMAIN book[s] : n \in DOMAIN book'[s] /\ book'[s][n] = book[s][n]
    /\ WellKept'
    /\ UNCHANGED struck

StrikeOut ==
    /\ struck' # struck
    /\ struck \subseteq struck'
    /\ struck' \subseteq struck \union UNION {Entries(s) : s \in Erasable}
    /\ UNCHANGED book

BookNext == StrikeOut \/ \E s \in Series : Enter(s)

BookSpec == BookInit /\ [][BookNext]_bookVars
=============================================================================
