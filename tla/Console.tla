-------------------------------- MODULE Console --------------------------------
(***************************************************************************)
(* The text screen of console.c: video memory and cursor, and what putc,   *)
(* printf, setPos and clear make of them.  A character that nothing        *)
(* depends on is one symbol.  The module has no specification of its own.  *)
(***************************************************************************)
EXTENDS Integers, Sequences

CONSTANTS
  CSL_WIDTH, CSL_HEIGHT,  \* 80 and 25
  Letters                 \* characters that are neither blank nor newline

ASSUME ScreenAssumption == CSL_WIDTH \in Nat \ {0} /\ CSL_HEIGHT \in Nat \ {0}

Blank == " "
NewLine == "\n"

ASSUME CharAssumption == Letters \cap {Blank, NewLine} = {}

Char == Letters \cup {Blank}

\* putc gets as far as the cell behind row CSL_HEIGHT, which is not displayed.
Cell == 0 .. CSL_WIDTH * (CSL_HEIGHT + 1)

VARIABLE screen   \* videoMemory, row and col

Screen == [video : [Cell -> Char], row : 0 .. CSL_HEIGHT, col : 0 .. CSL_WIDTH]

ScreenTypeOK == screen \in Screen

\* cslInit sets the cursor only; the screen it finds is taken to be blank.
cslInit == [video |-> [i \in Cell |-> Blank], row |-> 0, col |-> 0]

At(row, col) == CSL_WIDTH * row + col

\* Mutant of clear: the cursor stays.
clearCells(s) ==
  [s EXCEPT !.video = [i \in Cell |-> IF i < At(CSL_HEIGHT, 0) THEN Blank ELSE s.video[i]]]

clear(s) == [video |-> [i \in Cell |-> IF i < At(CSL_HEIGHT, 0) THEN Blank ELSE s.video[i]],
             row |-> 0, col |-> 0]

\* Whether c, put in column col, ends the row: the test comes a column late.
EndsRow(col, c) == col + 1 > CSL_WIDTH \/ c = NewLine

putc(s, c) ==
  LET t == [video |-> [s.video EXCEPT ![At(s.row, s.col)] = IF c = NewLine THEN Blank ELSE c],
            row |-> IF EndsRow(s.col, c) THEN s.row + 1 ELSE s.row,
            col |-> IF EndsRow(s.col, c) THEN 0 ELSE s.col + 1]
  IN  IF t.row > CSL_HEIGHT THEN clear(t) ELSE t

\* puts, and printf with cslLock held.
printf(s, text) ==
  LET out[n \in 0 .. Len(text)] == IF n = 0 THEN s ELSE putc(out[n - 1], text[n])
  IN  out[Len(text)]

\* Mutant of setPos: the cell is not changed.
setPosOnly(s, row, col, c) == [s EXCEPT !.row = row, !.col = col]

setPos(s, row, col, c) == [video |-> [s.video EXCEPT ![At(row, col)] = c], row |-> row, col |-> col]
==============================================================================
